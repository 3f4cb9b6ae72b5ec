----------------------------- MODULE WebSession -----------------------------
(***************************************************************************)
(* The dashboard's session: client/src/api/client.ts, hooks/useAuth.ts and *)
(* the sign-in pages against server/internal/auth.  Browser tabs share one *)
(* refresh token, in a cookie; each keeps its access token in memory and   *)
(* refreshes it once for all its requests that were refused.  The server   *)
(* rotates a refresh token in three statements and takes a revoked one for *)
(* stolen: it then revokes all of the user's.  Signing in is by codes,     *)
(* which are counted before they are compared.                             *)
(*                                                                         *)
(* One user; a pair of tokens issued together is one number.               *)
(***************************************************************************)
EXTENDS Naturals, FiniteSets

CONSTANTS
    Tabs, Queries,       \* a tab's own API requests, one of each name at a time
    Nobody,
    OTPMaxAttempts,
    MaxTokens,           \* bound: pairs issued
    MaxCodes,            \* bound: codes issued
    MaxLoads,            \* bound: tabs opened and reloaded by the user
    MaxExpiries,         \* bound: access tokens that run out
    MaxFaults            \* bound: answers lost, queries that fail

Tokens == 1..MaxTokens
Codes  == 1..MaxCodes
Jobs   == Tabs \X (Queries \cup {"boot", "me", "logout"})
Of(t)  == {j \in Jobs : j[1] = t}

ASSUME SessionAssumption ==
    /\ {"boot", "me", "logout"} \cap Queries = {} /\ Nobody \notin Tabs \cup Jobs
    /\ {OTPMaxAttempts, MaxTokens, MaxCodes} \subseteq Nat \ {0}
    /\ {MaxLoads, MaxExpiries, MaxFaults} \subseteq Nat

VARIABLES
    (* the server *)
    rt,                  \* refresh_tokens
    valid,               \* access tokens that have not expired
    codes,               \* otps of the user's address, and how often each was compared
    refreshes,           \* POST /auth/refresh being handled
    (* the browser *)
    cookie,              \* __rt and __sf
    page,                \* what each tab shows
    mem,                 \* accessToken in the tab's store
    jobs,                \* each tab's requests
    refreshing,          \* isRefreshing: the request that refreshes for its tab
    asked,               \* POST /auth/login of each tab
    verify,              \* POST /auth/verify-otp of each tab
    (* what the properties remember *)
    shownBy,             \* who presented each refresh token
    alarm,               \* all sessions were revoked, or a query failed
    loads, expiries, faults

server  == <<rt, valid, codes>>
memory  == <<page, mem, jobs, refreshing>>
signin  == <<asked, verify>>
bounds  == <<loads, expiries, faults>>
vars    == <<server, refreshes, cookie, memory, signin, shownBy, alarm, bounds>>

IdleJob  == [pc |-> "idle", tok |-> 0, body |-> 0, retried |-> FALSE, got |-> 0]
NoCode   == [state |-> "none", attempts |-> 0, guesses |-> 0]
NoSignIn == [step |-> "credentials", pc |-> "none"]
NoVerify == [pc |-> "none", typed |-> 0, code |-> 0, again |-> FALSE]

Init ==
    /\ \E n \in {0, 1} :
          /\ cookie = n
          /\ rt = [i \in Tokens |-> IF i = n THEN "live" ELSE "none"]
    /\ valid = {} /\ codes = [c \in Codes |-> NoCode] /\ refreshes = {}
    /\ page = [t \in Tabs |-> "closed"] /\ mem = [t \in Tabs |-> 0]
    /\ jobs = [j \in Jobs |-> IdleJob] /\ refreshing = [t \in Tabs |-> Nobody]
    /\ asked = [t \in Tabs |-> NoSignIn] /\ verify = [t \in Tabs |-> NoVerify]
    /\ shownBy = [i \in Tokens |-> {}] /\ alarm = "none"
    /\ loads = 0 /\ expiries = 0 /\ faults = 0

Fault == faults < MaxFaults /\ faults' = faults + 1

-----------------------------------------------------------------------------
(* A page load starts over: nobody reads what the old page waited for *)

Reset(t, p) ==
    /\ page' = [page EXCEPT ![t] = p]
    /\ mem' = [mem EXCEPT ![t] = 0]
    /\ jobs' = [j \in Jobs |-> IF j \in Of(t) THEN IdleJob ELSE jobs[j]]
    /\ refreshing' = [refreshing EXCEPT ![t] = Nobody]
    /\ refreshes' = {[r EXCEPT !.job = IF @ \in Of(t) THEN Nobody ELSE @] : r \in refreshes}
    /\ asked' = [asked EXCEPT ![t] = NoSignIn]
    /\ verify' = [verify EXCEPT ![t] = NoVerify]
    /\ shownBy' = [i \in Tokens |->
           IF shownBy[i] = {t} THEN {Nobody} ELSE shownBy[i]]

(* The user opens the application in a tab, or loads it again. *)
Load(t) ==
    /\ loads < MaxLoads /\ loads' = loads + 1
    /\ Reset(t, "loading")
    /\ UNCHANGED <<server, cookie, alarm, expiries, faults>>

(* forceLogout forgets the session and loads the sign-in page. *)
ForceLogout(t) ==
    /\ cookie' = 0
    /\ Reset(t, "loading")

Shown(tok, pages) ==
    [i \in Tokens |-> IF i = tok /\ alarm = "none" THEN shownBy[i] \cup pages ELSE shownBy[i]]

Post(j, tok) ==
    /\ refreshes' = refreshes \cup {[job |-> j, tok |-> tok, pc |-> "sent"]}
    /\ shownBy' = Shown(tok, {j[1]})

Sent(tok, body) == [IdleJob EXCEPT !.pc = "sent", !.tok = tok, !.body = body]

(* A session of an earlier visit is refreshed when the page loads. *)
Hydrate(t) ==
    /\ page[t] = "loading"
    /\ \/ /\ cookie = 0
          /\ page' = [page EXCEPT ![t] = "guest"]
          /\ UNCHANGED <<jobs, refreshes, shownBy>>
       \/ /\ cookie # 0
          /\ page' = [page EXCEPT ![t] = "booting"]
          /\ jobs' = [jobs EXCEPT ![<<t, "boot">>] = Sent(0, cookie)]
          /\ Post(<<t, "boot">>, cookie)
    /\ UNCHANGED <<server, cookie, mem, refreshing, signin, alarm, bounds>>

HydrateFails(t) ==
    /\ page' = [page EXCEPT ![t] = "guest"]
    /\ mem' = [mem EXCEPT ![t] = 0]
    /\ cookie' = 0
    /\ jobs' = [jobs EXCEPT ![<<t, "boot">>] = IdleJob, ![<<t, "me">>] = IdleJob]

\* Mutant: a refresh token that is there is kept.
CookieKept(n) == IF cookie = 0 THEN n ELSE cookie

(* setRefreshToken *)
CookieSet(n) == n

(* The new pair is stored, and the user is asked for with it. *)
Hydrated(t) ==
    LET n == jobs[<<t, "boot">>].got IN
    /\ jobs[<<t, "boot">>].pc = "answered"
    /\ mem' = [mem EXCEPT ![t] = n]
    /\ cookie' = CookieSet(n)
    /\ jobs' = [jobs EXCEPT ![<<t, "boot">>] = [IdleJob EXCEPT !.got = n], ![<<t, "me">>] = Sent(n, 0)]
    /\ UNCHANGED <<server, refreshes, page, refreshing, signin, shownBy, alarm, bounds>>

-----------------------------------------------------------------------------
(* POST /auth/refresh: the token is read, revoked, and another pair is issued *)

(* n = 0: any error, a 401.  A request of the interceptor's is not a job's own. *)
Answered(x, n) ==
    [x EXCEPT !.got = n,
              !.pc = IF x.pc = "refreshing" THEN IF n = 0 THEN "denied" ELSE "renewed"
                     ELSE IF n = 0 THEN "refused" ELSE "answered"]

Answer(r, n) ==
    /\ refreshes' = refreshes \ {r}
    /\ jobs' = IF r.job = Nobody THEN jobs ELSE [jobs EXCEPT ![r.job] = Answered(@, n)]

RevokeAll == [i \in Tokens |-> IF rt[i] = "live" THEN "revoked" ELSE rt[i]]

(* What happens after the first alarm is its consequence. *)
Alarm(tok) ==
    /\ alarm' = IF alarm = "none" /\ Cardinality(shownBy[tok]) <= 1 THEN "unexplained" ELSE "excused"
    /\ shownBy' = [i \in Tokens |-> {}]

ReadToken(r) ==
    /\ r.pc = "sent"
    /\ \/ /\ rt[r.tok] = "live"
          /\ refreshes' = (refreshes \ {r}) \cup {[r EXCEPT !.pc = "found"]}
          /\ UNCHANGED <<jobs, rt, shownBy, alarm>>
       \/ /\ rt[r.tok] = "revoked"
          /\ rt' = RevokeAll
          /\ Alarm(r.tok)
          /\ Answer(r, 0)
    /\ UNCHANGED <<valid, codes, cookie, page, mem, refreshing, signin, bounds>>

RevokeToken(r) ==
    /\ r.pc = "found"
    /\ rt' = [rt EXCEPT ![r.tok] = "revoked"]
    /\ refreshes' = (refreshes \ {r}) \cup {[r EXCEPT !.pc = "revoked"]}
    /\ UNCHANGED <<valid, codes, cookie, memory, signin, shownBy, alarm, bounds>>

(* issueTokenPair *)
Issue(n) ==
    /\ n \in Tokens /\ rt[n] = "none" /\ \A i \in Tokens : i < n => rt[i] # "none"
    /\ rt' = [rt EXCEPT ![n] = "live"]
    /\ valid' = valid \cup {n}

IssuePair(r) ==
    /\ r.pc = "revoked"
    /\ \E n \in Tokens : Issue(n) /\ Answer(r, n)
    /\ UNCHANGED <<codes, cookie, page, mem, refreshing, signin, shownBy, alarm, bounds>>

(* A query fails: ErrInternal, which the handler answers as TOKEN_INVALID. *)
DbFails(r) ==
    /\ Fault
    /\ alarm' = IF alarm = "none" THEN "excused" ELSE alarm
    /\ shownBy' = [i \in Tokens |-> {}]
    /\ Answer(r, 0)
    /\ UNCHANGED <<server, cookie, page, mem, refreshing, signin, loads, expiries>>

(* Nobody waits any more: the request's context is cancelled. *)
Cancelled(r) ==
    /\ r.job = Nobody
    /\ refreshes' = refreshes \ {r}
    /\ UNCHANGED <<server, cookie, memory, signin, shownBy, alarm, bounds>>

AccessExpires(n) ==
    /\ n \in valid /\ expiries < MaxExpiries
    /\ expiries' = expiries + 1
    /\ valid' = valid \ {n}
    /\ UNCHANGED <<rt, codes, refreshes, cookie, memory, signin, shownBy, alarm, loads, faults>>

-----------------------------------------------------------------------------
(* Requests with an access token, and the interceptor of their answers *)

StartQuery(t, q) ==
    /\ page[t] = "app" /\ jobs[<<t, q>>].pc = "idle"
    /\ jobs' = [jobs EXCEPT ![<<t, q>>] = Sent(mem[t], 0)]
    /\ UNCHANGED <<server, refreshes, cookie, page, mem, refreshing, signin, shownBy, alarm, bounds>>

(* The caller gets its error: the hydration and the log-out go on, each in its own way. *)
Rejected(j) ==
    IF j[2] \in {"boot", "me"} THEN HydrateFails(j[1])
    ELSE /\ jobs' = [jobs EXCEPT ![j] = IF j[2] = "logout" THEN [IdleJob EXCEPT !.pc = "done"] ELSE IdleJob]
         /\ UNCHANGED <<page, mem, cookie>>

Serve(j) ==
    /\ jobs[j].pc = "sent" /\ j[2] # "boot"
    /\ \/ /\ jobs[j].tok \notin valid
          /\ jobs' = [jobs EXCEPT ![j].pc = "refused"]
          /\ UNCHANGED <<rt, page, mem>>
       \/ /\ jobs[j].tok \in valid /\ j[2] \in Queries
          /\ jobs' = [jobs EXCEPT ![j] = IdleJob]
          /\ UNCHANGED <<rt, page, mem>>
       \/ /\ jobs[j].tok \in valid /\ j[2] = "me"
          /\ page' = [page EXCEPT ![j[1]] = "app"]
          /\ mem' = [mem EXCEPT ![j[1]] = jobs[<<j[1], "boot">>].got]
          /\ jobs' = [jobs EXCEPT ![j] = IdleJob, ![<<j[1], "boot">>] = IdleJob]
          /\ UNCHANGED rt
       \/ /\ jobs[j].tok \in valid /\ j[2] = "logout"
          /\ rt' = [rt EXCEPT ![jobs[j].body] = "revoked"]
          /\ jobs' = [jobs EXCEPT ![j].pc = "done"]
          /\ UNCHANGED <<page, mem>>
    /\ UNCHANGED <<valid, codes, refreshes, cookie, refreshing, signin, shownBy, alarm, bounds>>

\* Mutant: every refused request refreshes for itself.
RefreshAlone(j) ==
    /\ refreshing' = [refreshing EXCEPT ![j[1]] = j]
    /\ jobs' = [jobs EXCEPT ![j] = [@ EXCEPT !.pc = "refreshing", !.retried = TRUE]]
    /\ Post(j, cookie)

(* The first refused request of a tab refreshes, the others wait for it. *)
RefreshOrWait(j) ==
    \/ /\ refreshing[j[1]] # Nobody
       /\ jobs' = [jobs EXCEPT ![j].pc = "queued"]
       /\ UNCHANGED <<refreshing, refreshes, shownBy>>
    \/ /\ refreshing[j[1]] = Nobody
       /\ refreshing' = [refreshing EXCEPT ![j[1]] = j]
       /\ jobs' = [jobs EXCEPT ![j] = [@ EXCEPT !.pc = "refreshing", !.retried = TRUE]]
       /\ Post(j, cookie)

(* Without a refresh token (another tab has logged out) the page is left. *)
Refused(j) ==
    /\ jobs[j].pc = "refused"
    /\ \/ jobs[j].retried /\ Rejected(j) /\ UNCHANGED <<refreshing, refreshes, signin, shownBy>>
       \/ ~jobs[j].retried /\ cookie = 0 /\ ForceLogout(j[1])
       \/ ~jobs[j].retried /\ cookie # 0 /\ RefreshOrWait(j) /\ UNCHANGED <<page, mem, cookie, signin>>
    /\ UNCHANGED <<server, alarm, bounds>>

\* Mutant: those that wait are forgotten.
FlushedNone(t) == {}

(* processQueue *)
Flushed(t) == {j \in Of(t) : jobs[j].pc = "queued"}

(* The pair is stored and the requests are sent again; the hydration's, with the token it had. *)
Renewed(j) ==
    LET t == j[1]  n == jobs[j].got IN
    /\ jobs[j].pc = "renewed"
    /\ mem' = [mem EXCEPT ![t] = n]
    /\ cookie' = CookieSet(n)
    /\ refreshing' = [refreshing EXCEPT ![t] = Nobody]
    /\ jobs' = [k \in Jobs |-> IF k \in Flushed(t) \cup {j} THEN [jobs[k] EXCEPT !.pc = "sent", !.tok = n, !.got = IF k[2] = "boot" THEN 0 ELSE @]
                               ELSE jobs[k]]
    /\ IF j[2] = "boot" THEN Post(j, jobs[j].body) ELSE UNCHANGED <<refreshes, shownBy>>
    /\ UNCHANGED <<server, page, signin, alarm, bounds>>

Denied(j) ==
    /\ jobs[j].pc = "denied"
    /\ ForceLogout(j[1])
    /\ UNCHANGED <<server, alarm, bounds>>

(* No answer comes: the request failed, or timed out.  The server may be at work on it. *)
Lost(j) ==
    /\ Fault
    /\ \/ /\ jobs[j].pc = "refreshing" /\ ForceLogout(j[1])
       \/ /\ jobs[j].pc = "sent"
          /\ refreshes' = {[r EXCEPT !.job = IF @ = j THEN Nobody ELSE @] : r \in refreshes}
          /\ Rejected(j)
          /\ UNCHANGED <<refreshing, signin, shownBy>>
    /\ UNCHANGED <<server, alarm, loads, expiries>>

-----------------------------------------------------------------------------
(* logout: the server is told if it can be, then all is forgotten *)

Logout(t) ==
    /\ page[t] = "app" /\ jobs[<<t, "logout">>].pc = "idle"
    /\ jobs' = [jobs EXCEPT ![<<t, "logout">>] =
           IF cookie = 0 THEN [IdleJob EXCEPT !.pc = "done"] ELSE Sent(mem[t], cookie)]
    /\ shownBy' = Shown(cookie, {t, Nobody})
    /\ UNCHANGED <<server, refreshes, cookie, page, mem, refreshing, signin, alarm, bounds>>

LoggedOut(t) ==
    /\ jobs[<<t, "logout">>].pc = "done"
    /\ jobs' = [jobs EXCEPT ![<<t, "logout">>] = IdleJob]
    /\ page' = [page EXCEPT ![t] = "guest"]
    /\ mem' = [mem EXCEPT ![t] = 0]
    /\ cookie' = 0
    /\ UNCHANGED <<server, refreshes, refreshing, signin, shownBy, alarm, bounds>>

-----------------------------------------------------------------------------
(* Signing in: a code is sent to the user's address and typed in *)

AskForCode(t) ==
    /\ page[t] = "guest" /\ asked[t].pc = "none" /\ codes[MaxCodes].state = "none"
    /\ asked' = [asked EXCEPT ![t].pc = "sent"]
    /\ UNCHANGED <<server, refreshes, cookie, memory, verify, shownBy, alarm, bounds>>

Unused == {c \in Codes : codes[c].state = "unused"}

InvalidateCodes(t) ==
    /\ asked[t].pc = "sent"
    /\ codes' = [c \in Codes |-> IF c \in Unused THEN [codes[c] EXCEPT !.state = "used"] ELSE codes[c]]
    /\ asked' = [asked EXCEPT ![t].pc = "invalidated"]
    /\ UNCHANGED <<rt, valid, refreshes, cookie, memory, verify, shownBy, alarm, bounds>>

CreateCode(t) ==
    /\ asked[t].pc = "invalidated"
    /\ \E c \in Codes :
          /\ codes[c].state = "none" /\ \A d \in Codes : d < c => codes[d].state # "none"
          /\ codes' = [codes EXCEPT ![c].state = "unused"]
    /\ asked' = [asked EXCEPT ![t] = [step |-> "otp", pc |-> "none"]]
    /\ UNCHANGED <<rt, valid, refreshes, cookie, memory, verify, shownBy, alarm, bounds>>

(* The sixth digit sends the code: one of those received, or a wrong one. *)
TypeCode(t, x) ==
    /\ page[t] = "guest" /\ asked[t].step = "otp" /\ verify[t].pc = "none"
    /\ x # 0 => codes[x].state # "none"
    /\ verify' = [verify EXCEPT ![t] = [NoVerify EXCEPT !.pc = "sent", !.typed = x]]
    /\ UNCHANGED <<server, refreshes, cookie, memory, asked, shownBy, alarm, bounds>>

FindCode(t) ==
    /\ verify[t].pc = "sent"
    /\ \/ Unused = {} /\ verify' = [verify EXCEPT ![t] = NoVerify]
       \/ \E c \in Unused :
             /\ \A d \in Unused : d <= c
             /\ verify' = [verify EXCEPT ![t] = [@ EXCEPT !.pc = "found", !.code = c]]
    /\ UNCHANGED <<server, refreshes, cookie, memory, asked, shownBy, alarm, bounds>>

\* Mutant: the attempt that reaches the limit is still compared.
LocksAfter(n) == n > OTPMaxAttempts

Locks(n) == n >= OTPMaxAttempts

Attempted(k, n) == [k EXCEPT !.attempts = n, !.state = IF Locks(n) THEN "used" ELSE k.state]

(* The attempt is counted first.  A 429 is tried again once, by the interceptor. *)
CountAttempt(t) ==
    LET v == verify[t]  n == codes[v.code].attempts + 1 IN
    /\ v.pc = "found"
    /\ codes' = [codes EXCEPT ![v.code] = Attempted(@, n)]
    /\ verify' = [verify EXCEPT ![t] =
           IF ~Locks(n) THEN [v EXCEPT !.pc = "counted"]
           ELSE IF v.again THEN NoVerify ELSE [v EXCEPT !.pc = "sent", !.code = 0, !.again = TRUE]]
    /\ UNCHANGED <<rt, valid, refreshes, cookie, memory, asked, shownBy, alarm, bounds>>

Compared(k, right) ==
    [k EXCEPT !.guesses = k.guesses + 1, !.state = IF right THEN "used" ELSE k.state]

(* A code that is too old, one that is wrong, or the right one, which is used up. *)
CompareCode(t) ==
    LET v == verify[t] IN
    /\ v.pc = "counted"
    /\ \/ /\ codes' = [codes EXCEPT ![v.code].state = "used"]
          /\ verify' = [verify EXCEPT ![t] = NoVerify]
       \/ /\ codes' = [codes EXCEPT ![v.code] = Compared(@, v.typed = v.code)]
          /\ verify' = [verify EXCEPT ![t] = IF v.typed = v.code THEN [v EXCEPT !.pc = "matched"] ELSE NoVerify]
    /\ UNCHANGED <<rt, valid, refreshes, cookie, memory, asked, shownBy, alarm, bounds>>

SignedIn(t) ==
    /\ verify[t].pc = "matched"
    /\ \E n \in Tokens :
          /\ Issue(n)
          /\ mem' = [mem EXCEPT ![t] = n]
          /\ cookie' = CookieSet(n)
    /\ page' = [page EXCEPT ![t] = "app"]
    /\ verify' = [verify EXCEPT ![t] = NoVerify]
    /\ asked' = [asked EXCEPT ![t] = NoSignIn]
    /\ UNCHANGED <<codes, refreshes, jobs, refreshing, shownBy, alarm, bounds>>

VerifyLost(t) ==
    /\ verify[t].pc # "none" /\ Fault
    /\ verify' = [verify EXCEPT ![t] = NoVerify]
    /\ UNCHANGED <<server, refreshes, cookie, memory, asked, shownBy, alarm, loads, expiries>>

-----------------------------------------------------------------------------
ServerStep(r) == ReadToken(r) \/ RevokeToken(r) \/ IssuePair(r)
JobStep(j)    == Serve(j) \/ Refused(j) \/ Renewed(j) \/ Denied(j)
PageStep(t)   == Hydrate(t) \/ Hydrated(t) \/ LoggedOut(t)
CodeStep(t)   == InvalidateCodes(t) \/ CreateCode(t)
VerifyStep(t) == FindCode(t) \/ CountAttempt(t) \/ CompareCode(t) \/ SignedIn(t)

Next ==
    \/ \E r \in refreshes : ServerStep(r) \/ DbFails(r) \/ Cancelled(r)
    \/ \E j \in Jobs : JobStep(j) \/ Lost(j)
    \/ \E t \in Tabs : PageStep(t) \/ CodeStep(t) \/ VerifyStep(t) \/ VerifyLost(t)
    \/ \E t \in Tabs : Load(t) \/ Logout(t) \/ AskForCode(t)
    \/ \E t \in Tabs, x \in 0..MaxCodes : TypeCode(t, x)
    \/ \E t \in Tabs, q \in Queries : StartQuery(t, q)
    \/ \E n \in Tokens : AccessExpires(n)

Spec == Init /\ [][Next]_vars

-----------------------------------------------------------------------------
(* The state is what the program can hold.                                                         *)
TypeOK ==
    /\ rt \in [Tokens -> {"none", "live", "revoked"}] /\ valid \subseteq Tokens
    /\ codes \in [Codes -> [state : {"none", "unused", "used"}, attempts : Nat, guesses : Nat]]
    /\ refreshes \subseteq [job : Jobs \cup {Nobody}, tok : Tokens, pc : {"sent", "found", "revoked"}]
    /\ cookie \in 0..MaxTokens
    /\ page \in [Tabs -> {"closed", "loading", "booting", "guest", "app"}]
    /\ mem \in [Tabs -> 0..MaxTokens]
    /\ jobs \in [Jobs -> [pc : {"idle", "sent", "refused", "queued", "refreshing", "renewed", "denied",
                                "answered", "done"},
                          tok : 0..MaxTokens, body : 0..MaxTokens, retried : BOOLEAN, got : 0..MaxTokens]]
    /\ asked \in [Tabs -> [step : {"credentials", "otp"}, pc : {"none", "sent", "invalidated"}]]
    /\ verify \in [Tabs -> [pc : {"none", "sent", "found", "counted", "matched"}, typed : 0..MaxCodes,
                            code : 0..MaxCodes, again : BOOLEAN]]
    /\ shownBy \in [Tokens -> SUBSET (Tabs \cup {Nobody})]
    /\ alarm \in {"none", "excused", "unexplained"}
    /\ loads \in 0..MaxLoads /\ expiries \in 0..MaxExpiries /\ faults \in 0..MaxFaults

Refreshers(t) == {j \in Of(t) : jobs[j].pc \in {"refreshing", "renewed", "denied"}}

(* No request waits for ever behind a refresh that is over: a tab refreshes exactly while one      *)
(* request of its own does so, and only then do others wait, through expiries, failures and loads. *)
(* Code: isRefreshing and failedQueue in api/client.ts.                                            *)
OneRefresherServesAll ==
    \A t \in Tabs :
        /\ Refreshers(t) = {refreshing[t]} \ {Nobody}
        /\ \A j \in Of(t) : jobs[j].pc = "queued" => Refreshers(t) # {}

(* All sessions of the user are revoked for the reuse of a token only when two pages presented the *)
(* same one, a log-out named it, or the database failed in a refresh: the requests of one page that *)
(* is not being logged out never look like theft.                                                   *)
(* Code: isRefreshing in api/client.ts, the hydration in useAuth.ts, Refresh in auth/service.go.    *)
AlarmsExplained == alarm # "unexplained"

(* However attempts interleave, and whichever code an attempt found, a code is compared fewer than  *)
(* OTPMaxAttempts times.  Code: VerifyOTP, IncrementOTPAttempts.                                     *)
GuessesBounded == \A c \in Codes : codes[c].guesses < OTPMaxAttempts

(* client/SECURITY.md:22: "Logout revokes the token server-side".  When a log-out that the server   *)
(* answered ends, the session the browser had is revoked.                                            *)
LogoutRevokes ==
    [][\A t \in Tabs :
         page[t] = "app" /\ page'[t] = "guest" /\ faults = 0 /\ cookie # 0 => rt[cookie] = "revoked"]_vars
=============================================================================
