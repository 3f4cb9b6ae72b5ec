-------------------------- MODULE WebSession_proofs --------------------------
(* For any tabs, queries, tokens and codes: a tab refreshes once for all its *)
(* requests, one page never looks like theft, and a code is not guessed      *)
(* oftener than its limit.                                                   *)
EXTENDS WebSession, FiniteSetTheorems, TLAPS

-----------------------------------------------------------------------------
(* A tab: its page, its requests, and which of them refreshes.               *)

Boot(t) == jobs[<<t, "boot">>]
Me(t)   == jobs[<<t, "me">>]
Out(t)  == jobs[<<t, "logout">>]

PageFits(t) ==
    /\ page[t] \in {"closed", "loading"} => \A j \in Of(t) : jobs[j].pc = "idle"
    /\ page[t] = "booting" =>
          \A j \in Of(t) : j[2] \notin {"boot", "me"} => jobs[j].pc = "idle"
    /\ page[t] # "booting" => Boot(t).pc = "idle" /\ Me(t).pc = "idle"
    /\ Me(t).pc # "idle" => Boot(t).pc = "idle"
    /\ Out(t).pc # "idle" => page[t] = "app"
    /\ verify[t].pc # "none" => page[t] = "guest"
    /\ Boot(t).pc # "idle" => Boot(t).body # 0

Refreshes(j) == jobs[j].pc \in {"refreshing", "renewed", "denied"}

RefreshFits(j) ==
    /\ Refreshes(j) <=> refreshing[j[1]] = j
    /\ jobs[j].pc = "queued" => refreshing[j[1]] # Nobody

Awaits(j) == jobs[j].pc = "refreshing" \/ (j[2] = "boot" /\ jobs[j].pc = "sent")

TabInv ==
    /\ refreshing \in [Tabs -> Jobs \cup {Nobody}]
    /\ \A t \in Tabs : PageFits(t) /\ refreshing[t] \in Of(t) \cup {Nobody}
    /\ \A j \in Jobs : RefreshFits(j)

\* A refresh that is awaited is one job's own.
AwaitInv ==
    /\ \A r \in refreshes : r.job # Nobody => Awaits(r.job)
    /\ \A r, s \in refreshes : r.job = s.job /\ r.job # Nobody => r = s

-----------------------------------------------------------------------------
(* Codes: each comparison was counted, below the limit.                      *)

Counted(c) == {t \in Tabs : verify[t].pc = "counted" /\ verify[t].code = c}

CodeFits(c) ==
    /\ IsFiniteSet(Counted(c))
    /\ codes[c].guesses + Cardinality(Counted(c)) <= codes[c].attempts
    /\ codes[c].guesses + Cardinality(Counted(c)) < OTPMaxAttempts

CodeInv ==
    /\ \A c \in Codes : CodeFits(c)
    /\ \A t \in Tabs : verify[t].pc \in {"found", "counted", "matched"} => verify[t].code \in Codes

-----------------------------------------------------------------------------
(* Tokens: who holds one, and who has presented it.                          *)

Holds(j) == jobs[j].pc \in {"answered", "renewed"}

\* An answer that is not stored yet is a token nobody else has.
HandInv ==
    /\ cookie # 0 => rt[cookie] # "none"
    /\ \A j \in Jobs : Holds(j) =>
          jobs[j].got # 0 /\ rt[jobs[j].got] # "none" /\ jobs[j].got # cookie
    /\ \A j, k \in Jobs : Holds(j) /\ Holds(k) /\ jobs[j].got = jobs[k].got => j = k

Alone(i) == \A x, y \in shownBy[i] : x = y

\* One page presented it: it is refreshed at most once, and revoked by that.
TokenFits(i) ==
    /\ rt[i] = "none" => shownBy[i] = {}
    /\ rt[i] = "revoked" => shownBy[i] # {}
    /\ \A r \in refreshes : r.tok = i => shownBy[i] # {}
    /\ Alone(i) => /\ \A r \in refreshes : r.tok = i /\ rt[i] = "revoked" => r.pc = "revoked"
                   /\ \A r, s \in refreshes : r.tok = i /\ s.tok = i => r = s

\* A page that presented the token of the cookie still waits for the answer.
ShowFits(t) ==
    /\ cookie # 0 /\ shownBy[cookie] = {t} =>
          refreshing[t] # Nobody \/ Boot(t).pc \in {"sent", "answered"}
    /\ page[t] \in {"closed", "loading"} => \A i \in Tokens : shownBy[i] # {t}
    /\ Boot(t).pc \in {"idle", "sent", "answered"}
    /\ Out(t).body # 0 => ~Alone(Out(t).body)

TokensQuiet == \A i \in Tokens : TokenFits(i)
TabsQuiet   == \A t \in Tabs : ShowFits(t)
HandsQuiet  == \A j \in Jobs : Holds(j) => shownBy[jobs[j].got] = {}

QuietInv == TokensQuiet /\ TabsQuiet /\ HandsQuiet

ShownInv == \A i \in Tokens : IsFiniteSet(shownBy[i])

TheftInv == ShownInv /\ alarm # "unexplained" /\ (alarm = "none" => QuietInv)

Inv == TypeOK /\ TabInv /\ AwaitInv /\ CodeInv /\ HandInv /\ TheftInv

-----------------------------------------------------------------------------
(* The records the model is built from.                                      *)

JobPCs == {"idle", "sent", "refused", "queued", "refreshing", "renewed", "denied",
           "answered", "done"}

JobRec == [pc : JobPCs, tok : 0..MaxTokens, body : 0..MaxTokens, retried : BOOLEAN,
           got : 0..MaxTokens]

RefreshRec == [job : Jobs \cup {Nobody}, tok : Tokens, pc : {"sent", "found", "revoked"}]

VerifyRec == [pc : {"none", "sent", "found", "counted", "matched"}, typed : 0..MaxCodes,
              code : 0..MaxCodes, again : BOOLEAN]

CodeRec == [state : {"none", "unused", "used"}, attempts : Nat, guesses : Nat]

SignInRec == [step : {"credentials", "otp"}, pc : {"none", "sent", "invalidated"}]

ServerTypes == rt \in [Tokens -> {"none", "live", "revoked"}] /\ valid \subseteq Tokens

CodeTypes == codes \in [Codes -> CodeRec] /\ verify \in [Tabs -> VerifyRec]

TabTypes ==
    /\ page \in [Tabs -> {"closed", "loading", "booting", "guest", "app"}]
    /\ mem \in [Tabs -> 0..MaxTokens]
    /\ asked \in [Tabs -> SignInRec]

JobTypes == jobs \in [Jobs -> JobRec] /\ refreshes \subseteq RefreshRec /\ cookie \in 0..MaxTokens

GhostTypes ==
    /\ shownBy \in [Tokens -> SUBSET (Tabs \cup {Nobody})]
    /\ alarm \in {"none", "excused", "unexplained"}

BoundTypes == loads \in 0..MaxLoads /\ expiries \in 0..MaxExpiries /\ faults \in 0..MaxFaults

LEMMA TypeParts ==
    /\ TypeOK <=> ServerTypes /\ CodeTypes /\ TabTypes /\ JobTypes /\ GhostTypes /\ BoundTypes
    /\ TypeOK' <=> ServerTypes' /\ CodeTypes' /\ TabTypes' /\ JobTypes' /\ GhostTypes' /\ BoundTypes'
  BY DEF TypeOK, ServerTypes, CodeTypes, TabTypes, JobTypes, GhostTypes, BoundTypes, JobRec, JobPCs,
         RefreshRec, VerifyRec, CodeRec, SignInRec

LEMMA Bounds ==
    /\ MaxTokens \in Nat \ {0} /\ MaxCodes \in Nat \ {0} /\ OTPMaxAttempts \in Nat \ {0}
    /\ MaxLoads \in Nat /\ MaxExpiries \in Nat /\ MaxFaults \in Nat
    /\ Tokens \subseteq 0..MaxTokens /\ Codes \subseteq 0..MaxCodes
    /\ 0 \notin Tokens /\ 0 \notin Codes
    /\ \A n \in 0..MaxTokens : n # 0 => n \in Tokens
    /\ \A n \in 0..MaxCodes : n # 0 => n \in Codes
  BY SessionAssumption DEF SessionAssumption, Tokens, Codes

LEMMA JobIs ==
    ASSUME NEW j \in Jobs
    PROVE  /\ j[1] \in Tabs /\ j[2] \in Queries \cup {"boot", "me", "logout"}
           /\ j = <<j[1], j[2]>> /\ j \in Of(j[1]) /\ j # Nobody
  BY SessionAssumption DEF SessionAssumption, Jobs, Of

LEMMA TabIs ==
    ASSUME NEW t \in Tabs
    PROVE  /\ <<t, "boot">> \in Of(t) /\ <<t, "me">> \in Of(t) /\ <<t, "logout">> \in Of(t)
           /\ \A q \in Queries : <<t, q>> \in Of(t) /\ q \notin {"boot", "me", "logout"}
           /\ <<t, "boot">> # <<t, "me">> /\ <<t, "boot">> # <<t, "logout">>
           /\ <<t, "me">> # <<t, "logout">> /\ t # Nobody
           /\ \A j \in Of(t) : j \in Jobs /\ j[1] = t
           /\ \A j \in Jobs : j[1] = t => j \in Of(t)
  BY SessionAssumption DEF SessionAssumption, Jobs, Of

LEMMA IdleIs ==
    /\ IdleJob \in JobRec /\ IdleJob.pc = "idle" /\ IdleJob.body = 0 /\ IdleJob.got = 0
    /\ ~IdleJob.retried
  BY Bounds DEF IdleJob, JobRec, JobPCs

LEMMA SentIs ==
    ASSUME NEW tok \in 0..MaxTokens, NEW body \in 0..MaxTokens, NEW s, s = Sent(tok, body)
    PROVE  s \in JobRec /\ s.pc = "sent" /\ s.tok = tok /\ s.body = body /\ s.got = 0 /\ ~s.retried
  BY IdleIs DEF Sent, JobRec, JobPCs

LEMMA NoVerifyIs ==
    NoVerify \in VerifyRec /\ NoVerify.pc = "none" /\ NoVerify.code = 0 /\ ~NoVerify.again
  BY Bounds DEF NoVerify, VerifyRec

LEMMA NoSignInIs == NoSignIn \in SignInRec
  BY DEF NoSignIn, SignInRec

LEMMA NoCodeIs == NoCode \in CodeRec /\ NoCode.state = "none" /\ NoCode.guesses = 0 /\ NoCode.attempts = 0
  BY DEF NoCode, CodeRec

-----------------------------------------------------------------------------
(* The parts that the actions share keep the types.                          *)

LEMMA JobSet ==
    ASSUME JobTypes, NEW j \in Jobs, NEW x \in JobRec
    PROVE  [jobs EXCEPT ![j] = x] \in [Jobs -> JobRec]
  BY DEF JobTypes

LEMMA JobSetPC ==
    ASSUME JobTypes, NEW j \in Jobs, NEW p \in JobPCs
    PROVE  [jobs EXCEPT ![j].pc = p] \in [Jobs -> JobRec]
  BY DEF JobTypes, JobRec

LEMMA CookieIs ==
    ASSUME JobTypes, cookie # 0 PROVE cookie \in Tokens
  BY Bounds DEF JobTypes

LEMMA ShownTypes ==
    ASSUME GhostTypes, NEW tok, NEW S \in SUBSET (Tabs \cup {Nobody})
    PROVE  Shown(tok, S) \in [Tokens -> SUBSET (Tabs \cup {Nobody})]
  BY DEF GhostTypes, Shown

LEMMA PostTypes ==
    ASSUME JobTypes, GhostTypes, NEW j \in Jobs, NEW tok \in Tokens, Post(j, tok)
    PROVE  refreshes' \subseteq RefreshRec /\ shownBy' \in [Tokens -> SUBSET (Tabs \cup {Nobody})]
  <1>1. {j[1]} \in SUBSET (Tabs \cup {Nobody})
    BY JobIs
  <1>2. [job |-> j, tok |-> tok, pc |-> "sent"] \in RefreshRec
    BY DEF RefreshRec
  <1> QED
    BY <1>1, <1>2, ShownTypes DEF Post, JobTypes

Orphan(r, t) == [r EXCEPT !.job = IF @ \in Of(t) THEN Nobody ELSE @]

LEMMA OrphanIs ==
    ASSUME NEW r \in RefreshRec, NEW t, NEW o, o = Orphan(r, t)
    PROVE  /\ o \in RefreshRec /\ o.tok = r.tok /\ o.pc = r.pc
           /\ o.job = IF r.job \in Of(t) THEN Nobody ELSE r.job
  BY DEF Orphan, RefreshRec

Drop(r, j) == [r EXCEPT !.job = IF @ = j THEN Nobody ELSE @]

LEMMA DropIs ==
    ASSUME NEW r \in RefreshRec, NEW j, NEW o, o = Drop(r, j)
    PROVE  /\ o \in RefreshRec /\ o.tok = r.tok /\ o.pc = r.pc
           /\ o.job = IF r.job = j THEN Nobody ELSE r.job
  BY DEF Drop, RefreshRec

LEMMA ResetIs ==
    ASSUME TypeOK, NEW t \in Tabs, Reset(t, "loading")
    PROVE  /\ page' = [page EXCEPT ![t] = "loading"] /\ mem' = [mem EXCEPT ![t] = 0]
           /\ jobs' = [j \in Jobs |-> IF j \in Of(t) THEN IdleJob ELSE jobs[j]]
           /\ refreshing' = [refreshing EXCEPT ![t] = Nobody]
           /\ refreshes' = {Orphan(r, t) : r \in refreshes}
           /\ asked' = [asked EXCEPT ![t] = NoSignIn] /\ verify' = [verify EXCEPT ![t] = NoVerify]
           /\ shownBy' = [i \in Tokens |-> IF shownBy[i] = {t} THEN {Nobody} ELSE shownBy[i]]
  BY DEF Reset, Orphan

LEMMA ResetTypes ==
    ASSUME TypeOK, NEW t \in Tabs, Reset(t, "loading")
    PROVE  /\ TabTypes' /\ jobs' \in [Jobs -> JobRec] /\ refreshes' \subseteq RefreshRec
           /\ verify' \in [Tabs -> VerifyRec]
           /\ shownBy' \in [Tokens -> SUBSET (Tabs \cup {Nobody})]
  <1> USE TypeParts
  <1>1. TabTypes'
    BY ResetIs, NoSignInIs, Bounds DEF TabTypes
  <1>2. jobs' \in [Jobs -> JobRec]
    BY ResetIs, IdleIs DEF JobTypes
  <1>3. refreshes' \subseteq RefreshRec
    BY ResetIs, OrphanIs DEF JobTypes
  <1>4. verify' \in [Tabs -> VerifyRec]
    BY ResetIs, NoVerifyIs DEF CodeTypes
  <1>5. shownBy' \in [Tokens -> SUBSET (Tabs \cup {Nobody})]
    BY ResetIs DEF GhostTypes
  <1> QED
    BY <1>1, <1>2, <1>3, <1>4, <1>5

LEMMA LeaveTypes ==
    ASSUME TypeOK, NEW t \in Tabs, ForceLogout(t), UNCHANGED <<server, alarm>>, BoundTypes'
    PROVE  TypeOK'
  <1>1. Reset(t, "loading") /\ cookie' = 0
    BY DEF ForceLogout
  <1> QED
    BY <1>1, ResetTypes, TypeParts, Bounds
       DEF server, ServerTypes, CodeTypes, JobTypes, GhostTypes

AnswerPC(p, n) ==
    IF p = "refreshing" THEN IF n = 0 THEN "denied" ELSE "renewed"
    ELSE IF n = 0 THEN "refused" ELSE "answered"

LEMMA AnsweredIs ==
    ASSUME NEW x \in JobRec, NEW n \in 0..MaxTokens, NEW y, y = Answered(x, n)
    PROVE  y \in JobRec /\ y.got = n /\ y.pc = AnswerPC(x.pc, n) /\ y.body = x.body
  BY DEF Answered, AnswerPC, JobRec, JobPCs

LEMMA AnswerIs ==
    ASSUME JobTypes, NEW r \in refreshes, NEW n \in 0..MaxTokens, Answer(r, n)
    PROVE  /\ refreshes' = refreshes \ {r}
           /\ r.job = Nobody => jobs' = jobs
           /\ r.job # Nobody => r.job \in Jobs /\ jobs' = [jobs EXCEPT ![r.job] = Answered(jobs[r.job], n)]
  BY DEF Answer, JobTypes, RefreshRec

LEMMA AnswerTypes ==
    ASSUME JobTypes, NEW r \in refreshes, NEW n \in 0..MaxTokens, Answer(r, n)
    PROVE  jobs' \in [Jobs -> JobRec] /\ refreshes' \subseteq RefreshRec
  <1>1. CASE r.job = Nobody
    BY <1>1, AnswerIs DEF JobTypes
  <1>2. CASE r.job # Nobody
    <2>1. jobs[r.job] \in JobRec /\ r.job \in Jobs
      BY <1>2, AnswerIs DEF JobTypes
    <2>2. PICK y : y = Answered(jobs[r.job], n)
      OBVIOUS
    <2>3. y \in JobRec
      BY <2>1, <2>2, AnsweredIs
    <2> QED
      BY <1>2, <2>1, <2>2, <2>3, AnswerIs DEF JobTypes
  <1> QED
    BY <1>1, <1>2

LEMMA FailTypes ==
    ASSUME TypeOK, NEW t \in Tabs, HydrateFails(t)
    PROVE  page' \in [Tabs -> {"closed", "loading", "booting", "guest", "app"}]
           /\ mem' \in [Tabs -> 0..MaxTokens] /\ jobs' \in [Jobs -> JobRec] /\ cookie' \in 0..MaxTokens
  <1>1. jobs' = [jobs EXCEPT ![<<t, "boot">>] = IdleJob, ![<<t, "me">>] = IdleJob]
    BY DEF HydrateFails
  <1>2. jobs \in [Jobs -> JobRec]
    BY TypeParts DEF JobTypes
  <1>3. jobs' \in [Jobs -> JobRec]
    BY <1>1, <1>2, IdleIs
  <1> QED
    BY <1>3, TypeParts, Bounds DEF HydrateFails, TabTypes

DoneJob == [IdleJob EXCEPT !.pc = "done"]

LEMMA DoneIs == DoneJob \in JobRec /\ DoneJob.pc = "done" /\ DoneJob.body = 0
  BY IdleIs DEF DoneJob, JobRec, JobPCs

LEMMA RejectedTypes ==
    ASSUME TypeOK, NEW j \in Jobs, Rejected(j)
    PROVE  page' \in [Tabs -> {"closed", "loading", "booting", "guest", "app"}]
           /\ mem' \in [Tabs -> 0..MaxTokens] /\ jobs' \in [Jobs -> JobRec] /\ cookie' \in 0..MaxTokens
  <1>1. CASE j[2] \in {"boot", "me"}
    BY <1>1, JobIs, FailTypes DEF Rejected
  <1>2. CASE j[2] \notin {"boot", "me"}
    <2>1. jobs' = [jobs EXCEPT ![j] = IF j[2] = "logout" THEN DoneJob ELSE IdleJob]
      BY <1>2 DEF Rejected, DoneJob
    <2> QED
      BY <1>2, <2>1, TypeParts, IdleIs, DoneIs DEF Rejected, JobTypes, TabTypes
  <1> QED
    BY <1>1, <1>2

LEMMA IssueTypes ==
    ASSUME TypeOK, NEW n, Issue(n) PROVE ServerTypes' /\ n \in Tokens /\ n \in 0..MaxTokens
  BY TypeParts, Bounds DEF Issue, ServerTypes

-----------------------------------------------------------------------------
(* The type invariant.                                                       *)

LEMMA Types_Init == Init => TypeOK
  <1> SUFFICES ASSUME Init PROVE TypeOK
    OBVIOUS
  <1>1. ServerTypes /\ cookie \in 0..MaxTokens
    BY Bounds DEF Init, ServerTypes
  <1>2. CodeTypes
    BY NoCodeIs, NoVerifyIs DEF Init, CodeTypes
  <1>3. TabTypes
    BY NoSignInIs, Bounds DEF Init, TabTypes
  <1>4. JobTypes
    BY <1>1, IdleIs DEF Init, JobTypes
  <1>5. GhostTypes /\ BoundTypes
    BY Bounds DEF Init, GhostTypes, BoundTypes
  <1> QED
    BY <1>1, <1>2, <1>3, <1>4, <1>5, TypeParts

LEMMA Types_Server ==
    ASSUME TypeOK, NEW r \in refreshes, ServerStep(r) \/ DbFails(r) \/ Cancelled(r)
    PROVE  TypeOK'
  <1> USE TypeParts, Bounds
  <1>0. r \in RefreshRec /\ r.tok \in Tokens /\ r.job \in Jobs \cup {Nobody}
    BY DEF JobTypes, RefreshRec
  <1>f. [r EXCEPT !.pc = "found"] \in RefreshRec /\ [r EXCEPT !.pc = "revoked"] \in RefreshRec
    BY <1>0 DEF RefreshRec
  <1>1. ASSUME ReadToken(r) PROVE TypeOK'
    <2>1. CASE rt[r.tok] = "live" /\ refreshes' = (refreshes \ {r}) \cup {[r EXCEPT !.pc = "found"]}
               /\ UNCHANGED <<jobs, rt, shownBy, alarm>>
      BY <1>1, <2>1, <1>f DEF ReadToken, ServerTypes, CodeTypes, TabTypes, JobTypes, GhostTypes, BoundTypes,
         signin, bounds
    <2>2. CASE rt' = RevokeAll /\ Alarm(r.tok) /\ Answer(r, 0)
      <3>1. ServerTypes'
        BY <1>1, <2>2 DEF ReadToken, RevokeAll, ServerTypes
      <3>2. JobTypes'
        BY <1>1, <2>2, AnswerTypes DEF ReadToken, JobTypes
      <3>3. GhostTypes'
        BY <2>2 DEF Alarm, GhostTypes
      <3> QED
        BY <1>1, <3>1, <3>2, <3>3 DEF ReadToken, CodeTypes, TabTypes, BoundTypes, signin, bounds
    <2> QED
      BY <1>1, <2>1, <2>2 DEF ReadToken
  <1>2. ASSUME RevokeToken(r) PROVE TypeOK'
    BY <1>2, <1>f DEF RevokeToken, ServerTypes, CodeTypes, TabTypes, JobTypes, GhostTypes, BoundTypes,
       memory, signin, bounds
  <1>3. ASSUME IssuePair(r) PROVE TypeOK'
    <2>1. PICK n \in Tokens : Issue(n) /\ Answer(r, n)
      BY <1>3 DEF IssuePair
    <2>2. ServerTypes' /\ n \in 0..MaxTokens
      BY <2>1, IssueTypes
    <2>3. JobTypes'
      BY <1>3, <2>1, <2>2, AnswerTypes DEF IssuePair, JobTypes
    <2> QED
      BY <1>3, <2>2, <2>3 DEF IssuePair, CodeTypes, TabTypes, GhostTypes, BoundTypes, signin, bounds
  <1>4. ASSUME DbFails(r) PROVE TypeOK'
    <2>1. JobTypes'
      BY <1>4, AnswerTypes DEF DbFails, JobTypes
    <2> QED
      BY <1>4, <2>1
         DEF DbFails, Fault, ServerTypes, CodeTypes, TabTypes, GhostTypes, BoundTypes, server, signin
  <1>5. ASSUME Cancelled(r) PROVE TypeOK'
    BY <1>5 DEF Cancelled, ServerTypes, CodeTypes, TabTypes, JobTypes, GhostTypes, BoundTypes, server,
       memory, signin, bounds
  <1> QED
    BY <1>1, <1>2, <1>3, <1>4, <1>5 DEF ServerStep

LEMMA Types_Jobs ==
    ASSUME TypeOK, NEW j \in Jobs, Serve(j) \/ Refused(j) \/ Denied(j) \/ Lost(j) PROVE TypeOK'
  <1> USE TypeParts, Bounds
  <1>0. j[1] \in Tabs /\ jobs[j] \in JobRec
    BY JobIs DEF JobTypes
  <1>1. ASSUME Serve(j) PROVE TypeOK'
    <2>1. ServerTypes'
      BY <1>1 DEF Serve, ServerTypes
    <2>2. jobs' \in [Jobs -> JobRec]
      <3>1. "refused" \in JobPCs /\ "done" \in JobPCs
        BY DEF JobPCs
      <3>2. jobs \in [Jobs -> JobRec]
        BY DEF JobTypes
      <3>3. CASE jobs' = [jobs EXCEPT ![j].pc = "refused"] \/ jobs' = [jobs EXCEPT ![j].pc = "done"]
        <4>1. JobTypes
          BY TypeParts
        <4>2. ASSUME NEW p \in JobPCs PROVE [jobs EXCEPT ![j].pc = p] \in [Jobs -> JobRec]
          BY <4>1, JobSetPC
        <4> QED
          BY <3>1, <3>3, <4>2
      <3>4. CASE jobs' = [jobs EXCEPT ![j] = IdleJob]
        BY <3>2, <3>4, IdleIs
      <3>5. CASE jobs' = [jobs EXCEPT ![j] = IdleJob, ![<<j[1], "boot">>] = IdleJob]
        BY <3>2, <3>5, IdleIs
      <3> QED
        BY <1>1, <3>3, <3>4, <3>5 DEF Serve
    <2>3. jobs[<<j[1], "boot">>] \in JobRec
      BY <1>0 DEF JobTypes, Jobs
    <2>4. TabTypes'
      BY <1>0, <1>1, <2>3 DEF Serve, TabTypes, signin, JobRec
    <2> QED
      BY <1>1, <2>1, <2>2, <2>4 DEF Serve, CodeTypes, JobTypes, GhostTypes, BoundTypes, signin, bounds
  <1>2. ASSUME Refused(j) PROVE TypeOK'
    <2>1. UNCHANGED <<server, alarm, bounds>> /\ BoundTypes'
      BY <1>2 DEF Refused, BoundTypes, bounds
    <2>2. CASE Rejected(j) /\ UNCHANGED <<refreshing, refreshes, signin, shownBy>>
      BY <2>1, <2>2, RejectedTypes
         DEF server, signin, ServerTypes, CodeTypes, TabTypes, JobTypes, GhostTypes
    <2>3. CASE ForceLogout(j[1])
      BY <1>0, <2>1, <2>3, LeaveTypes
    <2>4. CASE cookie # 0 /\ RefreshOrWait(j) /\ UNCHANGED <<page, mem, cookie, signin>>
      <3>1. cookie \in Tokens
        BY <2>4, CookieIs
      <3>2. [jobs[j] EXCEPT !.pc = "refreshing", !.retried = TRUE] \in JobRec
        BY <1>0 DEF JobRec, JobPCs
      <3>3. jobs' \in [Jobs -> JobRec]
        <4>1. JobTypes /\ jobs \in [Jobs -> JobRec] /\ "queued" \in JobPCs
          BY TypeParts DEF JobTypes, JobPCs
        <4>2. [jobs EXCEPT ![j].pc = "queued"] \in [Jobs -> JobRec]
          BY <4>1, JobSetPC
        <4>3. [jobs EXCEPT ![j] = [jobs[j] EXCEPT !.pc = "refreshing", !.retried = TRUE]] \in [Jobs -> JobRec]
          BY <3>2, <4>1
        <4> QED
          BY <2>4, <4>2, <4>3 DEF RefreshOrWait
      <3>4. refreshes' \subseteq RefreshRec /\ shownBy' \in [Tokens -> SUBSET (Tabs \cup {Nobody})]
        BY <2>4, <3>1, PostTypes DEF RefreshOrWait, JobTypes, GhostTypes
      <3> QED
        BY <2>1, <2>4, <3>3, <3>4
           DEF server, signin, ServerTypes, CodeTypes, TabTypes, JobTypes, GhostTypes
    <2> QED
      BY <1>2, <2>2, <2>3, <2>4 DEF Refused
  <1>3. ASSUME Denied(j) PROVE TypeOK'
    BY <1>0, <1>3, LeaveTypes DEF Denied, BoundTypes, bounds
  <1>4. ASSUME Lost(j) PROVE TypeOK'
    <2>1. UNCHANGED <<server, alarm>> /\ BoundTypes'
      BY <1>4 DEF Lost, Fault, BoundTypes
    <2>2. CASE ForceLogout(j[1])
      BY <1>0, <2>1, <2>2, LeaveTypes
    <2>3. CASE Rejected(j) /\ refreshes' = {Drop(r, j) : r \in refreshes}
               /\ UNCHANGED <<refreshing, signin, shownBy>>
      <3>1. refreshes' \subseteq RefreshRec
        BY <2>3, DropIs DEF JobTypes
      <3> QED
        BY <2>1, <2>3, <3>1, RejectedTypes
           DEF server, signin, ServerTypes, CodeTypes, TabTypes, JobTypes, GhostTypes
    <2> QED
      BY <1>4, <2>2, <2>3 DEF Lost, Drop
  <1> QED
    BY <1>1, <1>2, <1>3, <1>4

LEMMA AttemptedIs ==
    ASSUME NEW k \in CodeRec, NEW n \in Nat, NEW x, x = Attempted(k, n)
    PROVE  x \in CodeRec /\ x.attempts = n /\ x.guesses = k.guesses
  BY DEF Attempted, CodeRec

LEMMA ComparedIs ==
    ASSUME NEW k \in CodeRec, NEW right \in BOOLEAN, NEW x, x = Compared(k, right)
    PROVE  x \in CodeRec /\ x.attempts = k.attempts /\ x.guesses = k.guesses + 1
  <1>1. k.guesses + 1 \in Nat /\ (IF right THEN "used" ELSE k.state) \in {"none", "unused", "used"}
    BY DEF CodeRec
  <1>2. PICK g, s : g = k.guesses + 1 /\ s = IF right THEN "used" ELSE k.state
    OBVIOUS
  <1>3. x = [k EXCEPT !.guesses = g, !.state = s]
    BY <1>2 DEF Compared
  <1> QED
    BY <1>1, <1>2, <1>3 DEF CodeRec

\* What an attempt becomes.
Found(v, c)   == [v EXCEPT !.pc = "found", !.code = c]
Again(v)      == [v EXCEPT !.pc = "sent", !.code = 0, !.again = TRUE]
At(v, p)      == [v EXCEPT !.pc = p]

LEMMA FoundIs ==
    ASSUME NEW v \in VerifyRec, NEW c \in Codes, NEW y, y = Found(v, c)
    PROVE  y \in VerifyRec /\ y.pc = "found" /\ y.code = c
  BY Bounds DEF Found, VerifyRec

LEMMA AgainIs ==
    ASSUME NEW v \in VerifyRec, NEW y, y = Again(v)
    PROVE  y \in VerifyRec /\ y.pc = "sent"
  <1>1. 0 \in 0..MaxCodes
    BY Bounds
  <1> QED
    BY <1>1 DEF Again, VerifyRec

LEMMA AtIs ==
    ASSUME NEW v \in VerifyRec, NEW p \in {"none", "sent", "found", "counted", "matched"},
           NEW y, y = At(v, p)
    PROVE  y \in VerifyRec /\ y.pc = p /\ y.code = v.code
  BY DEF At, VerifyRec

TypedAs(x) == [NoVerify EXCEPT !.pc = "sent", !.typed = x]

LEMMA TypedIs ==
    ASSUME NEW x \in 0..MaxCodes, NEW y, y = TypedAs(x)
    PROVE  y \in VerifyRec /\ y.pc = "sent"
  BY NoVerifyIs DEF TypedAs, VerifyRec

\* How a step of an attempt changes it, and the codes.
LEMMA FindSteps ==
    ASSUME CodeTypes, NEW t \in Tabs, FindCode(t)
    PROVE  /\ codes' = codes /\ verify[t].pc = "sent"
           /\ \E y \in VerifyRec :
                 /\ verify' = [verify EXCEPT ![t] = y]
                 /\ y.pc \in {"none", "found"}
                 /\ y.pc = "found" => y.code \in Codes
  <1>0. /\ UNCHANGED server /\ verify[t].pc = "sent"
        /\ \/ verify' = [verify EXCEPT ![t] = NoVerify]
           \/ \E c \in Unused : verify' = [verify EXCEPT ![t] = Found(verify[t], c)]
    BY Zenon DEF FindCode, Found
  <1>1. codes' = codes /\ verify[t].pc = "sent" /\ verify[t] \in VerifyRec
    BY <1>0 DEF server, CodeTypes
  <1>2. CASE verify' = [verify EXCEPT ![t] = NoVerify]
    BY <1>1, <1>2, NoVerifyIs
  <1>3. CASE \E c \in Unused : verify' = [verify EXCEPT ![t] = Found(verify[t], c)]
    <2>0. PICK c \in Unused : verify' = [verify EXCEPT ![t] = Found(verify[t], c)]
      BY <1>3
    <2>1. c \in Codes
      BY DEF Unused
    <2>2. PICK y : y = Found(verify[t], c)
      OBVIOUS
    <2>3. y \in VerifyRec /\ y.pc = "found" /\ y.code = c
      BY <1>1, <2>1, <2>2, FoundIs
    <2>4. verify' = [verify EXCEPT ![t] = y]
      BY <2>0, <2>2
    <2> QED
      BY <1>1, <2>1, <2>3, <2>4
  <1> QED
    BY <1>0, <1>1, <1>2, <1>3

LEMMA CountSteps ==
    ASSUME CodeTypes, CodeInv, NEW t \in Tabs, CountAttempt(t)
    PROVE  /\ verify[t].pc = "found" /\ verify[t].code \in Codes
           /\ \E x \in CodeRec, y \in VerifyRec :
                 /\ codes' = [codes EXCEPT ![verify[t].code] = x]
                 /\ x.attempts = codes[verify[t].code].attempts + 1
                 /\ x.guesses = codes[verify[t].code].guesses
                 /\ verify' = [verify EXCEPT ![t] = y]
                 /\ y.pc \in {"none", "sent", "counted"}
                 /\ y.pc = "counted" => y.code = verify[t].code /\ ~Locks(x.attempts)
  <1> DEFINE v == verify[t]
  <1>1. v \in VerifyRec /\ v.pc = "found" /\ v.code \in Codes
    BY DEF CountAttempt, CodeInv, CodeTypes
  <1>2. PICK n \in Nat : n = codes[v.code].attempts + 1
    BY <1>1 DEF CodeTypes, CodeRec
  <1>k. codes[v.code] \in CodeRec
    BY <1>1 DEF CodeTypes
  <1>3. PICK x : x = Attempted(codes[v.code], n)
    OBVIOUS
  <1>4. x \in CodeRec /\ x.attempts = n /\ x.guesses = codes[v.code].guesses
    BY <1>k, <1>3, AttemptedIs
  <1>5. codes' = [codes EXCEPT ![v.code] = x]
    BY <1>2, <1>3 DEF CountAttempt
  <1>6. PICK y \in VerifyRec : /\ verify' = [verify EXCEPT ![t] = y]
                               /\ y.pc \in {"none", "sent", "counted"}
                               /\ y.pc = "counted" => y.code = v.code /\ ~Locks(n)
    <2>1. CASE ~Locks(n)
      <3>1. PICK y : y = At(v, "counted")
        OBVIOUS
      <3>2. y \in VerifyRec /\ y.pc = "counted" /\ y.code = v.code
        BY <1>1, <3>1, AtIs
      <3>3. verify' = [verify EXCEPT ![t] = y]
        BY <1>2, <2>1, <3>1 DEF CountAttempt, At
      <3> QED
        BY <2>1, <3>2, <3>3
    <2>2. CASE Locks(n) /\ v.again
      BY <1>2, <2>2, NoVerifyIs DEF CountAttempt
    <2>3. CASE Locks(n) /\ ~v.again
      <3>1. PICK y : y = Again(v)
        OBVIOUS
      <3>2. y \in VerifyRec /\ y.pc = "sent"
        BY <1>1, <3>1, AgainIs
      <3>3. verify' = [verify EXCEPT ![t] = y]
        BY <1>2, <2>3, <3>1 DEF CountAttempt, Again
      <3> QED
        BY <3>2, <3>3
    <2> QED
      BY <2>1, <2>2, <2>3
  <1> QED
    BY <1>1, <1>2, <1>4, <1>5, <1>6

LEMMA CompareSteps ==
    ASSUME CodeTypes, CodeInv, NEW t \in Tabs, CompareCode(t)
    PROVE  /\ verify[t].pc = "counted" /\ verify[t].code \in Codes
           /\ \E x \in CodeRec, y \in VerifyRec :
                 /\ codes' = [codes EXCEPT ![verify[t].code] = x]
                 /\ x.attempts = codes[verify[t].code].attempts
                 /\ x.guesses \in {codes[verify[t].code].guesses, codes[verify[t].code].guesses + 1}
                 /\ verify' = [verify EXCEPT ![t] = y]
                 /\ y.pc \in {"none", "matched"}
                 /\ y.pc = "matched" => y.code = verify[t].code
  <1> DEFINE v == verify[t]
  <1>1. v \in VerifyRec /\ v.pc = "counted" /\ v.code \in Codes
    BY DEF CompareCode, CodeInv, CodeTypes
  <1>2. codes[v.code] \in CodeRec
    BY <1>1 DEF CodeTypes
  <1>3. CASE codes' = [codes EXCEPT ![v.code].state = "used"] /\ verify' = [verify EXCEPT ![t] = NoVerify]
    <2>1. PICK x : x = [codes[v.code] EXCEPT !.state = "used"]
      OBVIOUS
    <2>2. x \in CodeRec /\ x.attempts = codes[v.code].attempts /\ x.guesses = codes[v.code].guesses
      BY <1>2, <2>1 DEF CodeRec
    <2>3. codes' = [codes EXCEPT ![v.code] = x]
      BY <1>3, <2>1
    <2> QED
      BY <1>1, <1>3, <2>2, <2>3, NoVerifyIs
  <1>4. CASE /\ codes' = [codes EXCEPT ![v.code] = Compared(codes[v.code], v.typed = v.code)]
             /\ verify' = [verify EXCEPT ![t] = IF v.typed = v.code THEN [v EXCEPT !.pc = "matched"] ELSE NoVerify]
    <2>1. PICK x : x = Compared(codes[v.code], v.typed = v.code)
      OBVIOUS
    <2>2. x \in CodeRec /\ x.attempts = codes[v.code].attempts /\ x.guesses = codes[v.code].guesses + 1
      BY <1>2, <2>1, ComparedIs
    <2>3. PICK y : y = IF v.typed = v.code THEN At(v, "matched") ELSE NoVerify
      OBVIOUS
    <2>4. y \in VerifyRec /\ y.pc \in {"none", "matched"} /\ (y.pc = "matched" => y.code = v.code)
      BY <1>1, <2>3, AtIs, NoVerifyIs
    <2>5. verify' = [verify EXCEPT ![t] = y] /\ codes' = [codes EXCEPT ![v.code] = x]
      BY <1>4, <2>1, <2>3 DEF At
    <2> QED
      BY <1>1, <2>2, <2>4, <2>5
  <1> QED
    BY <1>3, <1>4 DEF CompareCode

LEMMA AttemptTypes ==
    ASSUME CodeTypes, CodeInv, NEW t \in Tabs, FindCode(t) \/ CountAttempt(t) \/ CompareCode(t)
    PROVE  CodeTypes'
  <1>1. CASE FindCode(t)
    BY <1>1, FindSteps DEF CodeTypes
  <1>2. CASE CountAttempt(t)
    BY <1>2, CountSteps DEF CodeTypes
  <1>3. CASE CompareCode(t)
    BY <1>3, CompareSteps DEF CodeTypes
  <1> QED
    BY <1>1, <1>2, <1>3

LEMMA Types_Codes ==
    ASSUME TypeOK, CodeInv, NEW t \in Tabs, CodeStep(t) \/ VerifyStep(t) \/ VerifyLost(t)
    PROVE  TypeOK'
  <1> USE TypeParts
  <1>1. ASSUME InvalidateCodes(t) PROVE TypeOK'
    <2>1. codes' \in [Codes -> CodeRec]
      BY <1>1 DEF InvalidateCodes, CodeTypes, CodeRec
    <2>2. asked' \in [Tabs -> SignInRec]
      BY <1>1 DEF InvalidateCodes, TabTypes, SignInRec
    <2> QED
      BY <1>1, <2>1, <2>2 DEF InvalidateCodes, ServerTypes, CodeTypes, TabTypes, JobTypes, GhostTypes,
         BoundTypes, memory, bounds
  <1>2. ASSUME CreateCode(t) PROVE TypeOK'
    <2>1. codes' \in [Codes -> CodeRec]
      BY <1>2 DEF CreateCode, CodeTypes, CodeRec
    <2>2. asked' \in [Tabs -> SignInRec]
      BY <1>2 DEF CreateCode, TabTypes, SignInRec
    <2> QED
      BY <1>2, <2>1, <2>2 DEF CreateCode, ServerTypes, CodeTypes, TabTypes, JobTypes, GhostTypes,
         BoundTypes, memory, bounds
  <1>3. ASSUME FindCode(t) \/ CountAttempt(t) \/ CompareCode(t) PROVE TypeOK'
    <2>1. CodeTypes'
      BY <1>3, AttemptTypes
    <2>2. UNCHANGED <<rt, valid, refreshes, cookie, memory, asked, shownBy, alarm, bounds>>
      BY <1>3, Zenon DEF FindCode, CountAttempt, CompareCode, server
    <2> QED
      BY <2>1, <2>2 DEF ServerTypes, TabTypes, JobTypes, GhostTypes, BoundTypes, memory, bounds
  <1>4. ASSUME SignedIn(t) PROVE TypeOK'
    <2>1. PICK n \in Tokens : /\ Issue(n) /\ mem' = [mem EXCEPT ![t] = n]
                              /\ cookie' = CookieSet(n)
      BY <1>4 DEF SignedIn
    <2>2. ServerTypes' /\ n \in 0..MaxTokens
      BY <2>1, IssueTypes
    <2>3. TabTypes'
      BY <1>4, <2>1, <2>2, NoSignInIs DEF SignedIn, TabTypes
    <2>4. CodeTypes'
      BY <1>4, NoVerifyIs DEF SignedIn, CodeTypes
    <2> QED
      BY <1>4, <2>1, <2>2, <2>3, <2>4 DEF SignedIn, CookieSet, JobTypes, GhostTypes, BoundTypes, bounds
  <1>5. ASSUME VerifyLost(t) PROVE TypeOK'
    BY <1>5, NoVerifyIs, Bounds DEF VerifyLost, Fault, ServerTypes, CodeTypes, TabTypes, JobTypes, GhostTypes,
       BoundTypes, server, memory
  <1> QED
    BY <1>1, <1>2, <1>3, <1>4, <1>5 DEF CodeStep, VerifyStep

LEMMA Types_User ==
    ASSUME TypeOK, NEW t \in Tabs,
           \/ Load(t) \/ Logout(t) \/ AskForCode(t) \/ Hydrate(t) \/ Hydrated(t) \/ LoggedOut(t)
           \/ \E q \in Queries : StartQuery(t, q)
           \/ \E x \in 0..MaxCodes : TypeCode(t, x)
    PROVE  TypeOK'
  <1> USE TypeParts, Bounds
  <1>0. /\ jobs \in [Jobs -> JobRec] /\ cookie \in 0..MaxTokens /\ mem[t] \in 0..MaxTokens
        /\ <<t, "boot">> \in Jobs /\ <<t, "me">> \in Jobs /\ <<t, "logout">> \in Jobs
    BY DEF JobTypes, TabTypes, Jobs
  <1>1. ASSUME Load(t) PROVE TypeOK'
    <2>1. Reset(t, "loading")
      BY <1>1 DEF Load
    <2> QED
      BY <1>1, <2>1, ResetTypes DEF Load, ServerTypes, CodeTypes, JobTypes, GhostTypes, BoundTypes, server
  <1>2. ASSUME Logout(t) PROVE TypeOK'
    <2>1. PICK x : x = IF cookie = 0 THEN DoneJob ELSE Sent(mem[t], cookie)
      OBVIOUS
    <2>2. x \in JobRec
      BY <1>0, <2>1, SentIs, DoneIs
    <2>3. jobs' \in [Jobs -> JobRec]
      BY <1>0, <1>2, <2>1, <2>2 DEF Logout, DoneJob
    <2>4. shownBy' \in [Tokens -> SUBSET (Tabs \cup {Nobody})]
      BY <1>2, ShownTypes DEF Logout
    <2> QED
      BY <1>2, <2>3, <2>4 DEF Logout, ServerTypes, CodeTypes, TabTypes, JobTypes, GhostTypes, BoundTypes,
         server, signin, bounds
  <1>3. ASSUME AskForCode(t) PROVE TypeOK'
    BY <1>3 DEF AskForCode, ServerTypes, CodeTypes, TabTypes, JobTypes, GhostTypes, BoundTypes, server,
       memory, bounds, SignInRec
  <1>4. ASSUME Hydrate(t) PROVE TypeOK'
    <2>1. CASE cookie = 0
      BY <1>4, <2>1 DEF Hydrate, ServerTypes, CodeTypes, TabTypes, JobTypes, GhostTypes, BoundTypes,
         server, signin, bounds
    <2>2. CASE cookie # 0
      <3>0. Post(<<t, "boot">>, cookie) /\ cookie \in Tokens
        BY <1>4, <2>2, CookieIs DEF Hydrate
      <3>1. refreshes' \subseteq RefreshRec /\ shownBy' \in [Tokens -> SUBSET (Tabs \cup {Nobody})]
        BY <1>0, <3>0, PostTypes
      <3>2. PICK x : x = Sent(0, cookie)
        OBVIOUS
      <3>3. x \in JobRec
        BY <1>0, <3>2, SentIs
      <3>4. jobs' \in [Jobs -> JobRec]
        BY <1>0, <1>4, <2>2, <3>2, <3>3 DEF Hydrate
      <3> QED
        BY <1>4, <2>2, <3>1, <3>4 DEF Hydrate, ServerTypes, CodeTypes, TabTypes, JobTypes, GhostTypes,
           BoundTypes, server, signin, bounds
    <2> QED
      BY <2>1, <2>2
  <1>5. ASSUME Hydrated(t) PROVE TypeOK'
    <2>1. PICK n \in 0..MaxTokens : n = jobs[<<t, "boot">>].got
      BY <1>0 DEF JobRec
    <2>2. PICK x, y : x = [IdleJob EXCEPT !.got = n] /\ y = Sent(n, 0)
      OBVIOUS
    <2>3. x \in JobRec /\ y \in JobRec
      BY <2>2, IdleIs, SentIs DEF JobRec
    <2>4. jobs' = [jobs EXCEPT ![<<t, "boot">>] = x, ![<<t, "me">>] = y]
      BY <1>5, <2>1, <2>2 DEF Hydrated
    <2>5. jobs' \in [Jobs -> JobRec]
      BY <1>0, <2>3, <2>4
    <2> QED
      BY <1>5, <2>1, <2>5 DEF Hydrated, CookieSet, ServerTypes, CodeTypes, TabTypes, JobTypes, GhostTypes,
         BoundTypes, server, signin, bounds
  <1>6. ASSUME LoggedOut(t) PROVE TypeOK'
    BY <1>0, <1>6, IdleIs DEF LoggedOut, ServerTypes, CodeTypes, TabTypes, JobTypes, GhostTypes,
       BoundTypes, server, signin, bounds
  <1>7. ASSUME NEW q \in Queries, StartQuery(t, q) PROVE TypeOK'
    <2>1. PICK x : x = Sent(mem[t], 0)
      OBVIOUS
    <2>2. x \in JobRec
      BY <1>0, <2>1, SentIs
    <2> QED
      BY <1>0, <1>7, <2>1, <2>2 DEF StartQuery, ServerTypes, CodeTypes, TabTypes, JobTypes, GhostTypes,
         BoundTypes, server, signin, bounds
  <1>8. ASSUME NEW x \in 0..MaxCodes, TypeCode(t, x) PROVE TypeOK'
    <2>0. /\ verify' = [verify EXCEPT ![t] = TypedAs(x)]
          /\ UNCHANGED <<server, refreshes, cookie, memory, asked, shownBy, alarm, bounds>>
      BY <1>8, Zenon DEF TypeCode, TypedAs
    <2>1. PICK y : y = TypedAs(x)
      OBVIOUS
    <2>2. y \in VerifyRec
      BY <2>1, TypedIs
    <2>3. CodeTypes'
      BY <2>0, <2>1, <2>2 DEF CodeTypes, server
    <2> QED
      BY <2>0, <2>3 DEF ServerTypes, TabTypes, JobTypes, GhostTypes, BoundTypes, server, memory, bounds
  <1> QED
    BY <1>1, <1>2, <1>3, <1>4, <1>5, <1>6, <1>7, <1>8

LEMMA BootBody ==
    ASSUME TypeOK, TabInv, NEW j \in Jobs, j[2] = "boot", jobs[j].pc # "idle"
    PROVE  jobs[j].body \in Tokens
  <1>1. j[1] \in Tabs /\ j = <<j[1], "boot">>
    BY JobIs
  <1>2. PageFits(j[1])
    BY <1>1 DEF TabInv
  <1>3. jobs[j].body # 0 /\ jobs[j].body \in 0..MaxTokens
    BY <1>1, <1>2, TypeParts DEF PageFits, Boot, JobTypes, JobRec
  <1> QED
    BY <1>3, Bounds

Resent(x, n, boot) ==
    [x EXCEPT !.pc = "sent", !.tok = n, !.got = IF boot THEN 0 ELSE x.got]

LEMMA ResentIs ==
    ASSUME NEW x \in JobRec, NEW n \in 0..MaxTokens, NEW b \in BOOLEAN, NEW y, y = Resent(x, n, b)
    PROVE  y \in JobRec /\ y.pc = "sent" /\ y.body = x.body
  <1>1. PICK g \in 0..MaxTokens : g = IF b THEN 0 ELSE x.got
    BY Bounds DEF JobRec
  <1>2. y = [x EXCEPT !.pc = "sent", !.tok = n, !.got = g]
    BY <1>1 DEF Resent
  <1> QED
    BY <1>2 DEF JobRec, JobPCs

\* A renewed pair is stored and the requests that waited are sent again.
LEMMA RenewedIs ==
    ASSUME TypeOK, NEW j \in Jobs, Renewed(j)
    PROVE  /\ jobs[j].pc = "renewed" /\ jobs[j].got \in 0..MaxTokens
           /\ mem' = [mem EXCEPT ![j[1]] = jobs[j].got] /\ cookie' = jobs[j].got
           /\ refreshing' = [refreshing EXCEPT ![j[1]] = Nobody]
           /\ jobs' \in [Jobs -> JobRec]
           /\ \A k \in Jobs : IF k \in Flushed(j[1]) \cup {j}
                              THEN jobs'[k].pc = "sent" /\ jobs'[k].body = jobs[k].body
                              ELSE jobs'[k] = jobs[k]
           /\ IF j[2] = "boot" THEN Post(j, jobs[j].body) ELSE UNCHANGED <<refreshes, shownBy>>
           /\ UNCHANGED <<server, page, signin, alarm, bounds>>
  <1>0. jobs \in [Jobs -> JobRec]
    BY TypeParts DEF JobTypes
  <1>1. PICK n \in 0..MaxTokens : n = jobs[j].got
    BY <1>0 DEF JobRec
  <1>2. jobs' = [k \in Jobs |-> IF k \in Flushed(j[1]) \cup {j} THEN Resent(jobs[k], n, k[2] = "boot") ELSE jobs[k]]
    BY <1>1, Zenon DEF Renewed, Resent
  <1>3. ASSUME NEW k \in Jobs
        PROVE  Resent(jobs[k], n, k[2] = "boot") \in JobRec
               /\ Resent(jobs[k], n, k[2] = "boot").pc = "sent"
               /\ Resent(jobs[k], n, k[2] = "boot").body = jobs[k].body
    <2>1. PICK b \in BOOLEAN : b = (k[2] = "boot")
      OBVIOUS
    <2>2. PICK y, x : y = Resent(x, n, b) /\ x = jobs[k]
      OBVIOUS
    <2>3. x \in JobRec
      BY <1>0, <2>2
    <2>4. y \in JobRec /\ y.pc = "sent" /\ y.body = x.body
      BY <2>2, <2>3, ResentIs
    <2> QED
      BY <2>1, <2>2, <2>4
  <1>4. jobs' \in [Jobs -> JobRec]
    BY <1>0, <1>2, <1>3
  <1>5. \A k \in Jobs : IF k \in Flushed(j[1]) \cup {j}
                       THEN jobs'[k].pc = "sent" /\ jobs'[k].body = jobs[k].body
                       ELSE jobs'[k] = jobs[k]
    BY <1>2, <1>3
  <1>6. /\ jobs[j].pc = "renewed" /\ mem' = [mem EXCEPT ![j[1]] = n] /\ cookie' = n
        /\ refreshing' = [refreshing EXCEPT ![j[1]] = Nobody]
        /\ IF j[2] = "boot" THEN Post(j, jobs[j].body) ELSE UNCHANGED <<refreshes, shownBy>>
        /\ UNCHANGED <<server, page, signin, alarm, bounds>>
    BY <1>1, Zenon DEF Renewed, CookieSet
  <1> QED
    BY <1>1, <1>4, <1>5, <1>6

LEMMA Types_Renewed ==
    ASSUME TypeOK, TabInv, NEW j \in Jobs, Renewed(j) PROVE TypeOK'
  <1>1. refreshes' \subseteq RefreshRec /\ shownBy' \in [Tokens -> SUBSET (Tabs \cup {Nobody})]
    <2>1. CASE j[2] = "boot"
      <3>1. jobs[j].body \in Tokens /\ Post(j, jobs[j].body)
        BY <2>1, RenewedIs, BootBody
      <3> QED
        BY <3>1, PostTypes, TypeParts
    <2>2. CASE j[2] # "boot"
      BY <2>2, RenewedIs, TypeParts DEF JobTypes, GhostTypes
    <2> QED
      BY <2>1, <2>2
  <1> QED
    BY <1>1, RenewedIs, TypeParts
       DEF ServerTypes, CodeTypes, TabTypes, JobTypes, GhostTypes, BoundTypes, server, signin, bounds

LEMMA Types_Expires ==
    ASSUME TypeOK, NEW n \in Tokens, AccessExpires(n) PROVE TypeOK'
  BY TypeParts, Bounds DEF AccessExpires, ServerTypes, CodeTypes, TabTypes, JobTypes, GhostTypes, BoundTypes,
     memory, signin

LEMMA Types_Next ==
    ASSUME TypeOK, TabInv, CodeInv, Next PROVE TypeOK'
  BY Types_Server, Types_Jobs, Types_Renewed, Types_Codes, Types_User, Types_Expires
     DEF Next, JobStep, PageStep

-----------------------------------------------------------------------------
(* A code is compared fewer times than its limit.                            *)

LEMMA Codes_Init == Init => CodeInv
  <1> SUFFICES ASSUME Init PROVE CodeInv
    OBVIOUS
  <1>1. \A t \in Tabs : verify[t].pc = "none"
    BY NoVerifyIs DEF Init
  <1>2. ASSUME NEW c \in Codes PROVE CodeFits(c)
    <2>1. Counted(c) = {}
      BY <1>1 DEF Counted
    <2>2. codes[c].guesses = 0 /\ codes[c].attempts = 0
      BY NoCodeIs DEF Init
    <2> QED
      BY <2>1, <2>2, FS_EmptySet, Bounds DEF CodeFits
  <1> QED
    BY <1>1, <1>2 DEF CodeInv

\* Attempts that end or begin change nothing of what was counted.
LEMMA CodesLess ==
    ASSUME CodeTypes, CodeTypes', CodeInv,
           \A c \in Codes : /\ Counted(c)' \subseteq Counted(c)
                            /\ codes'[c].guesses = codes[c].guesses
                            /\ codes'[c].attempts = codes[c].attempts,
           \A t \in Tabs : verify'[t].pc \in {"found", "counted", "matched"} => verify'[t].code \in Codes
    PROVE  CodeInv'
  <1>1. ASSUME NEW c \in Codes PROVE CodeFits(c)'
    <2>1. CodeFits(c)
      BY DEF CodeInv
    <2>2. /\ IsFiniteSet(Counted(c)') /\ Cardinality(Counted(c)') <= Cardinality(Counted(c))
          /\ Cardinality(Counted(c)') \in Nat /\ Cardinality(Counted(c)) \in Nat
      BY <2>1, FS_Subset, FS_CardinalityType DEF CodeFits
    <2>3. codes[c].guesses \in Nat /\ codes[c].attempts \in Nat
      BY DEF CodeTypes, CodeRec
    <2> QED
      BY <2>1, <2>2, <2>3, Bounds DEF CodeFits
  <1> QED
    BY <1>1 DEF CodeInv

LEMMA CountedGoes ==
    ASSUME CodeTypes, NEW t \in Tabs, NEW y, y.pc # "counted", verify' = [verify EXCEPT ![t] = y],
           NEW c \in Codes
    PROVE  Counted(c)' = Counted(c) \ {t}
  BY DEF CodeTypes, Counted

LEMMA CodesWhenEnds ==
    ASSUME CodeTypes, CodeTypes', CodeInv, NEW t \in Tabs, NEW y,
           y.pc # "counted", y.pc \in {"found", "matched"} => y.code \in Codes,
           verify' = [verify EXCEPT ![t] = y],
           \A c \in Codes : /\ codes'[c].guesses = codes[c].guesses
                            /\ codes'[c].attempts = codes[c].attempts
    PROVE  CodeInv'
  <1>1. \A c \in Codes : Counted(c)' \subseteq Counted(c)
    BY CountedGoes
  <1>2. \A u \in Tabs : verify'[u].pc \in {"found", "counted", "matched"} => verify'[u].code \in Codes
    BY DEF CodeInv, CodeTypes
  <1> QED
    BY <1>1, <1>2, CodesLess

LEMMA CodesUntouched ==
    ASSUME CodeTypes, CodeTypes', CodeInv, UNCHANGED verify,
           \A c \in Codes : /\ codes'[c].guesses = codes[c].guesses
                            /\ codes'[c].attempts = codes[c].attempts
    PROVE  CodeInv'
  <1>1. \A c \in Codes : Counted(c)' = Counted(c)
    BY DEF Counted
  <1>2. \A u \in Tabs : verify'[u].pc \in {"found", "counted", "matched"} => verify'[u].code \in Codes
    BY DEF CodeInv
  <1> QED
    BY <1>1, <1>2, CodesLess

LEMMA CodesWhenReset ==
    ASSUME TypeOK, CodeTypes', CodeInv, NEW t \in Tabs, Reset(t, "loading"), codes' = codes
    PROVE  CodeInv'
  BY ResetIs, NoVerifyIs, TypeParts, CodesWhenEnds

LEMMA Codes_Attempt ==
    ASSUME CodeTypes, CodeTypes', CodeInv, NEW t \in Tabs, CountAttempt(t) \/ CompareCode(t)
    PROVE  CodeInv'
  <1> DEFINE c == verify[t].code
  <1>1. ASSUME CountAttempt(t) PROVE CodeInv'
    <2>1. verify[t].pc = "found" /\ c \in Codes
      BY <1>1, CountSteps
    <2>2. PICK x \in CodeRec, y \in VerifyRec :
             /\ codes' = [codes EXCEPT ![c] = x]
             /\ x.attempts = codes[c].attempts + 1 /\ x.guesses = codes[c].guesses
             /\ verify' = [verify EXCEPT ![t] = y]
             /\ y.pc \in {"none", "sent", "counted"}
             /\ y.pc = "counted" => y.code = c /\ ~Locks(x.attempts)
      BY <1>1, CountSteps
    <2> HIDE DEF c
    <2>3. ASSUME NEW d \in Codes PROVE CodeFits(d)'
      <3>1. CodeFits(d) /\ codes[d].guesses \in Nat /\ codes[d].attempts \in Nat
        BY DEF CodeInv, CodeTypes, CodeRec
      <3>2. codes'[d].guesses = codes[d].guesses /\ codes'[d].attempts >= codes[d].attempts
            /\ codes'[d].attempts \in Nat
        BY <2>1, <2>2, <3>1 DEF CodeTypes
      <3>3. CASE y.pc = "counted" /\ d = c
        <4>1. Counted(d)' = Counted(d) \cup {t} /\ t \notin Counted(d)
          BY <2>1, <2>2, <3>3 DEF Counted, CodeTypes
        <4>2. /\ IsFiniteSet(Counted(d)') /\ Cardinality(Counted(d)') = Cardinality(Counted(d)) + 1
              /\ Cardinality(Counted(d)) \in Nat
          BY <3>1, <4>1, FS_AddElement, FS_CardinalityType DEF CodeFits
        <4>3. codes'[d].attempts = codes[d].attempts + 1
          BY <2>1, <2>2, <3>3 DEF CodeTypes
        <4>4. ~(codes'[d].attempts >= OTPMaxAttempts)
          BY <2>1, <2>2, <3>3 DEF CodeTypes, Locks
        <4> QED
          BY <3>1, <3>2, <4>2, <4>3, <4>4, Bounds DEF CodeFits
      <3>4. CASE y.pc # "counted" \/ d # c
        <4>1. Counted(d)' = Counted(d)
          BY <2>1, <2>2, <3>4 DEF Counted, CodeTypes
        <4>2. Cardinality(Counted(d)) \in Nat
          BY <3>1, FS_CardinalityType DEF CodeFits
        <4> QED
          BY <3>1, <3>2, <4>1, <4>2, Bounds DEF CodeFits
      <3> QED
        BY <3>3, <3>4
    <2>4. \A u \in Tabs : verify'[u].pc \in {"found", "counted", "matched"} => verify'[u].code \in Codes
      BY <2>1, <2>2 DEF CodeInv, CodeTypes
    <2> QED
      BY <2>3, <2>4 DEF CodeInv
  <1>2. ASSUME CompareCode(t) PROVE CodeInv'
    <2>1. verify[t].pc = "counted" /\ c \in Codes
      BY <1>2, CompareSteps
    <2>2. PICK x \in CodeRec, y \in VerifyRec :
             /\ codes' = [codes EXCEPT ![c] = x]
             /\ x.attempts = codes[c].attempts
             /\ x.guesses \in {codes[c].guesses, codes[c].guesses + 1}
             /\ verify' = [verify EXCEPT ![t] = y]
             /\ y.pc \in {"none", "matched"}
             /\ y.pc = "matched" => y.code = c
      BY <1>2, CompareSteps
    <2>0. c = verify[t].code
      OBVIOUS
    <2> HIDE DEF c
    <2>3. ASSUME NEW d \in Codes PROVE CodeFits(d)'
      <3>1. CodeFits(d) /\ codes[d].guesses \in Nat /\ codes[d].attempts \in Nat
        BY DEF CodeInv, CodeTypes, CodeRec
      <3>2. Counted(d)' = Counted(d) \ {t}
        BY <2>2, CountedGoes
      <3>3. Cardinality(Counted(d)) \in Nat
        BY <3>1, FS_CardinalityType DEF CodeFits
      <3>4. CASE d = c
        <4>1. t \in Counted(d)
          BY <2>0, <2>1, <3>4 DEF Counted
        <4>2. IsFiniteSet(Counted(d)') /\ Cardinality(Counted(d)') = Cardinality(Counted(d)) - 1
          BY <3>1, <3>2, <4>1, FS_RemoveElement DEF CodeFits
        <4>3. codes'[d].attempts = codes[d].attempts
              /\ codes'[d].guesses \in {codes[d].guesses, codes[d].guesses + 1}
          BY <2>1, <2>2, <3>4 DEF CodeTypes
        <4> QED
          BY <3>1, <3>3, <4>2, <4>3, Bounds DEF CodeFits
      <3>5. CASE d # c
        <4>1. Counted(d)' = Counted(d)
          BY <2>0, <3>2, <3>5 DEF Counted
        <4>2. codes'[d] = codes[d]
          BY <2>1, <2>2, <3>5 DEF CodeTypes
        <4> QED
          BY <3>1, <4>1, <4>2 DEF CodeFits
      <3> QED
        BY <3>4, <3>5
    <2>4. \A u \in Tabs : verify'[u].pc \in {"found", "counted", "matched"} => verify'[u].code \in Codes
      BY <2>1, <2>2 DEF CodeInv, CodeTypes
    <2> QED
      BY <2>3, <2>4 DEF CodeInv
  <1> QED
    BY <1>1, <1>2

LEMMA Codes_Next ==
    ASSUME TypeOK, TypeOK', CodeInv, Next PROVE CodeInv'
  <1> USE TypeParts
  <1>1. ASSUME UNCHANGED <<codes, verify>> PROVE CodeInv'
    BY <1>1, CodesUntouched
  <1>2. ASSUME NEW t \in Tabs, Reset(t, "loading"), codes' = codes PROVE CodeInv'
    BY <1>2, CodesWhenReset
  <1>3. ASSUME NEW t \in Tabs, ForceLogout(t), UNCHANGED server PROVE CodeInv'
    BY <1>2, <1>3 DEF ForceLogout, server
  <1>4. ASSUME NEW r \in refreshes, ServerStep(r) \/ DbFails(r) \/ Cancelled(r) PROVE CodeInv'
    BY <1>1, <1>4, Zenon
       DEF ServerStep, ReadToken, RevokeToken, IssuePair, DbFails, Cancelled, server, signin
  <1>5. ASSUME NEW j \in Jobs, JobStep(j) \/ Lost(j) PROVE CodeInv'
    <2>1. j[1] \in Tabs
      BY JobIs
    <2>2. ASSUME Serve(j) PROVE CodeInv'
      BY <1>1, <2>2 DEF Serve, signin
    <2>3. ASSUME Renewed(j) PROVE CodeInv'
      BY <1>1, <2>3, RenewedIs DEF server, signin
    <2>4. ASSUME Refused(j) PROVE CodeInv'
      BY <1>1, <1>3, <2>1, <2>4 DEF Refused, server, signin
    <2>5. ASSUME Denied(j) PROVE CodeInv'
      BY <1>3, <2>1, <2>5 DEF Denied
    <2>6. ASSUME Lost(j) PROVE CodeInv'
      BY <1>1, <1>3, <2>1, <2>6, Zenon DEF Lost, server, signin
    <2> QED
      BY <1>5, <2>2, <2>3, <2>4, <2>5, <2>6 DEF JobStep
  <1>6. ASSUME NEW t \in Tabs, Load(t) \/ Logout(t) \/ AskForCode(t) \/ PageStep(t) PROVE CodeInv'
    BY <1>1, <1>2, <1>6, Zenon
       DEF Load, Logout, AskForCode, PageStep, Hydrate, Hydrated, LoggedOut, server, signin
  <1>7. ASSUME NEW t \in Tabs, CodeStep(t) PROVE CodeInv'
    BY <1>7, CodesUntouched DEF CodeStep, InvalidateCodes, CreateCode, CodeTypes, CodeRec
  <1>8. ASSUME NEW t \in Tabs, VerifyStep(t) \/ VerifyLost(t) PROVE CodeInv'
    <2>1. ASSUME FindCode(t) PROVE CodeInv'
      <3>1. PICK y \in VerifyRec : /\ verify' = [verify EXCEPT ![t] = y]
                                   /\ y.pc \in {"none", "found"}
                                   /\ y.pc = "found" => y.code \in Codes
        BY <2>1, FindSteps
      <3> QED
        BY <2>1, <3>1, FindSteps, CodesWhenEnds
    <2>2. ASSUME SignedIn(t) \/ VerifyLost(t) PROVE CodeInv'
      BY <2>2, NoVerifyIs, CodesWhenEnds DEF SignedIn, VerifyLost, server
    <2> QED
      BY <1>8, <2>1, <2>2, Codes_Attempt DEF VerifyStep
  <1>9. ASSUME NEW t \in Tabs, NEW x \in 0..MaxCodes, TypeCode(t, x) PROVE CodeInv'
    <2>1. verify' = [verify EXCEPT ![t] = TypedAs(x)] /\ UNCHANGED server
      BY <1>9, Zenon DEF TypeCode, TypedAs
    <2>2. PICK y : y = TypedAs(x)
      OBVIOUS
    <2>3. y.pc = "sent"
      BY <2>2, TypedIs
    <2> QED
      BY <2>1, <2>2, <2>3, CodesWhenEnds DEF server
  <1>10. ASSUME NEW t \in Tabs, NEW q \in Queries, StartQuery(t, q) PROVE CodeInv'
    BY <1>1, <1>10, Zenon DEF StartQuery, server, signin
  <1>11. ASSUME NEW n \in Tokens, AccessExpires(n) PROVE CodeInv'
    BY <1>1, <1>11, Zenon DEF AccessExpires, signin
  <1> QED
    BY <1>4, <1>5, <1>6, <1>7, <1>8, <1>9, <1>10, <1>11, Zenon DEF Next

-----------------------------------------------------------------------------
(* A tab's requests, whatever changes one of them or all.                    *)

LEMMA Tab_Init == Init => TabInv /\ AwaitInv
  <1> SUFFICES ASSUME Init PROVE TabInv /\ AwaitInv
    OBVIOUS
  <1>1. \A j \in Jobs : jobs[j].pc = "idle" /\ j # Nobody
    BY IdleIs, JobIs DEF Init
  <1>2. \A t \in Tabs : verify[t].pc = "none" /\ page[t] = "closed" /\ refreshing[t] = Nobody
    BY NoVerifyIs DEF Init
  <1>3. ASSUME NEW t \in Tabs PROVE PageFits(t)
    BY <1>1, <1>2, TabIs DEF PageFits, Boot, Me, Out
  <1>4. ASSUME NEW j \in Jobs PROVE RefreshFits(j)
    BY <1>1, <1>2, JobIs DEF RefreshFits, Refreshes
  <1>5. refreshes = {} /\ refreshing \in [Tabs -> Jobs \cup {Nobody}]
    BY DEF Init
  <1> QED
    BY <1>2, <1>3, <1>4, <1>5 DEF TabInv, AwaitInv

LEMMA OthersApart ==
    ASSUME NEW t \in Tabs, NEW u \in Tabs, u # t, NEW k \in Of(u)
    PROVE  k \in Jobs /\ \A x : k # <<t, x>>
  <1>1. k \in Jobs /\ k[1] = u
    BY TabIs
  <1>2. \A x : <<t, x>>[1] = t
    OBVIOUS
  <1> QED
    BY <1>1, <1>2

LEMMA PageSame ==
    ASSUME NEW u \in Tabs, PageFits(u), page'[u] = page[u], verify'[u] = verify[u],
           \A k \in Of(u) : jobs'[k] = jobs[k]
    PROVE  PageFits(u)'
  BY TabIs DEF PageFits, Boot, Me, Out

LEMMA TabWhenMoved ==
    ASSUME TabInv, NEW j \in Jobs, \A k \in Jobs \ {j} : jobs'[k] = jobs[k],
           UNCHANGED <<page, verify, refreshing>>,
           Refreshes(j)' <=> Refreshes(j),
           jobs'[j].pc = "queued" => refreshing[j[1]] # Nobody,
           jobs[j].pc = "idle" /\ jobs'[j].pc # "idle" => page[j[1]] = "app" /\ j[2] \notin {"boot", "me"},
           j[2] = "boot" /\ jobs'[j].pc # "idle" => jobs'[j].body = jobs[j].body,
           j[2] = "logout" /\ jobs'[j].pc # "idle" => page[j[1]] = "app"
    PROVE  TabInv'
  <1>1. ASSUME NEW t \in Tabs PROVE PageFits(t)'
    <2>1. PageFits(t)
      BY DEF TabInv
    <2>2. CASE t # j[1]
      <3>1. \A k \in Of(t) : jobs'[k] = jobs[k]
        BY <2>2, TabIs
      <3> QED
        BY <2>1, <3>1, TabIs DEF PageFits, Boot, Me, Out
    <2>3. CASE t = j[1]
      <3>1. \A k \in Of(t) : k # j => jobs'[k] = jobs[k]
        BY TabIs
      <3>0. /\ <<t, "boot">> \in Of(t) /\ <<t, "me">> \in Of(t) /\ <<t, "logout">> \in Of(t)
            /\ <<t, "boot">> # <<t, "me">> /\ j \in Of(t)
        BY <2>3, TabIs, JobIs
      <3>2. /\ j = <<t, "boot">> => j[2] = "boot"
            /\ j = <<t, "me">> => j[2] = "me"
            /\ j = <<t, "logout">> => j[2] = "logout"
        OBVIOUS
      <3>9. /\ jobs[j].pc = "idle" /\ jobs'[j].pc # "idle" => page[t] = "app" /\ j[2] \notin {"boot", "me"}
            /\ j[2] = "boot" /\ jobs'[j].pc # "idle" => jobs'[j].body = jobs[j].body
            /\ j[2] = "logout" /\ jobs'[j].pc # "idle" => page[t] = "app"
        BY <2>3
      <3>3. page[t] \in {"closed", "loading"} => \A k \in Of(t) : jobs'[k].pc = "idle"
        BY <2>1, <3>0, <3>1, <3>2, <3>9 DEF PageFits
      <3>4. page[t] = "booting" => \A k \in Of(t) : k[2] \notin {"boot", "me"} => jobs'[k].pc = "idle"
        BY <2>1, <3>0, <3>1, <3>2, <3>9 DEF PageFits
      <3>5. page[t] # "booting" => jobs'[<<t, "boot">>].pc = "idle" /\ jobs'[<<t, "me">>].pc = "idle"
        BY <2>1, <3>0, <3>1, <3>2, <3>9 DEF PageFits, Boot, Me
      <3>6. jobs'[<<t, "me">>].pc # "idle" => jobs'[<<t, "boot">>].pc = "idle"
        BY <2>1, <3>0, <3>1, <3>2, <3>9 DEF PageFits, Boot, Me
      <3>7. jobs'[<<t, "logout">>].pc # "idle" => page[t] = "app"
        BY <2>1, <3>0, <3>1, <3>2, <3>9 DEF PageFits, Out
      <3>8. jobs'[<<t, "boot">>].pc # "idle" => jobs'[<<t, "boot">>].body # 0
        BY <2>1, <3>0, <3>1, <3>2, <3>9 DEF PageFits, Boot
      <3> QED
        BY <2>1, <3>3, <3>4, <3>5, <3>6, <3>7, <3>8 DEF PageFits, Boot, Me, Out
    <2> QED
      BY <2>2, <2>3
  <1>2. ASSUME NEW k \in Jobs PROVE RefreshFits(k)'
    <2>1. RefreshFits(k)
      BY DEF TabInv
    <2> QED
      BY <2>1 DEF RefreshFits, Refreshes
  <1>3. \A t \in Tabs : refreshing'[t] \in Of(t) \cup {Nobody}
    BY DEF TabInv
  <1> QED
    BY <1>1, <1>2, <1>3 DEF TabInv

LEMMA TabWhenReset ==
    ASSUME TypeOK, TabInv, NEW t \in Tabs, Reset(t, "loading") PROVE TabInv'
  <1>0. page \in [Tabs -> {"closed", "loading", "booting", "guest", "app"}] /\ verify \in [Tabs -> VerifyRec]
    BY TypeParts DEF TabTypes, CodeTypes
  <1>1. /\ \A u \in Tabs \ {t} : page'[u] = page[u] /\ verify'[u] = verify[u]
        /\ page'[t] = "loading" /\ verify'[t].pc = "none"
    BY <1>0, ResetIs, NoVerifyIs
  <1>2. /\ refreshing' \in [Tabs -> Jobs \cup {Nobody}] /\ refreshing'[t] = Nobody
        /\ \A u \in Tabs \ {t} : refreshing'[u] = refreshing[u]
    BY ResetIs DEF TabInv
  <1>3. ASSUME NEW k \in Jobs PROVE IF k[1] = t THEN jobs'[k] = IdleJob ELSE jobs'[k] = jobs[k]
    <2>1. k \in Of(t) <=> k[1] = t
      BY DEF Of
    <2>2. jobs' = [i \in Jobs |-> IF i \in Of(t) THEN IdleJob ELSE jobs[i]]
      BY ResetIs
    <2> QED
      BY <2>1, <2>2
  <1>4. \A k \in Jobs : jobs'[k] = IdleJob => jobs'[k].pc = "idle"
    BY IdleIs
  <1>5. ASSUME NEW u \in Tabs PROVE PageFits(u)'
    <2>0. \A k \in Of(u) : k \in Jobs /\ k[1] = u
      BY TabIs
    <2>1. CASE u = t
      <3>1. \A k \in Of(u) : jobs'[k].pc = "idle"
        BY <1>3, <1>4, <2>0, <2>1
      <3> QED
        BY <1>1, <2>1, <3>1, TabIs DEF PageFits, Boot, Me, Out
    <2>2. CASE u # t
      <3>1. \A k \in Of(u) : jobs'[k] = jobs[k]
        BY <1>3, <2>0, <2>2
      <3>2. PageFits(u)
        BY DEF TabInv
      <3> QED
        BY <1>1, <2>2, <3>1, <3>2, TabIs DEF PageFits, Boot, Me, Out
    <2> QED
      BY <2>1, <2>2
  <1>6. ASSUME NEW k \in Jobs PROVE RefreshFits(k)'
    <2>1. RefreshFits(k) /\ k[1] \in Tabs /\ k # Nobody
      BY JobIs DEF TabInv
    <2> QED
      BY <1>2, <1>3, <1>4, <2>1 DEF RefreshFits, Refreshes
  <1>7. ASSUME NEW u \in Tabs PROVE refreshing'[u] \in Of(u) \cup {Nobody}
    BY <1>2 DEF TabInv
  <1> QED
    BY <1>2, <1>5, <1>6, <1>7 DEF TabInv

\* The hydration fails: its two requests are over, neither refreshes.
LEMMA TabWhenFails ==
    ASSUME TypeOK, TabInv, NEW t \in Tabs, HydrateFails(t), UNCHANGED <<refreshing, verify>>,
           ~Refreshes(<<t, "boot">>), ~Refreshes(<<t, "me">>),
           Boot(t).pc # "idle" \/ Me(t).pc # "idle"
    PROVE  TabInv'
  <1>0. /\ page \in [Tabs -> {"closed", "loading", "booting", "guest", "app"}]
        /\ jobs \in [Jobs -> JobRec]
        /\ <<t, "boot">> \in Jobs /\ <<t, "me">> \in Jobs
    BY TypeParts DEF TabTypes, JobTypes, Jobs
  <1>1. page' = [page EXCEPT ![t] = "guest"] /\ page[t] = "booting"
    BY DEF HydrateFails, TabInv, PageFits
  <1>2. /\ jobs'[<<t, "boot">>] = IdleJob /\ jobs'[<<t, "me">>] = IdleJob
        /\ \A k \in Jobs : k # <<t, "boot">> /\ k # <<t, "me">> => jobs'[k] = jobs[k]
    <2>1. jobs' = [jobs EXCEPT ![<<t, "boot">>] = IdleJob, ![<<t, "me">>] = IdleJob]
      BY DEF HydrateFails
    <2> QED
      BY <1>0, <2>1
  <1>3. ASSUME NEW u \in Tabs PROVE PageFits(u)'
    <2>1. PageFits(u) /\ verify'[u] = verify[u]
      BY DEF TabInv
    <2>2. CASE u # t
      <3>1. \A k \in Of(u) : jobs'[k] = jobs[k]
        <4>1. ASSUME NEW k \in Of(u) PROVE k \in Jobs /\ k # <<t, "boot">> /\ k # <<t, "me">>
          BY <2>2, TabIs
        <4> QED
          BY <1>2, <4>1
      <3> QED
        BY <1>0, <1>1, <2>1, <2>2, <3>1, TabIs DEF PageFits, Boot, Me, Out
    <2>3. CASE u = t
      <3>1. <<t, "logout">> \in Jobs /\ <<t, "logout">> # <<t, "boot">> /\ <<t, "logout">> # <<t, "me">>
        BY DEF Jobs
      <3>2. jobs'[<<t, "logout">>].pc = "idle"
        BY <1>1, <1>2, <2>1, <2>3, <3>1 DEF PageFits, Out
      <3>3. page'[t] = "guest"
        BY <1>0, <1>1
      <3>4. verify[t].pc = "none"
        BY <1>1, <2>1, <2>3 DEF PageFits
      <3> QED
        BY <1>2, <2>1, <2>3, <3>2, <3>3, <3>4, IdleIs DEF PageFits, Boot, Me, Out
    <2> QED
      BY <2>2, <2>3
  <1>4. ASSUME NEW k \in Jobs PROVE RefreshFits(k)'
    <2>1. RefreshFits(k)
      BY DEF TabInv
    <2>2. CASE k # <<t, "boot">> /\ k # <<t, "me">>
      BY <1>2, <2>1, <2>2 DEF RefreshFits, Refreshes
    <2>3. CASE k = <<t, "boot">> \/ k = <<t, "me">>
      BY <1>2, <2>1, <2>3, IdleIs DEF RefreshFits, Refreshes
    <2> QED
      BY <2>2, <2>3
  <1> QED
    BY <1>3, <1>4 DEF TabInv

\* One request of a tab refreshes for it ...
LEMMA TabWhenRefreshes ==
    ASSUME TypeOK, TabInv, NEW j \in Jobs, jobs[j].pc = "refused", refreshing[j[1]] = Nobody,
           refreshing' = [refreshing EXCEPT ![j[1]] = j],
           jobs'[j].pc = "refreshing", jobs'[j].body = jobs[j].body,
           \A k \in Jobs \ {j} : jobs'[k] = jobs[k],
           UNCHANGED <<page, verify>>
    PROVE  TabInv'
  <1> DEFINE t == j[1]
  <1>0. t \in Tabs /\ j \in Of(t) /\ refreshing \in [Tabs -> Jobs \cup {Nobody}] /\ j # Nobody
    BY JobIs DEF TabInv
  <1>1. ASSUME NEW u \in Tabs PROVE PageFits(u)'
    <2>1. PageFits(u)
      BY DEF TabInv
    <2>2. \A k \in Of(u) : k \in Jobs /\ (jobs'[k].pc = "idle" <=> jobs[k].pc = "idle") /\ jobs'[k].body = jobs[k].body
      BY TabIs
    <2> QED
      BY <2>1, <2>2, TabIs DEF PageFits, Boot, Me, Out
  <1>2. ASSUME NEW k \in Jobs PROVE RefreshFits(k)'
    <2>1. RefreshFits(k) /\ k[1] \in Tabs /\ k \in Of(k[1]) /\ k # Nobody
      BY JobIs DEF TabInv
    <2>2. CASE k[1] # t
      BY <1>0, <2>1, <2>2 DEF RefreshFits, Refreshes
    <2>3. CASE k[1] = t
      <3>1. ~Refreshes(k) /\ refreshing'[t] = j
        BY <1>0, <2>1, <2>3 DEF RefreshFits
      <3> QED
        BY <1>0, <2>3, <3>1 DEF RefreshFits, Refreshes
    <2> QED
      BY <2>2, <2>3
  <1>3. ASSUME NEW u \in Tabs PROVE refreshing'[u] \in Of(u) \cup {Nobody}
    BY <1>0 DEF TabInv
  <1>4. refreshing' \in [Tabs -> Jobs \cup {Nobody}]
    BY <1>0
  <1> QED
    BY <1>1, <1>2, <1>3, <1>4 DEF TabInv

\* ... and when it has, all go on.
LEMMA TabWhenRenewed ==
    ASSUME TypeOK, TabInv, NEW j \in Jobs, Renewed(j) PROVE TabInv'
  <1> DEFINE t == j[1]
  <1>0. t \in Tabs /\ j \in Of(t) /\ refreshing \in [Tabs -> Jobs \cup {Nobody}] /\ j # Nobody
    BY JobIs DEF TabInv
  <1>1. /\ jobs[j].pc = "renewed" /\ refreshing' = [refreshing EXCEPT ![t] = Nobody]
        /\ UNCHANGED <<page, verify>>
    BY RenewedIs DEF signin
  <1>2. ASSUME NEW k \in Jobs
        PROVE  IF k[1] = t /\ (jobs[k].pc = "queued" \/ k = j)
               THEN jobs[k].pc # "idle" /\ jobs'[k].pc = "sent" /\ jobs'[k].body = jobs[k].body
               ELSE jobs'[k] = jobs[k]
    <2>1. k \in Flushed(t) \cup {j} <=> k[1] = t /\ (jobs[k].pc = "queued" \/ k = j)
      BY <1>0 DEF Flushed, Of
    <2> QED
      BY <1>1, <2>1, RenewedIs
  <1>3. ASSUME NEW u \in Tabs PROVE PageFits(u)'
    <2>1. PageFits(u)
      BY DEF TabInv
    <2>2. \A k \in Of(u) : k \in Jobs /\ (jobs'[k].pc = "idle" <=> jobs[k].pc = "idle") /\ jobs'[k].body = jobs[k].body
      BY <1>2, TabIs
    <2> QED
      BY <1>1, <2>1, <2>2, TabIs DEF PageFits, Boot, Me, Out
  <1>4. ASSUME NEW k \in Jobs PROVE RefreshFits(k)'
    <2>1. RefreshFits(k) /\ RefreshFits(j) /\ k[1] \in Tabs /\ k # Nobody
      BY JobIs DEF TabInv
    <2>2. CASE k[1] # t
      BY <1>0, <1>1, <1>2, <2>1, <2>2 DEF RefreshFits, Refreshes
    <2>3. CASE k[1] = t
      <3>1. refreshing[t] = j /\ refreshing'[t] = Nobody
        BY <1>0, <1>1, <2>1 DEF RefreshFits, Refreshes
      <3>2. k = j \/ ~Refreshes(k)
        BY <2>1, <2>3, <3>1 DEF RefreshFits
      <3> QED
        BY <1>2, <2>1, <2>3, <3>1, <3>2 DEF RefreshFits, Refreshes
    <2> QED
      BY <2>2, <2>3
  <1>5. ASSUME NEW u \in Tabs PROVE refreshing'[u] \in Of(u) \cup {Nobody}
    BY <1>0, <1>1 DEF TabInv
  <1>6. refreshing' \in [Tabs -> Jobs \cup {Nobody}]
    BY <1>0, <1>1
  <1> QED
    BY <1>3, <1>4, <1>5, <1>6 DEF TabInv

\* What else a page load begins and ends: u's other requests are all over.
LEMMA TabWhenBegins ==
    ASSUME TypeOK, TabInv, NEW t \in Tabs, Hydrate(t) \/ Hydrated(t) PROVE TabInv'
  <1>0. /\ page \in [Tabs -> {"closed", "loading", "booting", "guest", "app"}]
        /\ jobs \in [Jobs -> JobRec]
        /\ <<t, "boot">> \in Jobs /\ <<t, "me">> \in Jobs /\ <<t, "boot">> # <<t, "me">>
        /\ PageFits(t)
        /\ UNCHANGED <<refreshing, verify>>
    BY TypeParts DEF TabTypes, JobTypes, Jobs, TabInv, Hydrate, Hydrated, signin
  <1> DEFINE Only(p) ==
      /\ page' = [page EXCEPT ![t] = p]
      /\ \A k \in Jobs : k # <<t, "boot">> /\ k # <<t, "me">> => jobs'[k] = jobs[k]
  <1> DEFINE Busy(p) == p \in {"idle", "sent"}
  <1>1. CASE Hydrate(t) /\ cookie = 0
    <2>1. Only("guest") /\ jobs' = jobs /\ page[t] = "loading"
      BY <1>1 DEF Hydrate
    <2>2. ASSUME NEW u \in Tabs PROVE PageFits(u)'
      <3>1. PageFits(u)
        BY DEF TabInv
      <3> QED
        BY <1>0, <2>1, <3>1, TabIs DEF PageFits, Boot, Me, Out
    <2>3. ASSUME NEW k \in Jobs PROVE RefreshFits(k)'
      BY <1>0, <2>1 DEF TabInv, RefreshFits, Refreshes
    <2> QED
      BY <1>0, <2>2, <2>3 DEF TabInv
  <1>2. ASSUME NEW x, NEW y, Only("booting"), page[t] \in {"loading", "booting"},
               jobs'[<<t, "boot">>] = x, jobs'[<<t, "me">>] = y,
               jobs[<<t, "boot">>].pc \in {"idle", "answered"}, jobs[<<t, "me">>].pc = "idle",
               \/ x.pc = "sent" /\ y.pc = "idle" /\ x.body # 0
               \/ x.pc = "idle" /\ y.pc = "sent"
        PROVE  TabInv'
    <2>1. ASSUME NEW u \in Tabs PROVE PageFits(u)'
      <3>1. PageFits(u) /\ verify'[u] = verify[u]
        BY <1>0 DEF TabInv
      <3>2. CASE u # t
        <4>1. ASSUME NEW k \in Of(u) PROVE jobs'[k] = jobs[k]
          <5>1. k \in Jobs /\ k # <<t, "boot">> /\ k # <<t, "me">>
            BY <3>2, TabIs
          <5> QED
            BY <1>2, <5>1
        <4>2. page'[u] = page[u]
          BY <1>0, <1>2, <3>2
        <4> QED
          BY <3>1, <4>1, <4>2, TabIs DEF PageFits, Boot, Me, Out
      <3>3. CASE u = t
        <4>1. page'[t] = "booting" /\ verify[t].pc = "none"
          BY <1>0, <1>2, <3>1, <3>3 DEF PageFits
        <4>2. ASSUME NEW k \in Of(t), k[2] \notin {"boot", "me"} PROVE jobs'[k].pc = "idle"
          <5>1. k \in Jobs /\ k # <<t, "boot">> /\ k # <<t, "me">>
            <6>1. <<t, "boot">>[2] = "boot" /\ <<t, "me">>[2] = "me"
              OBVIOUS
            <6> QED
              BY <4>2, <6>1, TabIs
          <5>2. jobs[k].pc = "idle"
            BY <1>0, <1>2, <4>2 DEF PageFits
          <5> QED
            BY <1>2, <5>1, <5>2
        <4>3. <<t, "logout">> \in Of(t) /\ jobs'[<<t, "logout">>].pc = "idle"
          BY <4>2, TabIs
        <4> QED
          BY <1>2, <3>1, <3>3, <4>1, <4>2, <4>3 DEF PageFits, Boot, Me, Out
      <3> QED
        BY <3>2, <3>3
    <2>2. ASSUME NEW k \in Jobs PROVE RefreshFits(k)'
      <3>1. RefreshFits(k)
        BY DEF TabInv
      <3>2. CASE k # <<t, "boot">> /\ k # <<t, "me">>
        BY <1>0, <1>2, <3>1, <3>2 DEF RefreshFits, Refreshes
      <3>3. CASE k = <<t, "boot">> \/ k = <<t, "me">>
        <4>1. ~Refreshes(k) /\ ~Refreshes(k)' /\ jobs'[k].pc # "queued"
          BY <1>2, <3>3 DEF Refreshes
        <4> QED
          BY <1>0, <3>1, <4>1 DEF RefreshFits
      <3> QED
        BY <3>2, <3>3
    <2> QED
      BY <1>0, <2>1, <2>2 DEF TabInv
  <1>3. CASE Hydrate(t) /\ cookie # 0
    <2>1. PICK x : x = Sent(0, cookie)
      OBVIOUS
    <2>2. x.pc = "sent" /\ x.body # 0
      BY <1>3, <2>1, SentIs, TypeParts, Bounds DEF JobTypes
    <2>3. /\ page[t] = "loading" /\ page' = [page EXCEPT ![t] = "booting"]
          /\ jobs' = [jobs EXCEPT ![<<t, "boot">>] = x]
      BY <1>3, <2>1 DEF Hydrate
    <2>4. jobs[<<t, "boot">>].pc = "idle" /\ jobs[<<t, "me">>].pc = "idle"
      BY <1>0, <2>3 DEF PageFits, Boot, Me
    <2>5. /\ Only("booting") /\ jobs'[<<t, "boot">>] = x /\ jobs'[<<t, "me">>] = jobs[<<t, "me">>]
      BY <1>0, <2>3
    <2> QED
      BY <1>2, <2>2, <2>3, <2>4, <2>5
  <1>4. CASE Hydrated(t)
    <2>1. PICK n : n = jobs[<<t, "boot">>].got
      OBVIOUS
    <2>2. n \in 0..MaxTokens
      BY <1>0, <2>1 DEF JobRec
    <2>3. PICK x, y : x = [IdleJob EXCEPT !.got = n] /\ y = Sent(n, 0)
      OBVIOUS
    <2>4. x.pc = "idle" /\ y.pc = "sent"
      BY <2>2, <2>3, SentIs, IdleIs, Bounds DEF JobRec
    <2>5. /\ jobs[<<t, "boot">>].pc = "answered" /\ page' = page
          /\ jobs' = [jobs EXCEPT ![<<t, "boot">>] = x, ![<<t, "me">>] = y]
      BY <1>4, <2>1, <2>3 DEF Hydrated
    <2>6. page[t] = "booting" /\ jobs[<<t, "me">>].pc = "idle"
      BY <1>0, <2>5 DEF PageFits, Boot, Me
    <2>7. /\ Only("booting") /\ jobs'[<<t, "boot">>] = x /\ jobs'[<<t, "me">>] = y
      BY <1>0, <2>5, <2>6
    <2> QED
      BY <1>2, <2>4, <2>5, <2>6, <2>7
  <1> QED
    BY <1>1, <1>3, <1>4

LEMMA TabWhenEnters ==
    ASSUME TypeOK, TabInv, NEW t \in Tabs,
           \/ page[t] = "guest" /\ page' = [page EXCEPT ![t] = "app"]
           \/ page[t] = "app" /\ page' = [page EXCEPT ![t] = "guest"] /\ Out(t)'.pc = "idle",
           UNCHANGED refreshing, verify'[t].pc # "none" => page'[t] = "guest",
           \A u \in Tabs \ {t} : verify'[u] = verify[u],
           \A k \in Jobs : \/ jobs'[k] = jobs[k]
                           \/ k = <<t, "logout">> /\ ~Refreshes(k) /\ jobs'[k].pc = "idle"
    PROVE  TabInv'
  <1>0. /\ page \in [Tabs -> {"closed", "loading", "booting", "guest", "app"}] /\ PageFits(t)
    BY TypeParts DEF TabTypes, TabInv
  <1>1. \A k \in Jobs : jobs'[k].pc # "idle" => jobs'[k] = jobs[k]
    OBVIOUS
  <1>2. ASSUME NEW u \in Tabs PROVE PageFits(u)'
    <2>1. PageFits(u)
      BY DEF TabInv
    <2>2. CASE u # t
      <3>1. ASSUME NEW k \in Of(u) PROVE jobs'[k] = jobs[k]
        <4>1. k \in Jobs /\ k # <<t, "logout">>
          BY <2>2, OthersApart
        <4> QED
          BY <4>1
      <3>2. page'[u] = page[u] /\ verify'[u] = verify[u]
        BY <1>0, <2>2
      <3> QED
        BY <2>1, <3>1, <3>2, PageSame
    <2>3. CASE u = t
      <3>1. page'[t] \in {"guest", "app"} /\ page[t] \in {"guest", "app"}
        BY <1>0
      <3>2. /\ <<t, "boot">> \in Jobs /\ <<t, "me">> \in Jobs /\ <<t, "logout">> \in Jobs
            /\ <<t, "boot">> # <<t, "logout">> /\ <<t, "me">> # <<t, "logout">>
        BY DEF Jobs
      <3>3. Boot(t)' = Boot(t) /\ Me(t)' = Me(t) /\ Boot(t).pc = "idle" /\ Me(t).pc = "idle"
        BY <1>0, <3>1, <3>2 DEF PageFits, Boot, Me
      <3>4. Out(t)'.pc # "idle" => page'[t] = "app"
        BY <1>0, <1>1, <3>2 DEF PageFits, Out
      <3> QED
        BY <2>3, <3>1, <3>3, <3>4 DEF PageFits
    <2> QED
      BY <2>2, <2>3
  <1>3. ASSUME NEW k \in Jobs PROVE RefreshFits(k)'
    <2>1. RefreshFits(k)
      BY DEF TabInv
    <2>2. Refreshes(k)' <=> Refreshes(k)
      BY DEF Refreshes
    <2>3. jobs'[k].pc = "queued" => jobs[k].pc = "queued"
      OBVIOUS
    <2> QED
      BY <2>1, <2>2, <2>3 DEF RefreshFits
  <1> QED
    BY <1>2, <1>3 DEF TabInv

\* The user's page is known: the hydration is over, the application appears.
LEMMA TabWhenKnown ==
    ASSUME TypeOK, TabInv, NEW t \in Tabs, Me(t).pc = "sent", page' = [page EXCEPT ![t] = "app"],
           jobs' = [jobs EXCEPT ![<<t, "me">>] = IdleJob, ![<<t, "boot">>] = IdleJob],
           UNCHANGED <<refreshing, verify>>
    PROVE  TabInv'
  <1>0. /\ page \in [Tabs -> {"closed", "loading", "booting", "guest", "app"}] /\ PageFits(t)
        /\ jobs \in [Jobs -> JobRec] /\ <<t, "boot">> \in Jobs /\ <<t, "me">> \in Jobs
    BY TypeParts DEF TabTypes, JobTypes, Jobs, TabInv
  <1>1. page[t] = "booting" /\ Boot(t).pc = "idle"
    BY <1>0 DEF PageFits
  <1>2. /\ jobs'[<<t, "boot">>] = IdleJob /\ jobs'[<<t, "me">>] = IdleJob
        /\ \A k \in Jobs : k # <<t, "boot">> /\ k # <<t, "me">> => jobs'[k] = jobs[k]
    BY <1>0
  <1>3. ASSUME NEW u \in Tabs PROVE PageFits(u)'
    <2>1. PageFits(u) /\ verify'[u] = verify[u]
      BY DEF TabInv
    <2>2. CASE u # t
      <3>1. ASSUME NEW k \in Of(u) PROVE jobs'[k] = jobs[k]
        <4>1. k \in Jobs /\ k # <<t, "boot">> /\ k # <<t, "me">>
          BY <2>2, OthersApart
        <4> QED
          BY <1>2, <4>1
      <3>2. page'[u] = page[u]
        BY <1>0, <2>2
      <3> QED
        BY <2>1, <3>1, <3>2, PageSame
    <2>3. CASE u = t
      <3>1. page'[t] = "app" /\ verify[t].pc = "none"
        BY <1>0, <1>1 DEF PageFits
      <3> QED
        BY <1>2, <2>1, <2>3, <3>1, IdleIs DEF PageFits, Boot, Me, Out
    <2> QED
      BY <2>2, <2>3
  <1>4. ASSUME NEW k \in Jobs PROVE RefreshFits(k)'
    <2>1. RefreshFits(k)
      BY DEF TabInv
    <2>2. CASE k # <<t, "boot">> /\ k # <<t, "me">>
      BY <1>2, <2>1, <2>2 DEF RefreshFits, Refreshes
    <2>3. CASE k = <<t, "boot">> \/ k = <<t, "me">>
      BY <1>1, <1>2, <2>1, <2>3, IdleIs DEF RefreshFits, Refreshes, Boot, Me
    <2> QED
      BY <2>2, <2>3
  <1> QED
    BY <1>3, <1>4 DEF TabInv

\* Signing in changes the form only.
LEMMA TabWhenTyped ==
    ASSUME TabInv, UNCHANGED <<page, jobs, refreshing>>,
           \A u \in Tabs : verify'[u].pc # "none" => verify[u].pc # "none" \/ page[u] = "guest"
    PROVE  TabInv'
  <1>1. ASSUME NEW u \in Tabs PROVE PageFits(u)'
    <2>1. PageFits(u)
      BY DEF TabInv
    <2> QED
      BY <2>1 DEF PageFits, Boot, Me, Out
  <1>2. ASSUME NEW k \in Jobs PROVE RefreshFits(k)'
    BY DEF TabInv, RefreshFits, Refreshes
  <1> QED
    BY <1>1, <1>2 DEF TabInv

-----------------------------------------------------------------------------
(* Every step keeps the tabs' invariant.                                     *)

\* An answer reaches a request that waits for it, and nothing else.
LEMMA AnswerMoves ==
    ASSUME TypeOK, AwaitInv, NEW r \in refreshes, NEW n \in 0..MaxTokens, Answer(r, n), r.job # Nobody
    PROVE  /\ r.job \in Jobs /\ Awaits(r.job)
           /\ \A k \in Jobs \ {r.job} : jobs'[k] = jobs[k]
           /\ jobs'[r.job].got = n /\ jobs'[r.job].body = jobs[r.job].body
           /\ jobs[r.job].pc = "refreshing" => jobs'[r.job].pc = IF n = 0 THEN "denied" ELSE "renewed"
           /\ jobs[r.job].pc = "sent" => jobs'[r.job].pc = IF n = 0 THEN "refused" ELSE "answered"
  <1>1. r.job \in Jobs /\ jobs' = [jobs EXCEPT ![r.job] = Answered(jobs[r.job], n)] /\ jobs \in [Jobs -> JobRec]
    BY AnswerIs, TypeParts DEF JobTypes
  <1>2. PICK y : y = Answered(jobs[r.job], n)
    OBVIOUS
  <1>3. y.got = n /\ y.pc = AnswerPC(jobs[r.job].pc, n) /\ y.body = jobs[r.job].body
    BY <1>1, <1>2, AnsweredIs
  <1> QED
    BY <1>1, <1>2, <1>3 DEF AwaitInv, AnswerPC

LEMMA TabWhenAnswered ==
    ASSUME TypeOK, TabInv, AwaitInv, NEW r \in refreshes, NEW n \in 0..MaxTokens, Answer(r, n),
           UNCHANGED <<page, refreshing, signin>>
    PROVE  TabInv'
  <1>1. UNCHANGED <<page, verify, refreshing>>
    BY DEF signin
  <1>2. CASE r.job = Nobody
    <2>1. jobs' = jobs
      BY <1>2, AnswerIs, TypeParts
    <2> QED
      BY <1>1, <2>1, TabWhenTyped
  <1>3. CASE r.job # Nobody
    <2> DEFINE j == r.job
    <2>1. /\ j \in Jobs /\ Awaits(j) /\ \A k \in Jobs \ {j} : jobs'[k] = jobs[k]
          /\ jobs'[j].body = jobs[j].body
          /\ jobs[j].pc = "refreshing" => jobs'[j].pc \in {"denied", "renewed"}
          /\ jobs[j].pc = "sent" => jobs'[j].pc \in {"refused", "answered"}
      BY <1>3, AnswerMoves
    <2>2. (Refreshes(j)' <=> Refreshes(j)) /\ jobs'[j].pc # "queued" /\ jobs[j].pc # "idle"
      BY <2>1 DEF Awaits, Refreshes
    <2>3. j[2] = "logout" => page[j[1]] = "app"
      <3>1. j[1] \in Tabs /\ j = <<j[1], j[2]>> /\ PageFits(j[1])
        BY <2>1, JobIs DEF TabInv
      <3> QED
        BY <2>2, <3>1 DEF PageFits, Out
    <2> HIDE DEF j
    <2> QED
      BY <1>1, <2>1, <2>2, <2>3, TabWhenMoved
  <1> QED
    BY <1>2, <1>3

LEMMA JobPage ==
    ASSUME TabInv, NEW j \in Jobs, jobs[j].pc # "idle"
    PROVE  /\ j[1] \in Tabs /\ PageFits(j[1]) /\ RefreshFits(j)
           /\ j[2] \in {"boot", "me"} => page[j[1]] = "booting"
           /\ j[2] = "logout" => page[j[1]] = "app"
           /\ j[2] = "me" => jobs[<<j[1], "boot">>].pc = "idle"
           /\ j[2] = "boot" => jobs[<<j[1], "me">>].pc = "idle"
  <1>1. j[1] \in Tabs /\ j = <<j[1], j[2]>> /\ PageFits(j[1]) /\ RefreshFits(j)
    BY JobIs DEF TabInv
  <1> QED
    BY <1>1 DEF PageFits, Boot, Me, Out

LEMMA TabWhenRejected ==
    ASSUME TypeOK, TabInv, NEW j \in Jobs, jobs[j].pc \in {"sent", "refused"}, Rejected(j),
           UNCHANGED <<refreshing, signin>>
    PROVE  TabInv'
  <1>1. /\ j[1] \in Tabs /\ j = <<j[1], j[2]>> /\ ~Refreshes(j)
        /\ verify' = verify /\ jobs \in [Jobs -> JobRec]
    BY JobIs, TypeParts DEF signin, JobTypes, Refreshes
  <1>2. CASE j[2] \in {"boot", "me"}
    <2>1. HydrateFails(j[1])
      BY <1>2 DEF Rejected
    <2>2. Boot(j[1]).pc # "idle" \/ Me(j[1]).pc # "idle"
      BY <1>1, <1>2 DEF Boot, Me
    <2>3. ~Refreshes(<<j[1], "boot">>) /\ ~Refreshes(<<j[1], "me">>)
      BY <1>1, <1>2, JobPage DEF Refreshes
    <2> QED
      BY <1>1, <2>1, <2>2, <2>3, TabWhenFails
  <1>3. CASE j[2] \notin {"boot", "me"}
    <2>1. PICK x : x = IF j[2] = "logout" THEN DoneJob ELSE IdleJob
      OBVIOUS
    <2>2. jobs' = [jobs EXCEPT ![j] = x] /\ page' = page
      BY <1>3, <2>1 DEF Rejected, DoneJob
    <2>3. x.pc \in {"idle", "done"}
      BY <2>1, DoneIs, IdleIs
    <2>4. /\ jobs'[j] = x /\ \A k \in Jobs \ {j} : jobs'[k] = jobs[k]
          /\ Refreshes(j)' <=> Refreshes(j)
      BY <1>1, <2>2, <2>3 DEF Refreshes
    <2> QED
      BY <1>1, <1>3, <2>2, <2>3, <2>4, JobPage, TabWhenMoved
  <1> QED
    BY <1>2, <1>3

LEMMA Tab_Server ==
    ASSUME TypeOK, TabInv, AwaitInv, NEW r \in refreshes, ServerStep(r) \/ DbFails(r) \/ Cancelled(r)
    PROVE  TabInv'
  <1>1. ASSUME UNCHANGED <<page, jobs, refreshing, signin>> PROVE TabInv'
    BY <1>1, TabWhenTyped DEF signin
  <1>2. ASSUME NEW n \in 0..MaxTokens, Answer(r, n), UNCHANGED <<page, refreshing, signin>> PROVE TabInv'
    BY <1>2, TabWhenAnswered
  <1>3. 0 \in 0..MaxTokens /\ Tokens \subseteq 0..MaxTokens
    BY Bounds
  <1>4. ASSUME ReadToken(r) PROVE TabInv'
    BY <1>1, <1>2, <1>3, <1>4 DEF ReadToken
  <1>5. ASSUME RevokeToken(r) \/ Cancelled(r) PROVE TabInv'
    BY <1>1, <1>5 DEF RevokeToken, Cancelled, memory
  <1>6. ASSUME IssuePair(r) PROVE TabInv'
    BY <1>2, <1>3, <1>6 DEF IssuePair
  <1>7. ASSUME DbFails(r) PROVE TabInv'
    BY <1>2, <1>3, <1>7 DEF DbFails
  <1> QED
    BY <1>4, <1>5, <1>6, <1>7 DEF ServerStep

LEMMA Tab_Serve ==
    ASSUME TypeOK, TabInv, NEW j \in Jobs, Serve(j) PROVE TabInv'
  <1>1. /\ jobs[j].pc = "sent" /\ j[2] # "boot" /\ jobs \in [Jobs -> JobRec]
        /\ UNCHANGED <<refreshing, verify>> /\ j[1] \in Tabs /\ j = <<j[1], j[2]>>
    BY JobIs, TypeParts DEF Serve, signin, JobTypes
  <1>2. ASSUME jobs'[j].pc \in {"refused", "done", "idle"}, \A k \in Jobs \ {j} : jobs'[k] = jobs[k],
               jobs'[j].pc # "idle" => jobs'[j].body = jobs[j].body, page' = page
        PROVE  TabInv'
    <2>1. Refreshes(j)' <=> Refreshes(j)
      BY <1>1, <1>2 DEF Refreshes
    <2> QED
      BY <1>1, <1>2, <2>1, JobPage, TabWhenMoved
  <1>3. ASSUME NEW p \in {"refused", "done"}, jobs' = [jobs EXCEPT ![j].pc = p], page' = page PROVE TabInv'
    <2>1. /\ jobs'[j].pc \in {"refused", "done", "idle"} /\ jobs'[j].body = jobs[j].body
          /\ \A k \in Jobs \ {j} : jobs'[k] = jobs[k]
      BY <1>1, <1>3 DEF JobRec
    <2> QED
      BY <1>2, <1>3, <2>1
  <1>4. CASE jobs' = [jobs EXCEPT ![j] = IdleJob] /\ page' = page
    <2>1. jobs'[j].pc = "idle" /\ \A k \in Jobs \ {j} : jobs'[k] = jobs[k]
      BY <1>1, <1>4, IdleIs
    <2> QED
      BY <1>2, <1>4, <2>1
  <1>5. CASE /\ j[2] = "me" /\ page' = [page EXCEPT ![j[1]] = "app"]
             /\ jobs' = [jobs EXCEPT ![j] = IdleJob, ![<<j[1], "boot">>] = IdleJob]
    BY <1>1, <1>5, TabWhenKnown DEF Me
  <1> QED
    BY <1>3, <1>4, <1>5 DEF Serve

LEMMA Tab_Jobs ==
    ASSUME TypeOK, TabInv, NEW j \in Jobs, JobStep(j) \/ Lost(j) PROVE TabInv'
  <1>0. /\ jobs \in [Jobs -> JobRec] /\ j[1] \in Tabs
    BY JobIs, TypeParts DEF JobTypes
  <1>1. ASSUME ForceLogout(j[1]) PROVE TabInv'
    BY <1>0, <1>1, TabWhenReset DEF ForceLogout
  <1>2. ASSUME Refused(j) PROVE TabInv'
    <2>1. CASE Rejected(j) /\ UNCHANGED <<refreshing, refreshes, signin, shownBy>>
      BY <1>2, <2>1, TabWhenRejected DEF Refused
    <2>2. CASE RefreshOrWait(j) /\ UNCHANGED <<page, mem, cookie, signin>>
      <3>1. jobs[j].pc = "refused" /\ UNCHANGED <<page, verify>>
        BY <1>2, <2>2 DEF Refused, signin
      <3>2. CASE refreshing[j[1]] # Nobody /\ jobs' = [jobs EXCEPT ![j].pc = "queued"] /\ UNCHANGED refreshing
        <4>1. /\ jobs'[j].pc = "queued" /\ jobs'[j].body = jobs[j].body
              /\ \A k \in Jobs \ {j} : jobs'[k] = jobs[k]
          BY <1>0, <3>2 DEF JobRec
        <4>2. Refreshes(j)' <=> Refreshes(j)
          BY <3>1, <4>1 DEF Refreshes
        <4> QED
          BY <3>1, <3>2, <4>1, <4>2, JobPage, TabWhenMoved
      <3>3. CASE /\ refreshing[j[1]] = Nobody /\ refreshing' = [refreshing EXCEPT ![j[1]] = j]
                 /\ jobs' = [jobs EXCEPT ![j] = [jobs[j] EXCEPT !.pc = "refreshing", !.retried = TRUE]]
        <4>1. PICK x : x = [jobs[j] EXCEPT !.pc = "refreshing", !.retried = TRUE]
          OBVIOUS
        <4>2. x.pc = "refreshing" /\ x.body = jobs[j].body
          BY <1>0, <4>1 DEF JobRec
        <4>3. jobs'[j] = x /\ \A k \in Jobs \ {j} : jobs'[k] = jobs[k]
          BY <1>0, <3>3, <4>1
        <4> QED
          BY <3>1, <3>3, <4>2, <4>3, TabWhenRefreshes
      <3> QED
        BY <2>2, <3>2, <3>3 DEF RefreshOrWait
    <2> QED
      BY <1>1, <1>2, <2>1, <2>2 DEF Refused
  <1>3. ASSUME Denied(j) PROVE TabInv'
    BY <1>1, <1>3 DEF Denied
  <1>4. ASSUME Lost(j) PROVE TabInv'
    <2>1. CASE jobs[j].pc = "sent" /\ Rejected(j) /\ UNCHANGED <<refreshing, signin, shownBy>>
      BY <2>1, TabWhenRejected
    <2> QED
      BY <1>1, <1>4, <2>1, Zenon DEF Lost
  <1> QED
    BY <1>2, <1>3, <1>4, Tab_Serve, TabWhenRenewed DEF JobStep

LEMMA Tab_User ==
    ASSUME TypeOK, TabInv, NEW t \in Tabs,
           \/ Load(t) \/ Logout(t) \/ AskForCode(t) \/ PageStep(t)
           \/ \E q \in Queries : StartQuery(t, q)
    PROVE  TabInv'
  <1>0. /\ jobs \in [Jobs -> JobRec] /\ PageFits(t)
    BY TypeParts DEF JobTypes, TabInv
  <1>1. ASSUME Load(t) PROVE TabInv'
    BY <1>1, TabWhenReset DEF Load
  <1>2. ASSUME Hydrate(t) \/ Hydrated(t) PROVE TabInv'
    BY <1>2, TabWhenBegins
  <1>3. ASSUME AskForCode(t) PROVE TabInv'
    BY <1>3, TabWhenTyped DEF AskForCode, memory
  <1>4. ASSUME NEW k \in Jobs, k[1] = t, k[2] \notin {"boot", "me"}, page[t] = "app",
               UNCHANGED <<page, refreshing, signin>>, jobs[k].pc = "idle",
               jobs'[k].pc \in {"sent", "done"}, \A i \in Jobs \ {k} : jobs'[i] = jobs[i]
        PROVE  TabInv'
    <2>1. Refreshes(k)' <=> Refreshes(k)
      BY <1>4 DEF Refreshes
    <2>2. UNCHANGED <<page, verify, refreshing>>
      BY <1>4 DEF signin
    <2> QED
      BY <1>4, <2>1, <2>2, TabWhenMoved
  <1>5. ASSUME Logout(t) PROVE TabInv'
    <2>1. PICK x : x = IF cookie = 0 THEN DoneJob ELSE Sent(mem[t], cookie)
      OBVIOUS
    <2>2. cookie \in 0..MaxTokens /\ mem[t] \in 0..MaxTokens
      BY TypeParts DEF JobTypes, TabTypes
    <2>3. x.pc \in {"sent", "done"}
      BY <2>1, <2>2, DoneIs, SentIs
    <2>4. PICK k \in Jobs : k = <<t, "logout">>
      BY DEF Jobs
    <2>5. k[1] = t /\ k[2] \notin {"boot", "me"}
      BY <2>4
    <2>6. /\ page[t] = "app" /\ jobs[k].pc = "idle" /\ UNCHANGED <<page, refreshing, signin>>
          /\ jobs' = [jobs EXCEPT ![k] = x]
      BY <1>5, <2>1, <2>4 DEF Logout, DoneJob
    <2>7. jobs'[k] = x /\ \A i \in Jobs \ {k} : jobs'[i] = jobs[i]
      BY <1>0, <2>6
    <2> QED
      BY <1>4, <2>3, <2>5, <2>6, <2>7
  <1>6. ASSUME NEW q \in Queries, StartQuery(t, q) PROVE TabInv'
    <2>1. PICK x : x = Sent(mem[t], 0)
      OBVIOUS
    <2>2. x.pc = "sent"
      BY <2>1, SentIs, TypeParts, Bounds DEF TabTypes
    <2>4. PICK k \in Jobs : k = <<t, q>>
      BY DEF Jobs
    <2>5. k[1] = t /\ k[2] \notin {"boot", "me"}
      BY <2>4, SessionAssumption DEF SessionAssumption
    <2>6. /\ page[t] = "app" /\ jobs[k].pc = "idle" /\ UNCHANGED <<page, refreshing, signin>>
          /\ jobs' = [jobs EXCEPT ![k] = x]
      BY <1>6, <2>1, <2>4 DEF StartQuery
    <2>7. jobs'[k] = x /\ \A i \in Jobs \ {k} : jobs'[i] = jobs[i]
      BY <1>0, <2>6
    <2> QED
      BY <1>4, <2>2, <2>5, <2>6, <2>7
  <1>7. ASSUME LoggedOut(t) PROVE TabInv'
    <2>1. /\ jobs[<<t, "logout">>].pc = "done" /\ jobs' = [jobs EXCEPT ![<<t, "logout">>] = IdleJob]
          /\ page' = [page EXCEPT ![t] = "guest"] /\ UNCHANGED <<refreshing, verify>>
      BY <1>7 DEF LoggedOut, signin
    <2>2. page[t] = "app"
      BY <1>0, <2>1 DEF PageFits, Out
    <2>3. <<t, "logout">> \in Jobs /\ verify[t].pc = "none"
      BY <1>0, <2>2 DEF PageFits, Jobs
    <2>4. \A k \in Jobs : \/ jobs'[k] = jobs[k]
                          \/ k = <<t, "logout">> /\ ~Refreshes(k) /\ jobs'[k].pc = "idle"
      BY <1>0, <2>1, IdleIs DEF Refreshes
    <2>5. Out(t)'.pc = "idle"
      BY <1>0, <2>1, <2>3, IdleIs DEF Out
    <2> QED
      BY <2>1, <2>2, <2>3, <2>4, <2>5, TabWhenEnters
  <1> QED
    BY <1>1, <1>2, <1>3, <1>5, <1>6, <1>7 DEF PageStep

LEMMA Tab_Codes ==
    ASSUME TypeOK, CodeInv, TabInv, NEW t \in Tabs,
           \/ CodeStep(t) \/ VerifyStep(t) \/ VerifyLost(t)
           \/ \E x \in 0..MaxCodes : TypeCode(t, x)
    PROVE  TabInv'
  <1>0. verify \in [Tabs -> VerifyRec]
    BY TypeParts DEF CodeTypes
  <1>1. ASSUME CodeStep(t) PROVE TabInv'
    BY <1>1, TabWhenTyped DEF CodeStep, InvalidateCodes, CreateCode, memory
  <1>2. ASSUME NEW y, verify' = [verify EXCEPT ![t] = y],
               y.pc = "none" \/ verify[t].pc # "none" \/ page[t] = "guest", UNCHANGED memory
        PROVE  TabInv'
    <2>1. \A u \in Tabs : verify'[u].pc # "none" => verify[u].pc # "none" \/ page[u] = "guest"
      BY <1>0, <1>2
    <2> QED
      BY <1>2, <2>1, TabWhenTyped DEF memory
  <1>3. ASSUME FindCode(t) \/ CountAttempt(t) \/ CompareCode(t) PROVE TabInv'
    <2>1. UNCHANGED memory
      BY <1>3, Zenon DEF FindCode, CountAttempt, CompareCode
    <2>2. verify[t].pc # "none" /\ \E y \in VerifyRec : verify' = [verify EXCEPT ![t] = y]
      <3>1. CodeTypes
        BY TypeParts
      <3>2. ASSUME FindCode(t) PROVE verify[t].pc # "none" /\ \E y \in VerifyRec : verify' = [verify EXCEPT ![t] = y]
        BY <3>1, <3>2, FindSteps
      <3>3. ASSUME CountAttempt(t) PROVE verify[t].pc # "none" /\ \E y \in VerifyRec : verify' = [verify EXCEPT ![t] = y]
        BY <3>1, <3>3, CountSteps
      <3>4. ASSUME CompareCode(t) PROVE verify[t].pc # "none" /\ \E y \in VerifyRec : verify' = [verify EXCEPT ![t] = y]
        BY <3>1, <3>4, CompareSteps
      <3> QED
        BY <1>3, <3>2, <3>3, <3>4
    <2> QED
      BY <1>2, <2>1, <2>2
  <1>4. ASSUME SignedIn(t) PROVE TabInv'
    <2>1. /\ verify[t].pc = "matched" /\ verify' = [verify EXCEPT ![t] = NoVerify]
          /\ page' = [page EXCEPT ![t] = "app"] /\ UNCHANGED <<jobs, refreshing>>
      BY <1>4 DEF SignedIn
    <2>2. page[t] = "guest"
      BY <2>1 DEF TabInv, PageFits
    <2>3. verify'[t].pc = "none" /\ \A u \in Tabs \ {t} : verify'[u] = verify[u]
      BY <1>0, <2>1, NoVerifyIs
    <2> QED
      BY <2>1, <2>2, <2>3, TabWhenEnters
  <1>5. ASSUME VerifyLost(t) PROVE TabInv'
    BY <1>2, <1>5, NoVerifyIs DEF VerifyLost
  <1>6. ASSUME NEW x \in 0..MaxCodes, TypeCode(t, x) PROVE TabInv'
    <2>1. verify' = [verify EXCEPT ![t] = TypedAs(x)] /\ UNCHANGED memory /\ page[t] = "guest"
      BY <1>6, Zenon DEF TypeCode, TypedAs
    <2> QED
      BY <1>2, <2>1
  <1> QED
    BY <1>1, <1>3, <1>4, <1>5, <1>6 DEF VerifyStep

LEMMA Tab_Next ==
    ASSUME TypeOK, CodeInv, TabInv, AwaitInv, Next PROVE TabInv'
  <1>1. ASSUME NEW n \in Tokens, AccessExpires(n) PROVE TabInv'
    BY <1>1, TabWhenTyped DEF AccessExpires, memory, signin
  <1> QED
    BY <1>1, Tab_Server, Tab_Jobs, Tab_User, Tab_Codes, Zenon DEF Next

-----------------------------------------------------------------------------
(* A refresh that is awaited belongs to one request.                         *)

AwaitsOn == \A k \in Jobs : Awaits(k) => Awaits(k)'

LEMMA RefreshIs ==
    ASSUME TypeOK, NEW r \in refreshes
    PROVE  r \in RefreshRec /\ r.job \in Jobs \cup {Nobody} /\ r.tok \in Tokens
           /\ r.pc \in {"sent", "found", "revoked"}
  BY TypeParts DEF JobTypes, RefreshRec

LEMMA AwaitWhenSame ==
    ASSUME TypeOK, AwaitInv, refreshes' \subseteq refreshes, AwaitsOn PROVE AwaitInv'
  BY RefreshIs DEF AwaitInv, AwaitsOn

LEMMA AwaitWhenPosted ==
    ASSUME TypeOK, AwaitInv, NEW j \in Jobs, ~Awaits(j), Awaits(j)', NEW tok, Post(j, tok),
           \A k \in Jobs \ {j} : Awaits(k) => Awaits(k)'
    PROVE  AwaitInv'
  <1>1. PICK p : p = [job |-> j, tok |-> tok, pc |-> "sent"]
    OBVIOUS
  <1>2. p.job = j /\ refreshes' = refreshes \cup {p}
    BY <1>1 DEF Post
  <1>3. \A r \in refreshes : r.job # j
    BY JobIs DEF AwaitInv
  <1> QED
    BY <1>2, <1>3, RefreshIs DEF AwaitInv

LEMMA AwaitWhenAdvanced ==
    ASSUME TypeOK, AwaitInv, UNCHANGED jobs, NEW r \in refreshes, NEW p,
           refreshes' = (refreshes \ {r}) \cup {[r EXCEPT !.pc = p]}
    PROVE  AwaitInv'
  <1>1. PICK q : q = [r EXCEPT !.pc = p]
    OBVIOUS
  <1>2. q.job = r.job
    BY <1>1, RefreshIs DEF RefreshRec
  <1>3. \A k \in Jobs : Awaits(k)' <=> Awaits(k)
    BY DEF Awaits
  <1> QED
    BY <1>1, <1>2, <1>3, RefreshIs DEF AwaitInv

LEMMA AwaitWhenAnswered ==
    ASSUME TypeOK, AwaitInv, NEW r \in refreshes, NEW n \in 0..MaxTokens, Answer(r, n)
    PROVE  AwaitInv'
  <1>1. refreshes' = refreshes \ {r}
    BY AnswerIs, TypeParts
  <1>2. CASE r.job = Nobody
    <2>1. jobs' = jobs
      BY <1>2, AnswerIs, TypeParts
    <2> QED
      BY <1>1, <2>1, AwaitWhenSame DEF AwaitsOn, Awaits
  <1>3. CASE r.job # Nobody
    <2>1. r.job \in Jobs /\ \A k \in Jobs \ {r.job} : jobs'[k] = jobs[k]
      BY <1>3, AnswerMoves
    <2>2. \A s \in refreshes' : s \in refreshes /\ (s.job # Nobody => s.job # r.job)
      BY <1>1 DEF AwaitInv
    <2>3. \A k \in Jobs \ {r.job} : Awaits(k) => Awaits(k)'
      BY <2>1 DEF Awaits
    <2> QED
      BY <2>2, <2>3, RefreshIs DEF AwaitInv
  <1> QED
    BY <1>2, <1>3

LEMMA AwaitWhenReset ==
    ASSUME TypeOK, AwaitInv, NEW t \in Tabs, Reset(t, "loading") PROVE AwaitInv'
  <1>1. refreshes' = {Orphan(r, t) : r \in refreshes}
    BY ResetIs
  <1>2. ASSUME NEW s \in refreshes'
        PROVE  \E r \in refreshes : /\ s = Orphan(r, t)
                                    /\ s.job # Nobody => s.job = r.job /\ r.job \notin Of(t)
    <2>1. PICK r \in refreshes : s = Orphan(r, t)
      BY <1>1
    <2>2. s.job = IF r.job \in Of(t) THEN Nobody ELSE r.job
      BY <2>1, OrphanIs, RefreshIs
    <2> QED
      BY <2>1, <2>2
  <1>3. \A k \in Jobs : k \notin Of(t) => (Awaits(k) => Awaits(k)')
    <2>1. \A k \in Jobs : k \notin Of(t) => jobs'[k] = jobs[k]
      BY ResetIs
    <2> QED
      BY <2>1 DEF Awaits
  <1>4. ASSUME NEW s \in refreshes', s.job # Nobody PROVE Awaits(s.job)'
    <2>1. PICK r \in refreshes : s.job = r.job /\ r.job \notin Of(t)
      BY <1>2, <1>4
    <2>2. r.job \in Jobs /\ Awaits(r.job)
      BY <1>4, <2>1, RefreshIs DEF AwaitInv
    <2> QED
      BY <1>3, <2>1, <2>2
  <1>5. ASSUME NEW s \in refreshes', NEW q \in refreshes', s.job = q.job, s.job # Nobody PROVE s = q
    <2>1. PICK r \in refreshes : s = Orphan(r, t) /\ s.job = r.job
      BY <1>2, <1>5
    <2>2. PICK p \in refreshes : q = Orphan(p, t) /\ q.job = p.job
      BY <1>2, <1>5
    <2>3. r = p
      BY <1>5, <2>1, <2>2 DEF AwaitInv
    <2> QED
      BY <2>1, <2>2, <2>3
  <1> QED
    BY <1>4, <1>5 DEF AwaitInv

LEMMA AwaitWhenDropped ==
    ASSUME TypeOK, AwaitInv, NEW j \in Jobs, refreshes' = {Drop(r, j) : r \in refreshes},
           \A k \in Jobs \ {j} : Awaits(k) => Awaits(k)'
    PROVE  AwaitInv'
  <1>2. ASSUME NEW s \in refreshes'
        PROVE  \E r \in refreshes : s = Drop(r, j) /\ (s.job # Nobody => s.job = r.job /\ r.job # j)
    <2>1. PICK r \in refreshes : s = Drop(r, j)
      OBVIOUS
    <2>2. s.job = IF r.job = j THEN Nobody ELSE r.job
      BY <2>1, DropIs, RefreshIs
    <2> QED
      BY <2>1, <2>2
  <1>4. ASSUME NEW s \in refreshes', s.job # Nobody PROVE Awaits(s.job)'
    <2>1. PICK r \in refreshes : s.job = r.job /\ r.job # j
      BY <1>2, <1>4
    <2>2. r.job \in Jobs /\ Awaits(r.job)
      BY <1>4, <2>1, RefreshIs DEF AwaitInv
    <2> QED
      BY <2>1, <2>2
  <1>5. ASSUME NEW s \in refreshes', NEW q \in refreshes', s.job = q.job, s.job # Nobody PROVE s = q
    <2>1. PICK r \in refreshes : s = Drop(r, j) /\ s.job = r.job
      BY <1>2, <1>5
    <2>2. PICK p \in refreshes : q = Drop(p, j) /\ q.job = p.job
      BY <1>2, <1>5
    <2>3. r = p
      BY <1>5, <2>1, <2>2 DEF AwaitInv
    <2> QED
      BY <2>1, <2>2, <2>3
  <1> QED
    BY <1>4, <1>5 DEF AwaitInv

LEMMA RejectedAwaits ==
    ASSUME TypeOK, TabInv, NEW j \in Jobs, jobs[j].pc \in {"sent", "refused"}, Rejected(j)
    PROVE  \A k \in Jobs \ {j} : Awaits(k) => Awaits(k)'
  <1>1. j[1] \in Tabs /\ j = <<j[1], j[2]>> /\ jobs \in [Jobs -> JobRec]
    BY JobIs, TypeParts DEF JobTypes
  <1>2. CASE j[2] \in {"boot", "me"}
    <2> DEFINE b == <<j[1], "boot">>
               m == <<j[1], "me">>
    <2>1. jobs' = [jobs EXCEPT ![b] = IdleJob, ![m] = IdleJob]
      BY <1>2 DEF Rejected, HydrateFails
    <2>2. \A k \in Jobs : k # b /\ k # m => jobs'[k] = jobs[k]
      BY <1>1, <2>1
    <2>3. ASSUME NEW k \in Jobs \ {j}, k = b \/ k = m PROVE ~Awaits(k)
      BY <1>1, <1>2, <2>3, JobPage DEF Awaits
    <2> HIDE DEF b, m
    <2>4. ASSUME NEW k \in Jobs \ {j}, Awaits(k) PROVE Awaits(k)'
      BY <2>2, <2>3, <2>4 DEF Awaits
    <2> QED
      BY <2>4
  <1>3. CASE j[2] \notin {"boot", "me"}
    <2>1. \A k \in Jobs \ {j} : jobs'[k] = jobs[k]
      BY <1>1, <1>3 DEF Rejected
    <2> QED
      BY <2>1 DEF Awaits
  <1> QED
    BY <1>2, <1>3

LEMMA Await_Server ==
    ASSUME TypeOK, AwaitInv, NEW r \in refreshes, ServerStep(r) \/ DbFails(r) \/ Cancelled(r)
    PROVE  AwaitInv'
  <1>1. 0 \in 0..MaxTokens /\ Tokens \subseteq 0..MaxTokens
    BY Bounds
  <1>2. ASSUME ReadToken(r) PROVE AwaitInv'
    BY <1>1, <1>2, AwaitWhenAdvanced, AwaitWhenAnswered DEF ReadToken
  <1>3. ASSUME RevokeToken(r) PROVE AwaitInv'
    BY <1>3, AwaitWhenAdvanced DEF RevokeToken, memory
  <1>4. ASSUME IssuePair(r) PROVE AwaitInv'
    BY <1>1, <1>4, AwaitWhenAnswered DEF IssuePair
  <1>5. ASSUME DbFails(r) PROVE AwaitInv'
    BY <1>1, <1>5, AwaitWhenAnswered DEF DbFails
  <1>6. ASSUME Cancelled(r) PROVE AwaitInv'
    BY <1>6, AwaitWhenSame DEF Cancelled, memory, AwaitsOn, Awaits
  <1> QED
    BY <1>2, <1>3, <1>4, <1>5, <1>6 DEF ServerStep

LEMMA Await_Jobs ==
    ASSUME TypeOK, TabInv, AwaitInv, NEW j \in Jobs, JobStep(j) \/ Lost(j) PROVE AwaitInv'
  <1>0. /\ jobs \in [Jobs -> JobRec] /\ j[1] \in Tabs /\ j = <<j[1], j[2]>>
    BY JobIs, TypeParts DEF JobTypes
  <1>1. ASSUME ForceLogout(j[1]) PROVE AwaitInv'
    BY <1>0, <1>1, AwaitWhenReset DEF ForceLogout
  <1>2. ASSUME ~Awaits(j), \A k \in Jobs \ {j} : Awaits(k) => Awaits(k)', UNCHANGED refreshes PROVE AwaitInv'
    BY <1>2, AwaitWhenSame DEF AwaitsOn
  <1>3. ASSUME Serve(j) PROVE AwaitInv'
    <2>1. jobs[j].pc = "sent" /\ j[2] # "boot" /\ UNCHANGED refreshes
      BY <1>3 DEF Serve
    <2>2. ~Awaits(j)
      BY <2>1 DEF Awaits
    <2>3. CASE \A k \in Jobs \ {j} : jobs'[k] = jobs[k]
      BY <1>2, <2>1, <2>2, <2>3 DEF Awaits
    <2>4. CASE j[2] = "me" /\ jobs' = [jobs EXCEPT ![j] = IdleJob, ![<<j[1], "boot">>] = IdleJob]
      <3>1. jobs[<<j[1], "boot">>].pc = "idle"
        BY <2>1, <2>4, JobPage
      <3>2. ASSUME NEW k \in Jobs \ {j}, Awaits(k) PROVE Awaits(k)'
        <4>1. k # <<j[1], "boot">>
          BY <3>1, <3>2 DEF Awaits
        <4>2. jobs'[k] = jobs[k]
          BY <1>0, <2>4, <4>1
        <4> QED
          BY <3>2, <4>2 DEF Awaits
      <3> QED
        BY <1>2, <2>1, <2>2, <3>2
    <2> QED
      BY <1>0, <1>3, <2>3, <2>4 DEF Serve
  <1>4. ASSUME Refused(j) PROVE AwaitInv'
    <2>0. jobs[j].pc = "refused" /\ ~Awaits(j)
      BY <1>4 DEF Refused, Awaits
    <2>1. CASE Rejected(j) /\ UNCHANGED <<refreshing, refreshes, signin, shownBy>>
      BY <1>2, <2>0, <2>1, RejectedAwaits
    <2>2. CASE RefreshOrWait(j)
      <3>1. CASE jobs' = [jobs EXCEPT ![j].pc = "queued"] /\ UNCHANGED refreshes
        <4>1. \A k \in Jobs \ {j} : jobs'[k] = jobs[k]
          BY <1>0, <3>1
        <4> QED
          BY <1>2, <2>0, <3>1, <4>1 DEF Awaits
      <3>2. CASE /\ jobs' = [jobs EXCEPT ![j] = [jobs[j] EXCEPT !.pc = "refreshing", !.retried = TRUE]]
                 /\ Post(j, cookie)
        <4>1. PICK x : x = [jobs[j] EXCEPT !.pc = "refreshing", !.retried = TRUE]
          OBVIOUS
        <4>2. x.pc = "refreshing"
          BY <1>0, <4>1 DEF JobRec
        <4>3. jobs'[j] = x /\ \A k \in Jobs \ {j} : jobs'[k] = jobs[k]
          BY <1>0, <3>2, <4>1
        <4>4. Awaits(j)' /\ \A k \in Jobs \ {j} : Awaits(k) => Awaits(k)'
          BY <4>2, <4>3 DEF Awaits
        <4> QED
          BY <2>0, <3>2, <4>4, AwaitWhenPosted
      <3> QED
        BY <2>2, <3>1, <3>2 DEF RefreshOrWait
    <2> QED
      BY <1>1, <1>4, <2>1, <2>2 DEF Refused
  <1>5. ASSUME Renewed(j) PROVE AwaitInv'
    <2>1. jobs[j].pc = "renewed" /\ ~Awaits(j)
      BY <1>5, RenewedIs DEF Awaits
    <2>2. \A k \in Jobs : IF k \in Flushed(j[1]) \cup {j}
                          THEN jobs'[k].pc = "sent" /\ jobs'[k].body = jobs[k].body
                          ELSE jobs'[k] = jobs[k]
      BY <1>5, RenewedIs
    <2>3. ASSUME NEW k \in Jobs \ {j}, Awaits(k) PROVE Awaits(k)'
      <3>1. k \notin Flushed(j[1])
        BY <2>3 DEF Flushed, Awaits
      <3>2. jobs'[k] = jobs[k]
        BY <2>2, <3>1
      <3> QED
        BY <2>3, <3>2 DEF Awaits
    <2>4. CASE j[2] = "boot"
      <3>1. Awaits(j)' /\ Post(j, jobs[j].body)
        BY <1>5, <2>2, <2>4, RenewedIs DEF Awaits
      <3>2. PICK tok : tok = jobs[j].body
        OBVIOUS
      <3> QED
        BY <2>1, <2>3, <3>1, <3>2, AwaitWhenPosted
    <2>5. CASE j[2] # "boot"
      <3>1. UNCHANGED refreshes
        BY <1>5, <2>5, RenewedIs
      <3> QED
        BY <1>2, <2>1, <2>3, <3>1
    <2> QED
      BY <2>4, <2>5
  <1>6. ASSUME Denied(j) PROVE AwaitInv'
    BY <1>1, <1>6 DEF Denied
  <1>7. ASSUME Lost(j) PROVE AwaitInv'
    <2>1. CASE jobs[j].pc = "sent" /\ Rejected(j) /\ refreshes' = {Drop(r, j) : r \in refreshes}
      BY <2>1, RejectedAwaits, AwaitWhenDropped
    <2> QED
      BY <1>1, <1>7, <2>1, Zenon DEF Lost, Drop
  <1> QED
    BY <1>3, <1>4, <1>5, <1>6, <1>7 DEF JobStep

LEMMA Await_User ==
    ASSUME TypeOK, TabInv, AwaitInv, NEW t \in Tabs,
           \/ Load(t) \/ Logout(t) \/ PageStep(t)
           \/ \E q \in Queries : StartQuery(t, q)
    PROVE  AwaitInv'
  <1>0. /\ jobs \in [Jobs -> JobRec] /\ PageFits(t) /\ <<t, "boot">> \in Jobs /\ <<t, "me">> \in Jobs
        /\ <<t, "boot">> # <<t, "me">>
    BY TypeParts DEF JobTypes, TabInv, Jobs
  <1>1. ASSUME Load(t) PROVE AwaitInv'
    BY <1>1, AwaitWhenReset DEF Load
  <1>2. ASSUME Hydrate(t) PROVE AwaitInv'
    <2>1. CASE jobs' = jobs /\ refreshes' = refreshes
      BY <2>1, AwaitWhenSame DEF AwaitsOn, Awaits
    <2>2. CASE cookie # 0 /\ jobs' = [jobs EXCEPT ![<<t, "boot">>] = Sent(0, cookie)] /\ Post(<<t, "boot">>, cookie)
      <3>1. PICK x : x = Sent(0, cookie)
        OBVIOUS
      <3>2. x.pc = "sent"
        BY <3>1, SentIs, TypeParts, Bounds DEF JobTypes
      <3>3. PICK j \in Jobs : j = <<t, "boot">>
        BY <1>0
      <3>4. jobs'[j] = x /\ (\A k \in Jobs \ {j} : jobs'[k] = jobs[k]) /\ j[2] = "boot" /\ Post(j, cookie)
        BY <1>0, <2>2, <3>1, <3>3
      <3>5. ~Awaits(j)
        BY <1>0, <1>2, <3>3 DEF Hydrate, PageFits, Awaits, Boot
      <3>6. Awaits(j)' /\ \A k \in Jobs \ {j} : Awaits(k) => Awaits(k)'
        BY <3>2, <3>4 DEF Awaits
      <3> QED
        BY <3>4, <3>5, <3>6, AwaitWhenPosted
    <2> QED
      BY <1>2, <2>1, <2>2 DEF Hydrate
  <1>3. ASSUME NEW j \in Jobs, jobs[j].pc = "idle" \/ ~Awaits(j),
               \A k \in Jobs \ {j} : jobs'[k] = jobs[k], UNCHANGED refreshes
        PROVE  AwaitInv'
    BY <1>3, AwaitWhenSame DEF AwaitsOn, Awaits
  <1>4. ASSUME Hydrated(t) PROVE AwaitInv'
    <2>1. Boot(t).pc = "answered" /\ Me(t).pc = "idle" /\ UNCHANGED refreshes
      BY <1>0, <1>4 DEF Hydrated, PageFits, Boot, Me
    <2>2. ASSUME NEW k \in Jobs, Awaits(k) PROVE Awaits(k)'
      <3>1. k # <<t, "boot">> /\ k # <<t, "me">>
        BY <2>1, <2>2 DEF Awaits, Boot, Me
      <3>2. jobs'[k] = jobs[k]
        BY <1>0, <1>4, <3>1 DEF Hydrated
      <3> QED
        BY <2>2, <3>2 DEF Awaits
    <2> QED
      BY <2>1, <2>2, AwaitWhenSame DEF AwaitsOn
  <1>5. ASSUME Logout(t) \/ LoggedOut(t) PROVE AwaitInv'
    <2>1. PICK j \in Jobs : j = <<t, "logout">>
      BY DEF Jobs
    <2>2. ~Awaits(j) /\ UNCHANGED refreshes
      BY <1>5, <2>1 DEF Awaits, Logout, LoggedOut
    <2>3. \A k \in Jobs \ {j} : jobs'[k] = jobs[k]
      BY <1>0, <1>5, <2>1 DEF Logout, LoggedOut
    <2> QED
      BY <1>3, <2>2, <2>3
  <1>6. ASSUME NEW q \in Queries, StartQuery(t, q) PROVE AwaitInv'
    <2>1. PICK j \in Jobs : j = <<t, q>>
      BY DEF Jobs
    <2>2. ~Awaits(j) /\ UNCHANGED refreshes
      BY <1>6, <2>1 DEF Awaits, StartQuery
    <2>3. \A k \in Jobs \ {j} : jobs'[k] = jobs[k]
      BY <1>0, <1>6, <2>1 DEF StartQuery
    <2> QED
      BY <1>3, <2>2, <2>3
  <1> QED
    BY <1>1, <1>2, <1>4, <1>5, <1>6 DEF PageStep

LEMMA Await_Next ==
    ASSUME TypeOK, TabInv, AwaitInv, Next PROVE AwaitInv'
  <1>1. ASSUME UNCHANGED <<jobs, refreshes>> PROVE AwaitInv'
    BY <1>1, AwaitWhenSame DEF AwaitsOn, Awaits
  <1>2. ASSUME NEW t \in Tabs, CodeStep(t) \/ VerifyStep(t) \/ VerifyLost(t) \/ AskForCode(t) PROVE AwaitInv'
    BY <1>1, <1>2, Zenon DEF CodeStep, VerifyStep, InvalidateCodes, CreateCode, FindCode, CountAttempt,
       CompareCode, SignedIn, VerifyLost, AskForCode, memory
  <1>3. ASSUME NEW t \in Tabs, NEW x \in 0..MaxCodes, TypeCode(t, x) PROVE AwaitInv'
    BY <1>1, <1>3, Zenon DEF TypeCode, memory
  <1>4. ASSUME NEW n \in Tokens, AccessExpires(n) PROVE AwaitInv'
    BY <1>1, <1>4 DEF AccessExpires, memory
  <1> QED
    BY <1>2, <1>3, <1>4, Await_Server, Await_Jobs, Await_User, Zenon DEF Next

-----------------------------------------------------------------------------
(* An answer that is not stored yet is a token nobody else has.              *)

IssuedStays == \A i \in Tokens : rt[i] # "none" => rt'[i] # "none"

HoldsLess == \A k \in Jobs : Holds(k)' => Holds(k) /\ jobs'[k].got = jobs[k].got

LEMMA Hand_Init == Init => HandInv
  <1> SUFFICES ASSUME Init PROVE HandInv
    OBVIOUS
  <1>1. \A j \in Jobs : ~Holds(j)
    BY IdleIs DEF Init, Holds
  <1>2. cookie # 0 => rt[cookie] # "none"
    BY Bounds DEF Init, Tokens
  <1> QED
    BY <1>1, <1>2 DEF HandInv

LEMMA GotIs ==
    ASSUME TypeOK, HandInv, NEW j \in Jobs, Holds(j)
    PROVE  jobs[j].got \in Tokens /\ rt[jobs[j].got] # "none" /\ jobs[j].got # cookie
  BY TypeParts, Bounds DEF HandInv, JobTypes, JobRec

LEMMA HandWhenLess ==
    ASSUME TypeOK, HandInv, IssuedStays, cookie' \in {cookie, 0}, HoldsLess PROVE HandInv'
  <1>1. cookie' # 0 => cookie' \in Tokens /\ rt[cookie'] # "none"
    BY TypeParts, CookieIs DEF HandInv
  <1>2. \A j \in Jobs : Holds(j)' =>
           /\ Holds(j) /\ jobs'[j].got = jobs[j].got /\ jobs'[j].got \in Tokens
           /\ rt[jobs'[j].got] # "none" /\ jobs'[j].got # cookie
    BY GotIs DEF HoldsLess
  <1>3. \A j \in Jobs : Holds(j)' => jobs'[j].got # 0 /\ rt'[jobs'[j].got] # "none" /\ jobs'[j].got # cookie'
    BY <1>2, Bounds DEF IssuedStays
  <1>4. \A j, k \in Jobs : Holds(j)' /\ Holds(k)' /\ jobs'[j].got = jobs'[k].got => j = k
    BY <1>2 DEF HandInv
  <1>5. cookie' # 0 => rt'[cookie'] # "none"
    BY <1>1 DEF IssuedStays
  <1> QED
    BY <1>3, <1>4, <1>5 DEF HandInv

LEMMA IssueStays ==
    ASSUME TypeOK, NEW n, Issue(n)
    PROVE  IssuedStays /\ n \in Tokens /\ n # 0 /\ rt[n] = "none" /\ rt'[n] = "live"
           /\ \A i \in Tokens \ {n} : rt'[i] = rt[i]
  BY TypeParts, Bounds DEF Issue, IssuedStays, ServerTypes

LEMMA HandWhenIssued ==
    ASSUME TypeOK, TypeOK', AwaitInv, HandInv, NEW r \in refreshes, NEW n \in Tokens, Issue(n), Answer(r, n),
           UNCHANGED cookie
    PROVE  HandInv'
  <1>1. IssuedStays /\ n \in Tokens /\ n # 0 /\ rt[n] = "none" /\ rt'[n] # "none" /\ n \in 0..MaxTokens
    BY IssueStays, Bounds
  <1>2. CASE r.job = Nobody
    <2>1. jobs' = jobs
      BY <1>1, <1>2, AnswerIs, TypeParts
    <2> QED
      BY <1>1, <2>1, HandWhenLess DEF HoldsLess, Holds
  <1>3. CASE r.job # Nobody
    <2>1. /\ r.job \in Jobs /\ \A k \in Jobs \ {r.job} : jobs'[k] = jobs[k]
          /\ jobs'[r.job].got = n
      BY <1>1, <1>3, AnswerMoves
    <2>2. ASSUME NEW k \in Jobs, Holds(k)'
          PROVE  \/ k = r.job /\ jobs'[k].got = n
                 \/ /\ k # r.job /\ Holds(k) /\ jobs'[k].got = jobs[k].got /\ jobs[k].got \in Tokens
                    /\ rt[jobs[k].got] # "none" /\ jobs[k].got # cookie /\ jobs[k].got # n
      BY <1>1, <2>1, <2>2, GotIs DEF Holds
    <2>3. cookie # 0 => cookie \in Tokens /\ rt[cookie] # "none" /\ cookie # n
      BY <1>1, CookieIs, TypeParts DEF HandInv
    <2>4. ASSUME NEW k \in Jobs, Holds(k)'
          PROVE  jobs'[k].got # 0 /\ rt'[jobs'[k].got] # "none" /\ jobs'[k].got # cookie'
      BY <1>1, <2>2, <2>3, <2>4, Bounds DEF IssuedStays
    <2>5. ASSUME NEW j \in Jobs, NEW k \in Jobs, Holds(j)', Holds(k)', jobs'[j].got = jobs'[k].got PROVE j = k
      BY <2>2, <2>5 DEF HandInv
    <2>6. cookie' # 0 => rt'[cookie'] # "none"
      BY <1>1, <2>3 DEF IssuedStays
    <2> QED
      BY <2>4, <2>5, <2>6 DEF HandInv
  <1> QED
    BY <1>2, <1>3

LEMMA HandWhenStored ==
    ASSUME TypeOK, HandInv, NEW j \in Jobs, Holds(j), cookie' = jobs[j].got, rt' = rt,
           ~Holds(j)', HoldsLess
    PROVE  HandInv'
  <1>1. \A k \in Jobs : Holds(k)' =>
           /\ k # j /\ Holds(k) /\ jobs'[k].got = jobs[k].got /\ jobs'[k].got \in Tokens
           /\ rt[jobs'[k].got] # "none" /\ jobs'[k].got # cookie'
    BY GotIs DEF HandInv, HoldsLess
  <1>2. cookie' \in Tokens /\ rt[cookie'] # "none"
    BY GotIs
  <1> QED
    BY <1>1, <1>2, Bounds DEF HandInv, HoldsLess

LEMMA HandWhenSignedIn ==
    ASSUME TypeOK, HandInv, NEW n \in Tokens, Issue(n), cookie' = n, UNCHANGED jobs PROVE HandInv'
  <1>1. IssuedStays /\ n # 0 /\ rt[n] = "none" /\ rt'[n] # "none"
    BY IssueStays
  <1>2. \A k \in Jobs : Holds(k)' =>
           /\ Holds(k) /\ jobs'[k].got = jobs[k].got /\ jobs'[k].got \in Tokens
           /\ rt[jobs'[k].got] # "none" /\ jobs'[k].got # n
    BY <1>1, GotIs DEF Holds
  <1>3. \A k \in Jobs : Holds(k)' => jobs'[k].got # 0 /\ rt'[jobs'[k].got] # "none" /\ jobs'[k].got # cookie'
    BY <1>1, <1>2, Bounds DEF IssuedStays
  <1>4. \A j, k \in Jobs : Holds(j)' /\ Holds(k)' /\ jobs'[j].got = jobs'[k].got => j = k
    BY <1>2 DEF HandInv
  <1> QED
    BY <1>1, <1>3, <1>4 DEF HandInv

\* Which answers a step leaves unstored.
LEMMA ResetHolds ==
    ASSUME TypeOK, NEW t \in Tabs, Reset(t, "loading") PROVE HoldsLess
  <1>1. \A k \in Jobs : jobs'[k] = jobs[k] \/ jobs'[k] = IdleJob
    BY ResetIs
  <1> QED
    BY <1>1, IdleIs DEF HoldsLess, Holds

LEMMA RejectedHolds ==
    ASSUME TypeOK, NEW j \in Jobs, Rejected(j) PROVE HoldsLess /\ cookie' \in {cookie, 0}
  <1>0. jobs \in [Jobs -> JobRec]
    BY TypeParts DEF JobTypes
  <1>1. CASE j[2] \in {"boot", "me"}
    <2>1. /\ jobs' = [jobs EXCEPT ![<<j[1], "boot">>] = IdleJob, ![<<j[1], "me">>] = IdleJob]
          /\ cookie' = 0
      BY <1>1 DEF Rejected, HydrateFails
    <2>2. \A k \in Jobs : jobs'[k] = jobs[k] \/ jobs'[k] = IdleJob
      BY <1>0, <2>1
    <2> QED
      BY <2>1, <2>2, IdleIs DEF HoldsLess, Holds
  <1>2. CASE j[2] \notin {"boot", "me"}
    <2>1. /\ jobs' = [jobs EXCEPT ![j] = IF j[2] = "logout" THEN DoneJob ELSE IdleJob]
          /\ cookie' = cookie
      BY <1>2 DEF Rejected, DoneJob
    <2>2. \A k \in Jobs : jobs'[k] = jobs[k] \/ jobs'[k] = IdleJob \/ jobs'[k] = DoneJob
      BY <1>0, <2>1
    <2> QED
      BY <2>1, <2>2, IdleIs, DoneIs DEF HoldsLess, Holds
  <1> QED
    BY <1>1, <1>2

LEMMA ServeHolds ==
    ASSUME TypeOK, NEW j \in Jobs, Serve(j) PROVE HoldsLess
  <1>0. jobs \in [Jobs -> JobRec]
    BY TypeParts DEF JobTypes
  <1>1. \A k \in Jobs : jobs'[k] = jobs[k] \/ jobs'[k] = IdleJob \/ jobs'[k].pc \in {"refused", "done"}
    BY <1>0 DEF Serve, JobRec
  <1> QED
    BY <1>1, IdleIs DEF HoldsLess, Holds

LEMMA RefusedHolds ==
    ASSUME TypeOK, AwaitInv, NEW r \in refreshes, Answer(r, 0) PROVE HoldsLess
  <1>1. 0 \in 0..MaxTokens
    BY Bounds
  <1>2. CASE r.job = Nobody
    <2>1. jobs' = jobs
      BY <1>1, <1>2, AnswerIs, TypeParts
    <2> QED
      BY <2>1 DEF HoldsLess, Holds
  <1>3. CASE r.job # Nobody
    <2>1. /\ r.job \in Jobs /\ Awaits(r.job) /\ \A k \in Jobs \ {r.job} : jobs'[k] = jobs[k]
          /\ jobs[r.job].pc = "refreshing" => jobs'[r.job].pc = "denied"
          /\ jobs[r.job].pc = "sent" => jobs'[r.job].pc = "refused"
      BY <1>1, <1>3, AnswerMoves
    <2> QED
      BY <2>1 DEF HoldsLess, Holds, Awaits
  <1> QED
    BY <1>2, <1>3

LEMMA RenewedHolds ==
    ASSUME TypeOK, NEW j \in Jobs, Renewed(j) PROVE HoldsLess /\ Holds(j) /\ ~Holds(j)'
  <1>1. \A k \in Jobs : IF k \in Flushed(j[1]) \cup {j}
                        THEN jobs'[k].pc = "sent" /\ jobs'[k].body = jobs[k].body
                        ELSE jobs'[k] = jobs[k]
    BY RenewedIs
  <1>2. jobs[j].pc = "renewed"
    BY RenewedIs
  <1> QED
    BY <1>1, <1>2 DEF HoldsLess, Holds

\* A refused request waits for the tab's refresh, or begins it.
LEMMA WaitsIs ==
    ASSUME TypeOK, NEW j \in Jobs, RefreshOrWait(j)
    PROVE  /\ \A k \in Jobs \ {j} : jobs'[k] = jobs[k]
           /\ jobs'[j].body = jobs[j].body
           /\ \/ /\ refreshing[j[1]] # Nobody /\ jobs'[j].pc = "queued"
                 /\ UNCHANGED <<refreshing, refreshes, shownBy>>
              \/ /\ refreshing[j[1]] = Nobody /\ jobs'[j].pc = "refreshing"
                 /\ refreshing' = [refreshing EXCEPT ![j[1]] = j] /\ Post(j, cookie)
  <1>0. jobs \in [Jobs -> JobRec]
    BY TypeParts DEF JobTypes
  <1>1. CASE /\ refreshing[j[1]] # Nobody /\ jobs' = [jobs EXCEPT ![j].pc = "queued"]
             /\ UNCHANGED <<refreshing, refreshes, shownBy>>
    <2>1. jobs'[j].pc = "queued" /\ jobs'[j].body = jobs[j].body /\ \A k \in Jobs \ {j} : jobs'[k] = jobs[k]
      BY <1>0, <1>1 DEF JobRec
    <2> QED
      BY <1>1, <2>1
  <1>2. CASE /\ refreshing[j[1]] = Nobody /\ refreshing' = [refreshing EXCEPT ![j[1]] = j]
             /\ jobs' = [jobs EXCEPT ![j] = [jobs[j] EXCEPT !.pc = "refreshing", !.retried = TRUE]]
             /\ Post(j, cookie)
    <2>1. PICK x : x = [jobs[j] EXCEPT !.pc = "refreshing", !.retried = TRUE]
      OBVIOUS
    <2>2. x.pc = "refreshing" /\ x.body = jobs[j].body
      BY <1>0, <2>1 DEF JobRec
    <2>3. jobs'[j] = x /\ \A k \in Jobs \ {j} : jobs'[k] = jobs[k]
      BY <1>0, <1>2, <2>1
    <2> QED
      BY <1>2, <2>2, <2>3
  <1> QED
    BY <1>1, <1>2 DEF RefreshOrWait

LEMMA HydratedIs ==
    ASSUME TypeOK, NEW t \in Tabs, Hydrated(t)
    PROVE  /\ Boot(t).pc = "answered" /\ cookie' = Boot(t).got
           /\ <<t, "boot">> \in Jobs /\ <<t, "me">> \in Jobs
           /\ Boot(t)'.pc = "idle" /\ Me(t)'.pc = "sent"
           /\ \A k \in Jobs : k # <<t, "boot">> /\ k # <<t, "me">> => jobs'[k] = jobs[k]
           /\ UNCHANGED <<server, refreshes, page, refreshing, signin, shownBy, alarm, bounds>>
  <1>0. /\ jobs \in [Jobs -> JobRec] /\ <<t, "boot">> \in Jobs /\ <<t, "me">> \in Jobs
        /\ <<t, "boot">> # <<t, "me">>
    BY TypeParts DEF JobTypes, Jobs
  <1>1. PICK n : n = jobs[<<t, "boot">>].got
    OBVIOUS
  <1>2. n \in 0..MaxTokens
    BY <1>0, <1>1 DEF JobRec
  <1>3. PICK x, y : x = [IdleJob EXCEPT !.got = n] /\ y = Sent(n, 0)
    OBVIOUS
  <1>4. x.pc = "idle" /\ y.pc = "sent"
    BY <1>2, <1>3, SentIs, IdleIs, Bounds DEF JobRec
  <1>5. /\ jobs[<<t, "boot">>].pc = "answered" /\ cookie' = n
        /\ jobs' = [jobs EXCEPT ![<<t, "boot">>] = x, ![<<t, "me">>] = y]
        /\ UNCHANGED <<server, refreshes, page, refreshing, signin, shownBy, alarm, bounds>>
    BY <1>1, <1>3 DEF Hydrated, CookieSet
  <1>6. jobs'[<<t, "boot">>] = x /\ jobs'[<<t, "me">>] = y
    BY <1>0, <1>5
  <1>7. \A k \in Jobs : k # <<t, "boot">> /\ k # <<t, "me">> => jobs'[k] = jobs[k]
    BY <1>0, <1>5
  <1> QED
    BY <1>0, <1>1, <1>4, <1>5, <1>6, <1>7 DEF Boot, Me

LEMMA Hand_Next ==
    ASSUME TypeOK, TypeOK', AwaitInv, HandInv, Next PROVE HandInv'
  <1>0. /\ jobs \in [Jobs -> JobRec] /\ rt \in [Tokens -> {"none", "live", "revoked"}]
        /\ 0 \in 0..MaxTokens
    BY TypeParts, Bounds DEF JobTypes, ServerTypes
  <1>1. UNCHANGED rt => IssuedStays
    BY DEF IssuedStays
  <1>2. UNCHANGED jobs => HoldsLess
    BY DEF HoldsLess, Holds
  <1>3. ASSUME NEW t \in Tabs, ForceLogout(t), UNCHANGED server PROVE HandInv'
    BY <1>1, <1>3, ResetHolds, HandWhenLess DEF ForceLogout, server
  <1>4. ASSUME NEW r \in refreshes, ServerStep(r) \/ DbFails(r) \/ Cancelled(r) PROVE HandInv'
    <2>1. CASE ReadToken(r)
      <3>1. IssuedStays
        BY <1>0, <1>1, <2>1 DEF ReadToken, IssuedStays, RevokeAll
      <3> QED
        BY <1>2, <2>1, <3>1, RefusedHolds, HandWhenLess DEF ReadToken
    <2>2. CASE RevokeToken(r)
      <3>1. IssuedStays /\ UNCHANGED <<cookie, jobs>>
        BY <1>0, <2>2 DEF RevokeToken, IssuedStays, memory
      <3> QED
        BY <1>2, <3>1, HandWhenLess
    <2>3. CASE IssuePair(r)
      BY <2>3, HandWhenIssued DEF IssuePair
    <2>4. CASE DbFails(r)
      BY <1>1, <2>4, RefusedHolds, HandWhenLess DEF DbFails, server
    <2>5. CASE Cancelled(r)
      BY <1>1, <1>2, <2>5, HandWhenLess DEF Cancelled, server, memory
    <2> QED
      BY <1>4, <2>1, <2>2, <2>3, <2>4, <2>5 DEF ServerStep
  <1>5. ASSUME NEW j \in Jobs, JobStep(j) \/ Lost(j) PROVE HandInv'
    <2>0. j[1] \in Tabs
      BY JobIs
    <2>1. CASE Serve(j)
      <3>1. IssuedStays /\ cookie' = cookie
        BY <1>0, <2>1 DEF Serve, IssuedStays
      <3> QED
        BY <2>1, <3>1, ServeHolds, HandWhenLess
    <2>2. CASE Refused(j)
      <3>1. CASE Rejected(j)
        BY <1>1, <2>2, <3>1, RejectedHolds, HandWhenLess DEF Refused, server
      <3>2. CASE RefreshOrWait(j) /\ UNCHANGED cookie
        <4>3. \A k \in Jobs : jobs'[k] = jobs[k] \/ jobs'[k].pc \in {"queued", "refreshing"}
          BY <3>2, WaitsIs
        <4>4. HoldsLess
          BY <4>3 DEF HoldsLess, Holds
        <4> QED
          BY <1>1, <2>2, <3>2, <4>4, HandWhenLess DEF Refused, server
      <3> QED
        BY <1>3, <2>0, <2>2, <3>1, <3>2 DEF Refused
    <2>3. CASE Renewed(j)
      <3>1. Holds(j) /\ ~Holds(j)' /\ HoldsLess
        BY <2>3, RenewedHolds
      <3>2. cookie' = jobs[j].got /\ rt' = rt
        BY <2>3, RenewedIs DEF server
      <3> QED
        BY <3>1, <3>2, HandWhenStored
    <2>4. CASE Denied(j)
      BY <1>3, <2>0, <2>4 DEF Denied
    <2>5. CASE Lost(j)
      <3>1. UNCHANGED server /\ (ForceLogout(j[1]) \/ Rejected(j))
        BY <2>5, Zenon DEF Lost
      <3>2. rt' = rt
        BY <3>1 DEF server
      <3>3. ASSUME Rejected(j) PROVE HandInv'
        BY <1>1, <3>2, <3>3, RejectedHolds, HandWhenLess
      <3> QED
        BY <1>3, <2>0, <3>1, <3>3
    <2> QED
      BY <1>5, <2>1, <2>2, <2>3, <2>4, <2>5 DEF JobStep
  <1>6. ASSUME NEW t \in Tabs, Load(t) PROVE HandInv'
    BY <1>1, <1>6, ResetHolds, HandWhenLess DEF Load, server
  <1>7. ASSUME NEW t \in Tabs, PageStep(t) PROVE HandInv'
    <2>1. CASE Hydrate(t)
      <3>1. PICK x : x = Sent(0, cookie)
        OBVIOUS
      <3>2. x.pc = "sent"
        BY <1>0, <3>1, SentIs, TypeParts DEF JobTypes
      <3>3. \A k \in Jobs : jobs'[k] = jobs[k] \/ jobs'[k].pc = "sent"
        BY <1>0, <2>1, <3>1, <3>2 DEF Hydrate
      <3>4. HoldsLess
        BY <3>3 DEF HoldsLess, Holds
      <3> QED
        BY <1>1, <2>1, <3>4, HandWhenLess DEF Hydrate, server
    <2>2. CASE Hydrated(t)
      <3>1. PICK j \in Jobs : j = <<t, "boot">>
        BY DEF Jobs
      <3>2. Holds(j) /\ ~Holds(j)' /\ cookie' = jobs[j].got /\ rt' = rt
        BY <2>2, <3>1, HydratedIs DEF Holds, Boot, server
      <3>3. HoldsLess
        BY <2>2, HydratedIs DEF HoldsLess, Holds, Boot, Me
      <3> QED
        BY <3>2, <3>3, HandWhenStored
    <2>3. CASE LoggedOut(t)
      <3>1. \A k \in Jobs : jobs'[k] = jobs[k] \/ jobs'[k] = IdleJob
        BY <1>0, <2>3 DEF LoggedOut
      <3>2. HoldsLess
        BY <3>1, IdleIs DEF HoldsLess, Holds
      <3> QED
        BY <1>1, <2>3, <3>2, HandWhenLess DEF LoggedOut, server
    <2> QED
      BY <1>7, <2>1, <2>2, <2>3 DEF PageStep
  <1>8. ASSUME NEW t \in Tabs, SignedIn(t) PROVE HandInv'
    BY <1>8, HandWhenSignedIn DEF SignedIn, CookieSet
  <1>9. ASSUME NEW t \in Tabs, Logout(t) \/ \E q \in Queries : StartQuery(t, q) PROVE HandInv'
    <2>1. PICK x, y : x = (IF cookie = 0 THEN DoneJob ELSE Sent(mem[t], cookie)) /\ y = Sent(mem[t], 0)
      OBVIOUS
    <2>2. x.pc \in {"sent", "done"} /\ y.pc = "sent"
      BY <1>0, <2>1, SentIs, DoneIs, TypeParts DEF JobTypes, TabTypes
    <2>3. \A k \in Jobs : jobs'[k] = jobs[k] \/ jobs'[k].pc \in {"sent", "done"}
      BY <1>0, <1>9, <2>1, <2>2 DEF Logout, StartQuery, DoneJob
    <2>4. HoldsLess
      BY <2>3 DEF HoldsLess, Holds
    <2> QED
      BY <1>1, <1>9, <2>4, HandWhenLess DEF Logout, StartQuery, server
  <1>10. ASSUME UNCHANGED <<rt, jobs, cookie>> PROVE HandInv'
    BY <1>1, <1>2, <1>10, HandWhenLess
  <1>11. ASSUME NEW t \in Tabs, \/ AskForCode(t) \/ CodeStep(t) \/ FindCode(t) \/ CountAttempt(t) \/ CompareCode(t)
                               \/ VerifyLost(t) \/ \E x \in 0..MaxCodes : TypeCode(t, x)
         PROVE  HandInv'
    BY <1>10, <1>11, Zenon DEF AskForCode, CodeStep, InvalidateCodes, CreateCode, FindCode, CountAttempt,
       CompareCode, VerifyLost, TypeCode, server, memory
  <1>12. ASSUME NEW n \in Tokens, AccessExpires(n) PROVE HandInv'
    BY <1>10, <1>12 DEF AccessExpires, memory
  <1> QED
    BY <1>4, <1>5, <1>6, <1>7, <1>8, <1>9, <1>11, <1>12, Zenon DEF Next, VerifyStep

-----------------------------------------------------------------------------
(* One page never looks like theft: what each kind of step does to the       *)
(* tokens, as long as nothing has happened.                                  *)

\* The requests for a refresh that remain are some of those there were.
RefreshesKept ==
    \A p, q \in refreshes' : \E r, s \in refreshes :
        /\ p.tok = r.tok /\ p.pc = r.pc /\ q.tok = s.tok /\ q.pc = s.pc
        /\ r = s => p = q

ShownKept == \A i \in Tokens : (shownBy'[i] = {} <=> shownBy[i] = {}) /\ (Alone(i)' <=> Alone(i))

LEMMA FewerKept == ASSUME refreshes' \subseteq refreshes PROVE RefreshesKept
  BY DEF RefreshesKept

LEMMA SameShownKept == ASSUME UNCHANGED shownBy PROVE ShownKept
  BY DEF ShownKept, Alone

LEMMA OrphansKept ==
    ASSUME TypeOK, NEW t, refreshes' = {Orphan(r, t) : r \in refreshes} PROVE RefreshesKept
  <1> SUFFICES ASSUME NEW p \in refreshes', NEW q \in refreshes'
               PROVE  \E r, s \in refreshes : /\ p.tok = r.tok /\ p.pc = r.pc /\ q.tok = s.tok /\ q.pc = s.pc
                                              /\ r = s => p = q
    BY DEF RefreshesKept
  <1>1. PICK r \in refreshes, s \in refreshes : p = Orphan(r, t) /\ q = Orphan(s, t)
    OBVIOUS
  <1>2. p.tok = r.tok /\ p.pc = r.pc /\ q.tok = s.tok /\ q.pc = s.pc
    BY <1>1, RefreshIs, OrphanIs
  <1> QED
    BY <1>1, <1>2

LEMMA DroppedKept ==
    ASSUME TypeOK, NEW j, refreshes' = {Drop(r, j) : r \in refreshes} PROVE RefreshesKept
  <1> SUFFICES ASSUME NEW p \in refreshes', NEW q \in refreshes'
               PROVE  \E r, s \in refreshes : /\ p.tok = r.tok /\ p.pc = r.pc /\ q.tok = s.tok /\ q.pc = s.pc
                                              /\ r = s => p = q
    BY DEF RefreshesKept
  <1>1. PICK r \in refreshes, s \in refreshes : p = Drop(r, j) /\ q = Drop(s, j)
    OBVIOUS
  <1>2. p.tok = r.tok /\ p.pc = r.pc /\ q.tok = s.tok /\ q.pc = s.pc
    BY <1>1, RefreshIs, DropIs
  <1> QED
    BY <1>1, <1>2

LEMMA TokensWhenKept ==
    ASSUME TokensQuiet, UNCHANGED rt, RefreshesKept, ShownKept PROVE TokensQuiet'
  <1> SUFFICES ASSUME NEW i \in Tokens PROVE TokenFits(i)'
    BY DEF TokensQuiet
  <1>1. TokenFits(i) /\ (shownBy'[i] = {} <=> shownBy[i] = {}) /\ (Alone(i)' <=> Alone(i))
    BY DEF TokensQuiet, ShownKept
  <1>2. \A r \in refreshes' : r.tok = i => shownBy'[i] # {}
    BY <1>1 DEF TokenFits, RefreshesKept
  <1>3. ASSUME Alone(i)', NEW r \in refreshes', r.tok = i, rt'[i] = "revoked" PROVE r.pc = "revoked"
    BY <1>1, <1>3 DEF TokenFits, RefreshesKept
  <1>4. ASSUME Alone(i)', NEW r \in refreshes', NEW s \in refreshes', r.tok = i, s.tok = i PROVE r = s
    BY <1>1, <1>4 DEF TokenFits, RefreshesKept
  <1> QED
    BY <1>1, <1>2, <1>3, <1>4 DEF TokenFits

\* A request is found, or its token revoked.
LEMMA TokensWhenAdvanced ==
    ASSUME TypeOK, TokensQuiet, NEW r \in refreshes, NEW q,
           q.tok = r.tok, refreshes' = (refreshes \ {r}) \cup {q}, UNCHANGED shownBy,
           \A i \in Tokens \ {r.tok} : rt'[i] = rt[i],
           \/ UNCHANGED rt /\ rt[r.tok] = "live"
           \/ rt'[r.tok] = "revoked" /\ q.pc = "revoked"
    PROVE  TokensQuiet'
  <1> SUFFICES ASSUME NEW i \in Tokens PROVE TokenFits(i)'
    BY DEF TokensQuiet
  <1>1. TokenFits(i) /\ (Alone(i)' <=> Alone(i))
    BY DEF TokensQuiet, Alone
  <1>2. CASE i # r.tok
    BY <1>1, <1>2 DEF TokenFits
  <1>3. CASE i = r.tok
    <2>1. shownBy[i] # {} /\ shownBy'[i] # {}
      BY <1>1, <1>3 DEF TokenFits
    <2>2. ASSUME Alone(i)', NEW p \in refreshes', p.tok = i PROVE p = q
      BY <1>1, <1>3, <2>2 DEF TokenFits
    <2> QED
      BY <1>1, <1>3, <2>1, <2>2 DEF TokenFits
  <1> QED
    BY <1>2, <1>3

\* A new pair.
LEMMA TokensWhenIssued ==
    ASSUME TypeOK, TokensQuiet, NEW n, Issue(n), RefreshesKept, UNCHANGED shownBy
    PROVE  TokensQuiet' /\ shownBy'[n] = {}
  <1>1. n \in Tokens /\ rt[n] = "none" /\ rt'[n] = "live" /\ \A i \in Tokens \ {n} : rt'[i] = rt[i]
    BY IssueStays
  <1>2. shownBy[n] = {}
    BY <1>1 DEF TokensQuiet, TokenFits
  <1>3. ASSUME NEW i \in Tokens PROVE TokenFits(i)'
    <2>1. TokenFits(i) /\ (Alone(i)' <=> Alone(i))
      BY DEF TokensQuiet, Alone
    <2>2. \A r \in refreshes' : r.tok = i => shownBy'[i] # {}
      BY <2>1 DEF TokenFits, RefreshesKept
    <2>3. ASSUME Alone(i)', NEW r \in refreshes', r.tok = i, rt'[i] = "revoked" PROVE r.pc = "revoked"
      BY <1>1, <2>1, <2>3 DEF TokenFits, RefreshesKept
    <2>4. ASSUME Alone(i)', NEW r \in refreshes', NEW s \in refreshes', r.tok = i, s.tok = i PROVE r = s
      BY <2>1, <2>4 DEF TokenFits, RefreshesKept
    <2>5. rt'[i] = "none" => shownBy'[i] = {}
      BY <1>1, <1>2, <2>1 DEF TokenFits
    <2>6. rt'[i] = "revoked" => shownBy'[i] # {}
      BY <1>1, <2>1 DEF TokenFits
    <2> QED
      BY <2>2, <2>3, <2>4, <2>5, <2>6 DEF TokenFits
  <1> QED
    BY <1>2, <1>3 DEF TokensQuiet

\* The server revokes a token that a log-out named.
LEMMA TokensWhenNamed ==
    ASSUME TypeOK, TokensQuiet, NEW b, b \in Tokens => ~Alone(b), rt' = [rt EXCEPT ![b] = "revoked"],
           UNCHANGED <<refreshes, shownBy>>
    PROVE  TokensQuiet'
  <1> SUFFICES ASSUME NEW i \in Tokens PROVE TokenFits(i)'
    BY DEF TokensQuiet
  <1>1. TokenFits(i) /\ (Alone(i)' <=> Alone(i)) /\ rt \in [Tokens -> {"none", "live", "revoked"}]
    BY TypeParts DEF TokensQuiet, Alone, ServerTypes
  <1>2. CASE i # b
    BY <1>1, <1>2 DEF TokenFits
  <1>3. CASE i = b
    <2>1. ~Alone(i) /\ shownBy[i] # {} /\ rt'[i] = "revoked"
      BY <1>1, <1>3 DEF Alone
    <2> QED
      BY <1>1, <2>1 DEF TokenFits
  <1> QED
    BY <1>2, <1>3

\* A page presents the token of the cookie, which no request of its own did.
LEMMA TokensWhenPosted ==
    ASSUME TypeOK, HandInv, TokensQuiet, alarm = "none", cookie # 0, NEW j \in Jobs, Post(j, cookie),
           shownBy[cookie] # {j[1]}, UNCHANGED rt
    PROVE  /\ TokensQuiet' /\ cookie \in Tokens
           /\ shownBy'[cookie] = shownBy[cookie] \cup {j[1]}
           /\ \A i \in Tokens \ {cookie} : shownBy'[i] = shownBy[i]
  <1>0. cookie \in Tokens /\ rt[cookie] # "none" /\ j[1] \in Tabs
    BY CookieIs, TypeParts, JobIs DEF HandInv
  <1>1. PICK p : p = [job |-> j, tok |-> cookie, pc |-> "sent"]
    OBVIOUS
  <1>2. p.tok = cookie /\ refreshes' = refreshes \cup {p}
    BY <1>1 DEF Post
  <1>3. /\ shownBy'[cookie] = shownBy[cookie] \cup {j[1]}
        /\ \A i \in Tokens \ {cookie} : shownBy'[i] = shownBy[i]
    BY <1>0 DEF Post, Shown
  <1>4. ASSUME NEW i \in Tokens PROVE TokenFits(i)'
    <2>1. TokenFits(i)
      BY DEF TokensQuiet
    <2>2. CASE i # cookie
      <3>1. (Alone(i)' <=> Alone(i)) /\ \A r \in refreshes' : r.tok = i => r \in refreshes
        BY <1>2, <1>3, <2>2 DEF Alone
      <3> QED
        BY <1>3, <2>1, <2>2, <3>1 DEF TokenFits
    <2>3. CASE i = cookie
      <3>1. shownBy'[i] # {} /\ rt'[i] # "none"
        BY <1>0, <1>3, <2>3
      <3>2. CASE Alone(i)'
        <4>1. shownBy[i] = {}
          <5>1. \A x \in shownBy[i] : x = j[1]
            BY <1>3, <2>3, <3>2 DEF Alone
          <5> QED
            BY <2>3, <5>1
        <4>2. rt[i] # "revoked" /\ \A r \in refreshes : r.tok # i
          BY <2>1, <4>1 DEF TokenFits
        <4> QED
          BY <1>2, <3>1, <4>2 DEF TokenFits
      <3>3. CASE ~Alone(i)'
        BY <3>1, <3>3 DEF TokenFits
      <3> QED
        BY <3>2, <3>3
    <2> QED
      BY <2>2, <2>3
  <1> QED
    BY <1>0, <1>3, <1>4 DEF TokensQuiet

\* A log-out names it.
LEMMA TokensWhenLeft ==
    ASSUME TypeOK, HandInv, TokensQuiet, alarm = "none", cookie # 0, NEW t \in Tabs,
           shownBy' = Shown(cookie, {t, Nobody}), UNCHANGED <<rt, refreshes, cookie>>
    PROVE  /\ TokensQuiet' /\ cookie \in Tokens /\ ~Alone(cookie)'
           /\ shownBy'[cookie] = shownBy[cookie] \cup {t, Nobody}
           /\ \A i \in Tokens \ {cookie} : shownBy'[i] = shownBy[i]
  <1>0. cookie \in Tokens /\ rt[cookie] # "none" /\ t # Nobody
    BY CookieIs, TypeParts, TabIs DEF HandInv
  <1>3. /\ shownBy'[cookie] = shownBy[cookie] \cup {t, Nobody}
        /\ \A i \in Tokens \ {cookie} : shownBy'[i] = shownBy[i]
    BY <1>0 DEF Shown
  <1>4. shownBy'[cookie] # {} /\ ~Alone(cookie)'
    BY <1>0, <1>3 DEF Alone
  <1>5. ASSUME NEW i \in Tokens PROVE TokenFits(i)'
    <2>1. TokenFits(i)
      BY DEF TokensQuiet
    <2>2. CASE i # cookie
      <3>1. Alone(i)' <=> Alone(i)
        BY <1>3, <2>2 DEF Alone
      <3> QED
        BY <1>3, <2>1, <2>2, <3>1 DEF TokenFits
    <2>3. CASE i = cookie
      BY <1>0, <1>4, <2>3 DEF TokenFits
    <2> QED
      BY <2>2, <2>3
  <1> QED
    BY <1>0, <1>3, <1>4, <1>5 DEF TokensQuiet

\* What a page shows while its tokens have not been presented anew.
Waiting(t) == refreshing[t] # Nobody \/ Boot(t).pc \in {"sent", "answered"}

CookieIn(t) == cookie # 0 /\ shownBy[cookie] = {t}

Onward(t) ==
    /\ page'[t] \in {"closed", "loading"} => page[t] \in {"closed", "loading"}
    /\ Boot(t)'.pc \in {"idle", "sent", "answered"}
    /\ Out(t)'.body \in {0, Out(t).body}
    /\ CookieIn(t)' => CookieIn(t) /\ (Waiting(t) => Waiting(t)')

LEMMA TabsWhenOnward ==
    ASSUME TabsQuiet, UNCHANGED shownBy, \A t \in Tabs : Onward(t) PROVE TabsQuiet'
  <1> SUFFICES ASSUME NEW t \in Tabs PROVE ShowFits(t)'
    BY DEF TabsQuiet
  <1>1. ShowFits(t) /\ Onward(t)
    BY DEF TabsQuiet
  <1>2. CookieIn(t)' => Waiting(t)'
    BY <1>1 DEF Onward, ShowFits, CookieIn, Waiting
  <1>3. page'[t] \in {"closed", "loading"} => \A i \in Tokens : shownBy'[i] # {t}
    BY <1>1 DEF Onward, ShowFits
  <1>4. Out(t)'.body # 0 => ~Alone(Out(t).body)' /\ Out(t)'.body = Out(t).body
    <2> SUFFICES ASSUME Out(t)'.body # 0 PROVE ~Alone(Out(t).body)' /\ Out(t)'.body = Out(t).body
      OBVIOUS
    <2>1. Out(t)'.body = Out(t).body
      BY <1>1 DEF Onward
    <2>2. PICK b : b = Out(t).body
      OBVIOUS
    <2>3. ~Alone(b) /\ Out(t)'.body = b
      BY <1>1, <2>1, <2>2 DEF ShowFits
    <2> QED
      BY <2>1, <2>2, <2>3 DEF Alone
  <1> QED
    BY <1>1, <1>2, <1>3, <1>4 DEF ShowFits, CookieIn, Waiting, Onward, Alone

LEMMA HandsWhenLess ==
    ASSUME HandsQuiet, HoldsLess, UNCHANGED shownBy PROVE HandsQuiet'
  BY DEF HandsQuiet, HoldsLess

LEMMA QuietWhenOnward ==
    ASSUME QuietInv, UNCHANGED <<rt, shownBy>>, refreshes' \subseteq refreshes, HoldsLess,
           \A t \in Tabs : Onward(t)
    PROVE  QuietInv'
  BY FewerKept, SameShownKept, TokensWhenKept, TabsWhenOnward, HandsWhenLess DEF QuietInv

\* One request other than the hydration's changes.
LEMMA OnwardWhenMoved ==
    ASSUME TabsQuiet, NEW j \in Jobs, \A k \in Jobs \ {j} : jobs'[k] = jobs[k], j[2] # "boot",
           j[2] = "logout" => jobs'[j].body \in {0, jobs[j].body},
           UNCHANGED shownBy, cookie' \in {0, cookie},
           \A t \in Tabs : refreshing[t] # Nobody => refreshing'[t] # Nobody,
           \A t \in Tabs : page'[t] \in {"closed", "loading"} => page[t] \in {"closed", "loading"}
    PROVE  \A t \in Tabs : Onward(t)
  <1> SUFFICES ASSUME NEW t \in Tabs PROVE Onward(t)
    OBVIOUS
  <1>1. ShowFits(t) /\ <<t, "boot">> \in Jobs /\ <<t, "logout">> \in Jobs
    BY DEF TabsQuiet, Jobs
  <1>2. Boot(t)' = Boot(t)
    BY <1>1 DEF Boot
  <1>3. Out(t)'.body \in {0, Out(t).body}
    BY <1>1 DEF Out
  <1>4. Waiting(t) => Waiting(t)'
    BY <1>2 DEF Waiting
  <1> QED
    BY <1>1, <1>2, <1>3, <1>4 DEF Onward, ShowFits, CookieIn

\* The page is loaded anew: nobody knows any more who asked.
LEMMA QuietWhenReset ==
    ASSUME TypeOK, TabInv, HandInv, QuietInv, NEW t \in Tabs, Reset(t, "loading"), cookie' \in {0, cookie},
           UNCHANGED rt
    PROVE  QuietInv'
  <1>0. /\ shownBy' = [i \in Tokens |-> IF shownBy[i] = {t} THEN {Nobody} ELSE shownBy[i]]
        /\ page \in [Tabs -> {"closed", "loading", "booting", "guest", "app"}] /\ t # Nobody
        /\ refreshing' = [refreshing EXCEPT ![t] = Nobody]
        /\ page' = [page EXCEPT ![t] = "loading"]
    BY ResetIs, TypeParts, TabIs DEF TabTypes
  <1>1. RefreshesKept
    <2>1. refreshes' = {Orphan(r, t) : r \in refreshes}
      BY ResetIs
    <2> QED
      BY <2>1, OrphansKept
  <1>2. ASSUME NEW i \in Tokens PROVE (shownBy'[i] = {} <=> shownBy[i] = {}) /\ (Alone(i)' <=> Alone(i))
    BY <1>0 DEF Alone
  <1>3. TokensQuiet'
    BY <1>1, <1>2, TokensWhenKept DEF QuietInv, ShownKept
  <1>4. ASSUME NEW u \in Tabs PROVE ShowFits(u)'
    <2>1. ShowFits(u) /\ u # Nobody
      BY TabIs DEF QuietInv, TabsQuiet
    <2>2. CASE u = t
      <3>1. \A i \in Tokens : shownBy'[i] # {t}
        BY <1>0
      <3>2. Boot(t)' = IdleJob /\ Out(t)' = IdleJob
        <4>0. jobs' = [k \in Jobs |-> IF k \in Of(t) THEN IdleJob ELSE jobs[k]]
          BY ResetIs
        <4>1. \A k \in Of(t) : jobs'[k] = IdleJob
          BY <4>0, TabIs
        <4> QED
          BY <4>1, TabIs DEF Boot, Out
      <3>3. cookie' # 0 => cookie' \in Tokens
        BY CookieIs, TypeParts
      <3> QED
        BY <2>2, <3>1, <3>2, <3>3, IdleIs DEF ShowFits
    <2>3. CASE u # t
      <3>1. Boot(u)' = Boot(u) /\ Out(u)' = Out(u) /\ page'[u] = page[u]
        <4>1. \A k \in Of(u) : k \notin Of(t) /\ k \in Jobs
          BY <2>3, TabIs
        <4>2. \A k \in Of(u) : jobs'[k] = jobs[k]
          BY <4>1, ResetIs
        <4> QED
          BY <1>0, <2>3, <4>2, TabIs DEF Boot, Out
      <3>2. refreshing'[u] = refreshing[u]
        BY <1>0, <2>3, TypeParts DEF TabInv
      <3>3. \A i \in Tokens : shownBy'[i] = {u} => shownBy[i] = {u}
        BY <1>0, <2>1, <2>3
      <3>4. cookie' # 0 => cookie' = cookie /\ cookie \in Tokens
        BY CookieIs, TypeParts
      <3>5. Out(u).body # 0 => ~Alone(Out(u).body)'
        <4>1. Out(u).body \in 0..MaxTokens
          BY TypeParts, TabIs DEF JobTypes, JobRec, Out
        <4>2. PICK b : b = Out(u).body
          OBVIOUS
        <4>3. b # 0 => b \in Tokens
          BY <4>1, <4>2, Bounds
        <4>4. b # 0 => ~Alone(b)'
          BY <1>2, <2>1, <4>2, <4>3 DEF ShowFits
        <4> QED
          BY <3>1, <4>2, <4>4 DEF Alone
      <3> QED
        BY <1>0, <2>1, <2>3, <3>1, <3>2, <3>3, <3>4, <3>5 DEF ShowFits, Alone
    <2> QED
      BY <2>2, <2>3
  <1>5. HandsQuiet'
    <2>1. ASSUME NEW k \in Jobs, Holds(k)' PROVE shownBy'[jobs'[k].got] = {}
      <3>1. Holds(k) /\ jobs'[k].got = jobs[k].got
        BY <2>1, ResetHolds DEF HoldsLess
      <3>2. jobs[k].got \in Tokens /\ shownBy[jobs[k].got] = {}
        BY <3>1, GotIs DEF QuietInv, HandsQuiet
      <3> QED
        BY <1>2, <3>1, <3>2
    <2> QED
      BY <2>1 DEF HandsQuiet
  <1> QED
    BY <1>3, <1>4, <1>5 DEF QuietInv, TabsQuiet

\* The token of the cookie is presented, the others are not.
CookieShown(S) ==
    /\ shownBy'[cookie] = shownBy[cookie] \cup S
    /\ \A i \in Tokens \ {cookie} : shownBy'[i] = shownBy[i]

LEMMA TabsWhenShown ==
    ASSUME TypeOK, TabsQuiet, cookie \in Tokens, UNCHANGED cookie, NEW S, CookieShown(S),
           \A t \in Tabs :
              /\ CookieIn(t)' => Waiting(t)' /\ page'[t] \notin {"closed", "loading"}
              /\ page'[t] \in {"closed", "loading"} => page[t] \in {"closed", "loading"}
              /\ Boot(t)'.pc \in {"idle", "sent", "answered"}
              /\ Out(t)'.body \in {0, Out(t).body} \/ (Out(t)'.body = cookie /\ ~Alone(cookie)')
    PROVE  TabsQuiet'
  <1> SUFFICES ASSUME NEW t \in Tabs PROVE ShowFits(t)'
    BY DEF TabsQuiet
  <1>1. ShowFits(t) /\ cookie # 0
    BY Bounds DEF TabsQuiet
  <1>2. cookie' # 0 /\ shownBy'[cookie'] = {t} => refreshing'[t] # Nobody \/ Boot(t)'.pc \in {"sent", "answered"}
    BY DEF CookieIn, Waiting
  <1>3. ASSUME page'[t] \in {"closed", "loading"}, NEW i \in Tokens PROVE shownBy'[i] # {t}
    <2>1. page[t] \in {"closed", "loading"} /\ ~CookieIn(t)'
      BY <1>3
    <2>2. CASE i = cookie
      BY <1>1, <2>1, <2>2 DEF CookieIn
    <2>3. CASE i # cookie
      BY <1>1, <2>1, <2>3 DEF ShowFits, CookieShown
    <2> QED
      BY <2>2, <2>3
  <1>4. ASSUME Out(t)'.body # 0, NEW b, b = Out(t)'.body PROVE ~Alone(b)'
    <2>1. CASE b = cookie /\ ~Alone(cookie)'
      BY <2>1 DEF Alone
    <2>2. CASE b = Out(t).body
      <3>1. b \in Tokens /\ ~Alone(b)
        <4>1. b \in 0..MaxTokens
          BY <2>2, TypeParts, TabIs DEF JobTypes, JobRec, Out
        <4> QED
          BY <1>1, <1>4, <2>2, <4>1, Bounds DEF ShowFits
      <3>2. shownBy[b] \subseteq shownBy'[b]
        BY <3>1 DEF CookieShown
      <3> QED
        BY <3>1, <3>2 DEF Alone
    <2> QED
      BY <1>4, <2>1, <2>2
  <1>5. PICK b : b = Out(t)'.body
    OBVIOUS
  <1>6. Out(t)'.body # 0 => ~(\A x, y \in shownBy'[Out(t)'.body] : x = y)
    BY <1>4, <1>5 DEF Alone
  <1> QED
    BY <1>2, <1>3, <1>6 DEF ShowFits, Alone

LEMMA HandsWhenShown ==
    ASSUME TypeOK, HandInv, HandsQuiet, HoldsLess, NEW S, CookieShown(S) PROVE HandsQuiet'
  <1> SUFFICES ASSUME NEW k \in Jobs, Holds(k)' PROVE shownBy'[jobs'[k].got] = {}
    BY DEF HandsQuiet
  <1>1. Holds(k) /\ jobs'[k].got = jobs[k].got
    BY DEF HoldsLess
  <1>2. jobs[k].got \in Tokens \ {cookie} /\ shownBy[jobs[k].got] = {}
    BY <1>1, GotIs DEF HandsQuiet
  <1> QED
    BY <1>1, <1>2 DEF CookieShown

LEMMA QuietWhenPosted ==
    ASSUME TypeOK, HandInv, QuietInv, alarm = "none", cookie # 0, NEW j \in Jobs, Post(j, cookie),
           shownBy[cookie] # {j[1]}, UNCHANGED <<rt, cookie>>, HoldsLess,
           Waiting(j[1])', page'[j[1]] \notin {"closed", "loading"},
           \A t \in Tabs :
              /\ page'[t] \in {"closed", "loading"} => page[t] \in {"closed", "loading"}
              /\ Boot(t)'.pc \in {"idle", "sent", "answered"}
              /\ Out(t)'.body \in {0, Out(t).body}
    PROVE  QuietInv'
  <1>1. TokensQuiet' /\ cookie \in Tokens /\ CookieShown({j[1]})
    BY TokensWhenPosted DEF QuietInv, CookieShown
  <1>2. PICK S : S = {j[1]}
    OBVIOUS
  <1>3. CookieShown(S)
    BY <1>1, <1>2
  <1>4. \A t \in Tabs : CookieIn(t)' => t = j[1]
    BY <1>1 DEF CookieIn, CookieShown
  <1>5. \A t \in Tabs : CookieIn(t)' => Waiting(t)' /\ page'[t] \notin {"closed", "loading"}
    BY <1>4
  <1>6. TabsQuiet'
    BY <1>1, <1>3, <1>5, TabsWhenShown DEF QuietInv
  <1>7. HandsQuiet'
    BY <1>3, HandsWhenShown DEF QuietInv
  <1> QED
    BY <1>1, <1>6, <1>7 DEF QuietInv

-----------------------------------------------------------------------------
(* ... and so what each action does.                                         *)

LEMMA TheftWhenCalm ==
    ASSUME TheftInv, UNCHANGED alarm, ShownInv', alarm = "none" => QuietInv' PROVE TheftInv'
  BY DEF TheftInv

LEMMA ShownSame == ASSUME ShownInv, UNCHANGED shownBy PROVE ShownInv'
  BY DEF ShownInv

LEMMA ShownMore ==
    ASSUME ShownInv, NEW tok, NEW S, IsFiniteSet(S), shownBy' = Shown(tok, S) PROVE ShownInv'
  <1> SUFFICES ASSUME NEW i \in Tokens PROVE IsFiniteSet(shownBy'[i])
    BY DEF ShownInv
  <1>1. IsFiniteSet(shownBy[i]) /\ shownBy'[i] \in {shownBy[i], shownBy[i] \cup S}
    BY DEF ShownInv, Shown
  <1> QED
    BY <1>1, FS_Union

LEMMA ShownPost ==
    ASSUME ShownInv, NEW j, NEW tok, Post(j, tok) PROVE ShownInv'
  <1>1. IsFiniteSet({j[1]})
    BY FS_Singleton
  <1> QED
    BY <1>1, ShownMore DEF Post

LEMMA ShownReset ==
    ASSUME TypeOK, ShownInv, NEW t \in Tabs, Reset(t, "loading") PROVE ShownInv'
  <1>1. shownBy' = [i \in Tokens |-> IF shownBy[i] = {t} THEN {Nobody} ELSE shownBy[i]]
    BY ResetIs
  <1>2. IsFiniteSet({Nobody})
    BY FS_Singleton
  <1> QED
    BY <1>1, <1>2 DEF ShownInv

\* Two pages that presented it are two.
LEMMA TwoAreMany ==
    ASSUME ShownInv, NEW i \in Tokens, ~Alone(i) PROVE Cardinality(shownBy[i]) > 1
  <1>1. PICK x \in shownBy[i], y \in shownBy[i] : x # y
    BY DEF Alone
  <1>2. IsFiniteSet(shownBy[i])
    BY DEF ShownInv
  <1>3. IsFiniteSet({x}) /\ Cardinality({x}) = 1
    BY FS_Singleton
  <1>4. {x} \subseteq shownBy[i] /\ {x} # shownBy[i]
    BY <1>1
  <1>5. /\ Cardinality({x}) <= Cardinality(shownBy[i]) /\ Cardinality(shownBy[i]) # Cardinality({x})
        /\ Cardinality(shownBy[i]) \in Nat
    BY <1>2, <1>4, FS_Subset, FS_CardinalityType
  <1> QED
    BY <1>3, <1>5

LEMMA AlarmGone ==
    ASSUME shownBy' = [i \in Tokens |-> {}] PROVE ShownInv'
  BY FS_EmptySet DEF ShownInv

LEMMA OnwardWhenSame ==
    ASSUME TabsQuiet, UNCHANGED <<jobs, page, cookie, refreshing, shownBy>> PROVE \A t \in Tabs : Onward(t)
  <1> SUFFICES ASSUME NEW t \in Tabs PROVE Onward(t)
    OBVIOUS
  <1>1. ShowFits(t)
    BY DEF TabsQuiet
  <1>2. /\ Boot(t)' = Boot(t) /\ Out(t)' = Out(t) /\ page' = page /\ cookie' = cookie
        /\ refreshing' = refreshing /\ shownBy' = shownBy
    BY DEF Boot, Out
  <1> QED
    BY <1>1, <1>2 DEF Onward, ShowFits, CookieIn, Waiting

LEMMA OnwardWhenAnswered ==
    ASSUME TypeOK, AwaitInv, QuietInv, NEW r \in refreshes, NEW n \in 0..MaxTokens, n # 0, Answer(r, n),
           UNCHANGED <<page, cookie, refreshing, shownBy>>
    PROVE  \A t \in Tabs : Onward(t)
  <1> SUFFICES ASSUME NEW t \in Tabs PROVE Onward(t)
    OBVIOUS
  <1>1. ShowFits(t) /\ <<t, "boot">> \in Jobs /\ <<t, "logout">> \in Jobs
    BY DEF QuietInv, TabsQuiet, Jobs
  <1>2. CASE r.job = Nobody
    <2>1. jobs' = jobs
      BY <1>2, AnswerIs, TypeParts
    <2> QED
      BY <1>1, <2>1 DEF Onward, ShowFits, CookieIn, Waiting, Boot, Out
  <1>3. CASE r.job # Nobody
    <2>1. /\ r.job \in Jobs /\ Awaits(r.job) /\ \A k \in Jobs \ {r.job} : jobs'[k] = jobs[k]
          /\ jobs'[r.job].body = jobs[r.job].body
          /\ jobs[r.job].pc = "sent" => jobs'[r.job].pc = "answered"
      BY <1>3, AnswerMoves
    <2>2. Boot(t)' = Boot(t) \/ (Boot(t).pc = "sent" /\ Boot(t)'.pc = "answered")
      BY <1>1, <2>1 DEF ShowFits, Awaits, Boot
    <2>3. Out(t)'.body = Out(t).body
      BY <1>1, <2>1 DEF Out
    <2> QED
      BY <1>1, <2>2, <2>3 DEF Onward, ShowFits, CookieIn, Waiting
  <1> QED
    BY <1>2, <1>3

LEMMA HandsWhenAnswered ==
    ASSUME TypeOK, AwaitInv, HandsQuiet, NEW r \in refreshes, NEW n \in 0..MaxTokens, Answer(r, n),
           UNCHANGED shownBy, shownBy[n] = {}
    PROVE  HandsQuiet'
  <1>2. CASE r.job = Nobody
    <2>1. jobs' = jobs
      BY <1>2, AnswerIs, TypeParts
    <2> QED
      BY <2>1 DEF HandsQuiet, Holds
  <1>3. CASE r.job # Nobody
    <2>1. r.job \in Jobs /\ jobs'[r.job].got = n /\ \A k \in Jobs \ {r.job} : jobs'[k] = jobs[k]
      BY <1>3, AnswerMoves
    <2> QED
      BY <2>1 DEF HandsQuiet, Holds
  <1> QED
    BY <1>2, <1>3

LEMMA Theft_Server ==
    ASSUME Inv, TypeOK', NEW r \in refreshes, ServerStep(r) \/ DbFails(r) \/ Cancelled(r)
    PROVE  TheftInv'
  <1>0. /\ TypeOK /\ AwaitInv /\ HandInv /\ TheftInv /\ ShownInv /\ r.tok \in Tokens /\ r \in RefreshRec
        /\ rt \in [Tokens -> {"none", "live", "revoked"}]
    BY RefreshIs, TypeParts DEF Inv, TheftInv, ServerTypes
  <1>a. ASSUME alarm = "none" PROVE QuietInv /\ TokenFits(r.tok)
    BY <1>0, <1>a DEF TheftInv, QuietInv, TokensQuiet
  <1>b. ASSUME alarm = "none", UNCHANGED <<shownBy, jobs, page, cookie, refreshing>>
        PROVE  TabsQuiet' /\ HandsQuiet' /\ HoldsLess /\ \A t \in Tabs : Onward(t)
    <2>1. HoldsLess
      BY <1>b DEF HoldsLess, Holds
    <2> QED
      BY <1>a, <1>b, <2>1, OnwardWhenSame, TabsWhenOnward, HandsWhenLess DEF QuietInv
  <1>1. CASE ReadToken(r) /\ rt[r.tok] = "live"
    <2>1. PICK q : q = [r EXCEPT !.pc = "found"]
      OBVIOUS
    <2>2. /\ q.tok = r.tok /\ refreshes' = (refreshes \ {r}) \cup {q}
          /\ UNCHANGED <<jobs, rt, shownBy, alarm, page, cookie, refreshing>>
      BY <1>0, <1>1, <2>1 DEF ReadToken, RefreshRec
    <2>3. alarm = "none" => TokensQuiet'
      BY <1>0, <1>1, <1>a, <2>2, TokensWhenAdvanced DEF QuietInv
    <2> QED
      BY <1>0, <1>b, <2>2, <2>3, TheftWhenCalm, ShownSame DEF QuietInv
  <1>2. CASE ReadToken(r) /\ rt[r.tok] = "revoked"
    <2>1. r.pc = "sent" /\ Alarm(r.tok)
      BY <1>2 DEF ReadToken
    <2>2. alarm = "none" => ~Alone(r.tok)
      BY <1>0, <1>2, <1>a, <2>1 DEF TokenFits
    <2>3. alarm = "none" => Cardinality(shownBy[r.tok]) > 1
      BY <1>0, <2>2, TwoAreMany
    <2>4. IsFiniteSet(shownBy[r.tok])
      BY <1>0 DEF ShownInv
    <2>5. Cardinality(shownBy[r.tok]) \in Nat
      BY <2>4, FS_CardinalityType
    <2>6. alarm' = "excused"
      BY <2>1, <2>3, <2>5 DEF Alarm
    <2> QED
      BY <2>1, <2>6, AlarmGone DEF Alarm, TheftInv
  <1>3. CASE RevokeToken(r)
    <2>1. PICK q : q = [r EXCEPT !.pc = "revoked"]
      OBVIOUS
    <2>2. /\ q.tok = r.tok /\ q.pc = "revoked" /\ refreshes' = (refreshes \ {r}) \cup {q}
          /\ rt'[r.tok] = "revoked" /\ \A i \in Tokens \ {r.tok} : rt'[i] = rt[i]
          /\ UNCHANGED <<jobs, shownBy, alarm, page, cookie, refreshing>>
      BY <1>0, <1>3, <2>1 DEF RevokeToken, RefreshRec, memory
    <2>3. alarm = "none" => TokensQuiet'
      BY <1>0, <1>a, <2>2, TokensWhenAdvanced DEF QuietInv
    <2> QED
      BY <1>0, <1>b, <2>2, <2>3, TheftWhenCalm, ShownSame DEF QuietInv
  <1>4. CASE IssuePair(r)
    <2>1. PICK n \in Tokens : Issue(n) /\ Answer(r, n)
      BY <1>4 DEF IssuePair
    <2>2. /\ n \in 0..MaxTokens /\ n # 0 /\ refreshes' = refreshes \ {r}
          /\ UNCHANGED <<page, cookie, refreshing, shownBy, alarm>>
      BY <1>4, <2>1, Bounds DEF IssuePair, Answer
    <2>3. ASSUME alarm = "none" PROVE QuietInv'
      <3>1. TokensQuiet' /\ shownBy[n] = {}
        BY <1>0, <1>a, <2>1, <2>2, <2>3, FewerKept, TokensWhenIssued DEF QuietInv
      <3>2. TabsQuiet'
        BY <1>0, <1>a, <2>1, <2>2, <2>3, OnwardWhenAnswered, TabsWhenOnward DEF QuietInv
      <3>3. HandsQuiet'
        BY <1>0, <1>a, <2>1, <2>2, <2>3, <3>1, HandsWhenAnswered DEF QuietInv
      <3> QED
        BY <3>1, <3>2, <3>3 DEF QuietInv
    <2> QED
      BY <1>0, <2>2, <2>3, TheftWhenCalm, ShownSame
  <1>5. CASE DbFails(r)
    BY <1>0, <1>5, AlarmGone DEF DbFails, TheftInv
  <1>6. CASE Cancelled(r)
    <2>1. /\ refreshes' \subseteq refreshes
          /\ UNCHANGED <<rt, shownBy, jobs, page, cookie, refreshing, alarm>>
      BY <1>6 DEF Cancelled, server, memory
    <2> QED
      BY <1>0, <1>a, <1>b, <2>1, QuietWhenOnward, TheftWhenCalm, ShownSame
  <1> QED
    BY <1>1, <1>2, <1>3, <1>4, <1>5, <1>6 DEF ServerStep, ReadToken

LEMMA OnwardWhenRejected ==
    ASSUME TypeOK, TabsQuiet, NEW j \in Jobs, jobs[j].pc \in {"sent", "refused"}, Rejected(j),
           UNCHANGED <<refreshing, shownBy>>
    PROVE  \A t \in Tabs : Onward(t)
  <1>0. /\ jobs \in [Jobs -> JobRec] /\ j[1] \in Tabs /\ j = <<j[1], j[2]>>
        /\ page \in [Tabs -> {"closed", "loading", "booting", "guest", "app"}]
    BY JobIs, TypeParts DEF JobTypes, TabTypes
  <1>1. CASE j[2] \in {"boot", "me"}
    <2>1. /\ cookie' = 0 /\ page' = [page EXCEPT ![j[1]] = "guest"]
          /\ jobs' = [jobs EXCEPT ![<<j[1], "boot">>] = IdleJob, ![<<j[1], "me">>] = IdleJob]
      BY <1>1 DEF Rejected, HydrateFails
    <2> SUFFICES ASSUME NEW t \in Tabs PROVE Onward(t)
      OBVIOUS
    <2>2. ShowFits(t) /\ <<t, "boot">> \in Jobs /\ <<t, "logout">> \in Jobs
      BY DEF TabsQuiet, Jobs
    <2>3. Boot(t)' \in {Boot(t), IdleJob} /\ Out(t)' = Out(t)
      BY <1>0, <2>1, <2>2 DEF Boot, Out
    <2>4. page'[t] \in {"closed", "loading"} => page[t] \in {"closed", "loading"}
      BY <1>0, <2>1
    <2> QED
      BY <2>1, <2>2, <2>3, <2>4, IdleIs DEF Onward, ShowFits, CookieIn
  <1>2. CASE j[2] \notin {"boot", "me"}
    <2>1. PICK x : x = IF j[2] = "logout" THEN DoneJob ELSE IdleJob
      OBVIOUS
    <2>2. jobs' = [jobs EXCEPT ![j] = x] /\ UNCHANGED <<page, cookie>> /\ x.body = 0
      BY <1>2, <2>1, DoneIs, IdleIs DEF Rejected, DoneJob
    <2>3. jobs'[j].body = 0 /\ \A k \in Jobs \ {j} : jobs'[k] = jobs[k]
      BY <1>0, <2>2
    <2> QED
      BY <1>2, <2>2, <2>3, OnwardWhenMoved
  <1> QED
    BY <1>1, <1>2

LEMMA Theft_Serve ==
    ASSUME Inv, NEW j \in Jobs, Serve(j) PROVE TheftInv'
  <1>0. /\ TypeOK /\ TabInv /\ TheftInv /\ ShownInv /\ jobs \in [Jobs -> JobRec]
        /\ j[1] \in Tabs /\ j = <<j[1], j[2]>> /\ HoldsLess
        /\ page \in [Tabs -> {"closed", "loading", "booting", "guest", "app"}]
        /\ jobs[j].pc = "sent" /\ j[2] # "boot"
        /\ UNCHANGED <<refreshes, cookie, refreshing, shownBy, alarm>>
    BY JobIs, TypeParts, ServeHolds DEF Inv, TheftInv, JobTypes, TabTypes, Serve
  <1> SUFFICES ASSUME alarm = "none" PROVE QuietInv'
    BY <1>0, TheftWhenCalm, ShownSame
  <1>1. QuietInv
    BY <1>0 DEF TheftInv
  <1>2. ASSUME NEW p \in {"refused", "done"}, jobs' = [jobs EXCEPT ![j].pc = p], page' = page
        PROVE  \A t \in Tabs : Onward(t)
    <2>1. jobs'[j].body = jobs[j].body /\ \A k \in Jobs \ {j} : jobs'[k] = jobs[k]
      BY <1>0, <1>2 DEF JobRec
    <2> QED
      BY <1>0, <1>1, <1>2, <2>1, OnwardWhenMoved DEF QuietInv
  <1>3. CASE UNCHANGED <<rt, page>> /\ jobs' = [jobs EXCEPT ![j].pc = "refused"]
    BY <1>0, <1>1, <1>2, <1>3, QuietWhenOnward
  <1>4. CASE UNCHANGED <<rt, page>> /\ jobs' = [jobs EXCEPT ![j] = IdleJob]
    <2>1. jobs'[j].body = 0 /\ \A k \in Jobs \ {j} : jobs'[k] = jobs[k]
      BY <1>0, <1>4, IdleIs
    <2>2. \A t \in Tabs : Onward(t)
      BY <1>0, <1>1, <1>4, <2>1, OnwardWhenMoved DEF QuietInv
    <2> QED
      BY <1>0, <1>1, <1>4, <2>2, QuietWhenOnward
  <1>5. CASE /\ j[2] = "me" /\ page' = [page EXCEPT ![j[1]] = "app"] /\ UNCHANGED rt
             /\ jobs' = [jobs EXCEPT ![j] = IdleJob, ![<<j[1], "boot">>] = IdleJob]
    <2>1. ASSUME NEW t \in Tabs PROVE Onward(t)
      <3>1. ShowFits(t) /\ <<t, "boot">> \in Jobs /\ <<t, "logout">> \in Jobs /\ <<t, "logout">> # j
        BY <1>1, <1>5 DEF QuietInv, TabsQuiet, Jobs
      <3>2. /\ Out(t)' = Out(t) /\ Boot(t)' \in {Boot(t), IdleJob}
            /\ t # j[1] => Boot(t)' = Boot(t)
            /\ page'[t] \in {"closed", "loading"} => page[t] \in {"closed", "loading"}
        BY <1>0, <1>5, <3>1 DEF Boot, Out
      <3>3. t = j[1] => Boot(t).pc = "idle"
        BY <1>0, <1>5, JobPage DEF Boot
      <3> QED
        BY <1>0, <3>1, <3>2, <3>3, IdleIs DEF Onward, ShowFits, CookieIn, Waiting
    <2> QED
      BY <1>0, <1>1, <1>5, <2>1, QuietWhenOnward
  <1>6. CASE /\ j[2] = "logout" /\ rt' = [rt EXCEPT ![jobs[j].body] = "revoked"] /\ UNCHANGED page
             /\ jobs' = [jobs EXCEPT ![j].pc = "done"]
    <2>1. PICK b : b = jobs[j].body
      OBVIOUS
    <2>2. b \in Tokens => ~Alone(b)
      BY <1>0, <1>1, <1>6, <2>1, Bounds DEF QuietInv, TabsQuiet, ShowFits, Out
    <2>3. TokensQuiet'
      BY <1>0, <1>1, <1>6, <2>1, <2>2, TokensWhenNamed DEF QuietInv
    <2>4. TabsQuiet'
      BY <1>0, <1>1, <1>2, <1>6, TabsWhenOnward DEF QuietInv
    <2>5. HandsQuiet'
      BY <1>0, <1>1, HandsWhenLess DEF QuietInv
    <2> QED
      BY <2>3, <2>4, <2>5 DEF QuietInv
  <1> QED
    BY <1>3, <1>4, <1>5, <1>6 DEF Serve

LEMMA Theft_Left ==
    ASSUME Inv, NEW t \in Tabs, Reset(t, "loading"), cookie' \in {0, cookie}, UNCHANGED <<rt, alarm>>
    PROVE  TheftInv'
  <1>0. TypeOK /\ TabInv /\ HandInv /\ TheftInv /\ ShownInv
    BY DEF Inv, TheftInv
  <1>1. alarm = "none" => QuietInv'
    BY <1>0, QuietWhenReset DEF TheftInv
  <1> QED
    BY <1>0, <1>1, ShownReset, TheftWhenCalm

\* A tab that does not refresh has not presented the token of the cookie.
LEMMA Theft_Refreshes ==
    ASSUME Inv, NEW j \in Jobs, jobs[j].pc = "refused", cookie # 0, RefreshOrWait(j),
           UNCHANGED <<page, cookie, rt, alarm>>
    PROVE  TheftInv'
  <1>0. /\ TypeOK /\ TabInv /\ HandInv /\ TheftInv /\ ShownInv /\ j[1] \in Tabs /\ j = <<j[1], j[2]>>
        /\ PageFits(j[1]) /\ refreshing \in [Tabs -> Jobs \cup {Nobody}]
    BY JobIs DEF Inv, TheftInv, TabInv
  <1>1. ShownInv'
    <2>1. CASE UNCHANGED shownBy
      BY <1>0, <2>1, ShownSame
    <2>2. CASE Post(j, cookie)
      BY <1>0, <2>2, ShownPost
    <2> QED
      BY <1>0, <2>1, <2>2, WaitsIs
  <1> SUFFICES ASSUME alarm = "none" PROVE QuietInv'
    BY <1>0, <1>1, TheftWhenCalm
  <1>2. QuietInv /\ \A t \in Tabs : ShowFits(t)
    BY <1>0 DEF TheftInv, QuietInv, TabsQuiet
  <1>3. j[2] # "boot"
    BY <1>0, <1>2 DEF ShowFits, Boot
  <1>4. /\ \A k \in Jobs \ {j} : jobs'[k] = jobs[k]
        /\ jobs'[j].body = jobs[j].body /\ jobs'[j].pc \in {"queued", "refreshing"}
    BY <1>0, WaitsIs
  <1>5. HoldsLess
    BY <1>4 DEF HoldsLess, Holds
  <1>6. CASE UNCHANGED <<refreshing, refreshes, shownBy>>
    <2>1. \A t \in Tabs : Onward(t)
      BY <1>2, <1>3, <1>4, <1>6, OnwardWhenMoved DEF QuietInv
    <2> QED
      BY <1>2, <1>5, <1>6, <2>1, QuietWhenOnward
  <1>7. CASE /\ refreshing[j[1]] = Nobody /\ refreshing' = [refreshing EXCEPT ![j[1]] = j] /\ Post(j, cookie)
    <2>1. Boot(j[1]).pc = "idle" /\ page[j[1]] \notin {"closed", "loading"}
      <3>1. j \in Of(j[1]) /\ jobs[j].pc # "idle"
        BY JobIs
      <3>2. CASE j[2] = "me"
        <4>1. Me(j[1]).pc # "idle"
          BY <1>0, <3>1, <3>2 DEF Me
        <4> QED
          BY <1>0, <3>1, <4>1 DEF PageFits
      <3>3. CASE j[2] # "me"
        BY <1>0, <1>3, <3>1, <3>3 DEF PageFits
      <3> QED
        BY <3>2, <3>3
    <2>2. shownBy[cookie] # {j[1]}
      BY <1>0, <1>2, <1>7, <2>1 DEF ShowFits
    <2>3. Waiting(j[1])'
      BY <1>0, <1>7, JobIs DEF Waiting
    <2>4. ASSUME NEW t \in Tabs
          PROVE  Boot(t)'.pc \in {"idle", "sent", "answered"} /\ Out(t)'.body \in {0, Out(t).body}
      <3>1. ShowFits(t) /\ <<t, "boot">> \in Jobs /\ <<t, "logout">> \in Jobs /\ <<t, "boot">> # j
        BY <1>2, <1>3 DEF Jobs
      <3>2. Boot(t)' = Boot(t) /\ Out(t)'.body = Out(t).body
        BY <1>4, <3>1 DEF Boot, Out
      <3> QED
        BY <3>1, <3>2 DEF ShowFits
    <2> QED
      BY <1>0, <1>2, <1>5, <1>7, <2>1, <2>2, <2>3, <2>4, QuietWhenPosted
  <1> QED
    BY <1>0, <1>6, <1>7, WaitsIs

LEMMA Theft_Renewed ==
    ASSUME Inv, NEW j \in Jobs, Renewed(j) PROVE TheftInv'
  <1>0. /\ TypeOK /\ TabInv /\ HandInv /\ TheftInv /\ ShownInv /\ j[1] \in Tabs /\ j = <<j[1], j[2]>>
        /\ jobs[j].pc = "renewed" /\ cookie' = jobs[j].got /\ UNCHANGED <<rt, page, alarm>>
        /\ \A k \in Jobs : IF k \in Flushed(j[1]) \cup {j}
                           THEN jobs'[k].pc = "sent" /\ jobs'[k].body = jobs[k].body
                           ELSE jobs'[k] = jobs[k]
    BY JobIs, RenewedIs DEF Inv, TheftInv, server
  <1>1. ShownInv'
    BY <1>0, RenewedIs, ShownPost, ShownSame
  <1> SUFFICES ASSUME alarm = "none" PROVE QuietInv'
    BY <1>0, <1>1, TheftWhenCalm
  <1>2. QuietInv /\ \A t \in Tabs : ShowFits(t)
    BY <1>0 DEF TheftInv, QuietInv, TabsQuiet
  <1>3. j[2] # "boot"
    BY <1>0, <1>2 DEF ShowFits, Boot
  <1>4. UNCHANGED <<refreshes, shownBy>>
    BY <1>3, RenewedIs, <1>0
  <1>5. shownBy[cookie'] = {} /\ HoldsLess
    BY <1>0, <1>2, RenewedHolds DEF QuietInv, HandsQuiet
  <1>6. ASSUME NEW t \in Tabs PROVE Onward(t)
    <2>1. ShowFits(t) /\ <<t, "boot">> \in Jobs /\ <<t, "logout">> \in Jobs /\ <<t, "boot">> # j
      BY <1>2, <1>3 DEF Jobs
    <2>2. <<t, "boot">> \notin Flushed(j[1])
      BY <2>1 DEF Flushed, ShowFits, Boot
    <2>3. Boot(t)' = Boot(t) /\ Out(t)'.body = Out(t).body
      BY <1>0, <2>1, <2>2 DEF Boot, Out
    <2>4. ~CookieIn(t)'
      BY <1>4, <1>5 DEF CookieIn
    <2> QED
      BY <1>0, <2>1, <2>3, <2>4 DEF Onward, ShowFits
  <1> QED
    BY <1>0, <1>2, <1>4, <1>5, <1>6, QuietWhenOnward

LEMMA Theft_Jobs ==
    ASSUME Inv, NEW j \in Jobs, JobStep(j) \/ Lost(j) PROVE TheftInv'
  <1>0. /\ TypeOK /\ TabInv /\ HandInv /\ TheftInv /\ ShownInv /\ j[1] \in Tabs /\ j = <<j[1], j[2]>>
    BY JobIs DEF Inv, TheftInv
  <1>1. ASSUME ForceLogout(j[1]), UNCHANGED <<server, alarm>> PROVE TheftInv'
    BY <1>0, <1>1, Theft_Left DEF ForceLogout, server
  <1>2. ASSUME jobs[j].pc \in {"sent", "refused"}, Rejected(j), RefreshesKept,
               UNCHANGED <<refreshing, shownBy, server, alarm>>
        PROVE  TheftInv'
    <2>1. rt' = rt /\ ShownInv'
      BY <1>0, <1>2, ShownSame DEF server
    <2>2. ASSUME alarm = "none" PROVE QuietInv'
      <3>1. QuietInv
        BY <1>0, <2>2 DEF TheftInv
      <3>2. TokensQuiet'
        BY <1>2, <2>1, <3>1, SameShownKept, TokensWhenKept DEF QuietInv
      <3>3. TabsQuiet'
        BY <1>0, <1>2, <3>1, OnwardWhenRejected, TabsWhenOnward DEF QuietInv
      <3>4. HandsQuiet'
        BY <1>0, <1>2, <3>1, RejectedHolds, HandsWhenLess DEF QuietInv
      <3> QED
        BY <3>2, <3>3, <3>4 DEF QuietInv
    <2> QED
      BY <1>0, <1>2, <2>1, <2>2, TheftWhenCalm
  <1>3. ASSUME Refused(j) PROVE TheftInv'
    <2>0. jobs[j].pc = "refused" /\ UNCHANGED <<server, alarm>>
      BY <1>3 DEF Refused
    <2>1. CASE Rejected(j) /\ UNCHANGED <<refreshing, refreshes, signin, shownBy>>
      BY <1>2, <2>0, <2>1, FewerKept
    <2>2. CASE cookie # 0 /\ RefreshOrWait(j) /\ UNCHANGED <<page, mem, cookie, signin>>
      BY <2>0, <2>2, Theft_Refreshes DEF server
    <2> QED
      BY <1>1, <1>3, <2>0, <2>1, <2>2 DEF Refused
  <1>4. ASSUME Denied(j) PROVE TheftInv'
    BY <1>1, <1>4 DEF Denied
  <1>5. ASSUME Lost(j) PROVE TheftInv'
    <2>0. UNCHANGED <<server, alarm>>
      BY <1>5, Zenon DEF Lost
    <2>1. CASE /\ jobs[j].pc = "sent" /\ Rejected(j) /\ refreshes' = {Drop(r, j) : r \in refreshes}
               /\ UNCHANGED <<refreshing, signin, shownBy>>
      <3>1. RefreshesKept
        BY <1>0, <2>1, DroppedKept
      <3> QED
        BY <1>2, <2>0, <2>1, <3>1
    <2>2. CASE ForceLogout(j[1])
      BY <1>1, <2>0, <2>2
    <2> QED
      BY <1>5, <2>1, <2>2, Zenon DEF Lost, Drop
  <1> QED
    BY <1>3, <1>4, <1>5, Theft_Serve, Theft_Renewed DEF JobStep

LEMMA Theft_Hydrate ==
    ASSUME Inv, NEW t \in Tabs, Hydrate(t) PROVE TheftInv'
  <1>0. /\ TypeOK /\ TabInv /\ HandInv /\ TheftInv /\ ShownInv /\ <<t, "boot">> \in Jobs
        /\ jobs \in [Jobs -> JobRec] /\ cookie \in 0..MaxTokens /\ 0 \in 0..MaxTokens
        /\ page \in [Tabs -> {"closed", "loading", "booting", "guest", "app"}]
        /\ page[t] = "loading" /\ UNCHANGED <<rt, cookie, refreshing, alarm>>
    BY TypeParts, Bounds DEF Inv, TheftInv, JobTypes, TabTypes, Jobs, Hydrate, server
  <1>1. CASE page' = [page EXCEPT ![t] = "guest"] /\ UNCHANGED <<jobs, refreshes, shownBy>>
    <2>1. HoldsLess
      BY <1>1 DEF HoldsLess, Holds
    <2>2. ASSUME alarm = "none" PROVE QuietInv'
      <3>1. QuietInv
        BY <1>0, <2>2 DEF TheftInv
      <3>2. ASSUME NEW u \in Tabs PROVE Onward(u)
        <4>1. /\ ShowFits(u) /\ Boot(u)' = Boot(u) /\ Out(u)' = Out(u)
              /\ page'[u] \in {"closed", "loading"} => page[u] \in {"closed", "loading"}
          BY <1>0, <1>1, <3>1 DEF QuietInv, TabsQuiet, Boot, Out
        <4> QED
          BY <1>0, <1>1, <4>1 DEF Onward, ShowFits, CookieIn, Waiting
      <3> QED
        BY <1>0, <1>1, <2>1, <3>1, <3>2, QuietWhenOnward
    <2> QED
      BY <1>0, <1>1, <2>2, ShownSame, TheftWhenCalm
  <1>2. CASE /\ cookie # 0 /\ page' = [page EXCEPT ![t] = "booting"]
             /\ jobs' = [jobs EXCEPT ![<<t, "boot">>] = Sent(0, cookie)] /\ Post(<<t, "boot">>, cookie)
    <2>1. PICK x : x = Sent(0, cookie)
      OBVIOUS
    <2>2. x.pc = "sent"
      BY <1>0, <2>1, SentIs
    <2>3. PICK j \in Jobs : j = <<t, "boot">>
      BY <1>0
    <2>4. j[1] = t /\ jobs' = [jobs EXCEPT ![j] = x] /\ Post(j, cookie)
      BY <1>2, <2>1, <2>3
    <2>5. jobs'[j] = x /\ \A k \in Jobs \ {j} : jobs'[k] = jobs[k]
      BY <1>0, <2>4
    <2>6. HoldsLess
      BY <2>2, <2>5 DEF HoldsLess, Holds
    <2>7. ASSUME alarm = "none" PROVE QuietInv'
      <3>1. QuietInv /\ \A u \in Tabs : ShowFits(u)
        BY <1>0, <2>7 DEF TheftInv, QuietInv, TabsQuiet
      <3>2. shownBy[cookie] # {j[1]}
        BY <1>0, <1>2, <2>4, <3>1, CookieIs, TypeParts DEF ShowFits
      <3>3. Boot(t)'.pc = "sent" /\ Waiting(j[1])' /\ page'[j[1]] = "booting"
        BY <1>0, <1>2, <2>2, <2>3, <2>4, <2>5 DEF Waiting, Boot
      <3>4. ASSUME NEW u \in Tabs
            PROVE  /\ page'[u] \in {"closed", "loading"} => page[u] \in {"closed", "loading"}
                   /\ Boot(u)'.pc \in {"idle", "sent", "answered"} /\ Out(u)'.body \in {0, Out(u).body}
        <4>1. <<u, "logout">> \in Jobs \ {j} /\ <<u, "boot">> \in Jobs /\ (u # t => <<u, "boot">> # j)
          BY <2>3 DEF Jobs
        <4>2. Out(u)' = Out(u) /\ (u # t => Boot(u)' = Boot(u))
          BY <2>5, <4>1 DEF Boot, Out
        <4> QED
          BY <1>0, <1>2, <3>1, <3>3, <4>2 DEF ShowFits
      <3> QED
        BY <1>0, <1>2, <2>4, <2>6, <2>7, <3>1, <3>2, <3>3, <3>4, QuietWhenPosted
    <2>8. ShownInv'
      BY <1>0, <1>2, ShownPost
    <2> QED
      BY <1>0, <2>7, <2>8, TheftWhenCalm
  <1> QED
    BY <1>1, <1>2 DEF Hydrate

LEMMA Theft_Hydrated ==
    ASSUME Inv, NEW t \in Tabs, Hydrated(t) PROVE TheftInv'
  <1>0. /\ TypeOK /\ HandInv /\ TheftInv /\ ShownInv
        /\ Boot(t).pc = "answered" /\ cookie' = Boot(t).got
        /\ <<t, "boot">> \in Jobs /\ <<t, "me">> \in Jobs
        /\ Boot(t)'.pc = "idle" /\ Me(t)'.pc = "sent"
        /\ \A k \in Jobs : k # <<t, "boot">> /\ k # <<t, "me">> => jobs'[k] = jobs[k]
        /\ UNCHANGED <<rt, refreshes, page, refreshing, shownBy, alarm>>
    BY HydratedIs DEF Inv, TheftInv, server
  <1> SUFFICES ASSUME alarm = "none" PROVE QuietInv'
    BY <1>0, ShownSame, TheftWhenCalm
  <1>1. QuietInv
    BY <1>0 DEF TheftInv
  <1>2. HoldsLess
    BY <1>0 DEF HoldsLess, Holds, Boot, Me
  <1>3. shownBy[cookie'] = {}
    BY <1>0, <1>1 DEF QuietInv, HandsQuiet, Holds, Boot
  <1>4. ASSUME NEW u \in Tabs PROVE Onward(u)
    <2>1. ShowFits(u) /\ ~CookieIn(u)'
      BY <1>0, <1>1, <1>3 DEF QuietInv, TabsQuiet, CookieIn
    <2>2. /\ <<u, "logout">> \in Jobs /\ <<u, "boot">> \in Jobs
          /\ <<u, "logout">> # <<t, "boot">> /\ <<u, "logout">> # <<t, "me">> /\ <<u, "boot">> # <<t, "me">>
          /\ u # t => <<u, "boot">> # <<t, "boot">>
      BY DEF Jobs
    <2>3. Out(u)' = Out(u) /\ (u # t => Boot(u)' = Boot(u))
      BY <1>0, <2>2 DEF Out, Boot
    <2> QED
      BY <1>0, <2>1, <2>3 DEF Onward, ShowFits
  <1> QED
    BY <1>0, <1>1, <1>2, <1>4, QuietWhenOnward

LEMMA Theft_SignedIn ==
    ASSUME Inv, NEW t \in Tabs, SignedIn(t) PROVE TheftInv'
  <1>0. /\ TypeOK /\ TheftInv /\ ShownInv
        /\ page' = [page EXCEPT ![t] = "app"] /\ UNCHANGED <<refreshes, jobs, refreshing, shownBy, alarm>>
        /\ page \in [Tabs -> {"closed", "loading", "booting", "guest", "app"}]
    BY TypeParts DEF Inv, TheftInv, TabTypes, SignedIn
  <1>n. PICK n \in Tokens : Issue(n) /\ cookie' = n
    BY DEF SignedIn, CookieSet
  <1> SUFFICES ASSUME alarm = "none" PROVE QuietInv'
    BY <1>0, ShownSame, TheftWhenCalm
  <1>1. QuietInv
    BY <1>0 DEF TheftInv
  <1>2. TokensQuiet' /\ shownBy'[n] = {}
    BY <1>0, <1>n, <1>1, FewerKept, TokensWhenIssued DEF QuietInv
  <1>3. ASSUME NEW u \in Tabs PROVE Onward(u)
    <2>1. ShowFits(u) /\ ~CookieIn(u)' /\ Boot(u)' = Boot(u) /\ Out(u)' = Out(u)
      BY <1>0, <1>n, <1>1, <1>2 DEF QuietInv, TabsQuiet, CookieIn, Boot, Out
    <2>2. page'[u] \in {"closed", "loading"} => page[u] \in {"closed", "loading"}
      BY <1>0
    <2> QED
      BY <2>1, <2>2 DEF Onward, ShowFits
  <1>4. TabsQuiet'
    BY <1>0, <1>1, <1>3, TabsWhenOnward DEF QuietInv
  <1>5. HoldsLess
    BY <1>0 DEF HoldsLess, Holds
  <1>6. HandsQuiet'
    BY <1>0, <1>1, <1>5, HandsWhenLess DEF QuietInv
  <1> QED
    BY <1>2, <1>4, <1>6 DEF QuietInv

LEMMA Theft_Logout ==
    ASSUME Inv, NEW t \in Tabs, Logout(t) PROVE TheftInv'
  <1>0. /\ TypeOK /\ TabInv /\ HandInv /\ TheftInv /\ ShownInv
        /\ jobs \in [Jobs -> JobRec] /\ cookie \in 0..MaxTokens /\ mem[t] \in 0..MaxTokens
        /\ shownBy' = Shown(cookie, {t, Nobody}) /\ t # Nobody /\ page[t] = "app"
        /\ UNCHANGED <<rt, refreshes, cookie, page, refreshing, alarm>>
    BY TypeParts, TabIs DEF Inv, TheftInv, JobTypes, TabTypes, Logout, server
  <1>1. PICK x : x = IF cookie = 0 THEN DoneJob ELSE Sent(mem[t], cookie)
    OBVIOUS
  <1>2. x.pc \in {"sent", "done"} /\ x.body = cookie
    BY <1>0, <1>1, DoneIs, SentIs
  <1>3. PICK j \in Jobs : j = <<t, "logout">>
    BY DEF Jobs
  <1>4. jobs' = [jobs EXCEPT ![j] = x]
    BY <1>1, <1>3 DEF Logout, DoneJob
  <1>5. jobs'[j] = x /\ (\A k \in Jobs \ {j} : jobs'[k] = jobs[k]) /\ j[1] = t /\ j[2] = "logout"
    BY <1>0, <1>3, <1>4
  <1>6. HoldsLess
    BY <1>2, <1>5 DEF HoldsLess, Holds
  <1>7. ShownInv'
    <2>1. IsFiniteSet({Nobody})
      BY FS_Singleton
    <2>2. IsFiniteSet({Nobody} \cup {t})
      BY <2>1, FS_AddElement
    <2>3. {Nobody} \cup {t} = {t, Nobody}
      OBVIOUS
    <2> QED
      BY <1>0, <2>2, <2>3, ShownMore
  <1> SUFFICES ASSUME alarm = "none" PROVE QuietInv'
    BY <1>0, <1>7, TheftWhenCalm
  <1>8. QuietInv
    BY <1>0 DEF TheftInv
  <1>9. CASE cookie = 0
    <2>1. UNCHANGED shownBy
      BY <1>0, <1>9, Bounds, TypeParts DEF Shown, GhostTypes
    <2>2. \A u \in Tabs : Onward(u)
      BY <1>0, <1>2, <1>5, <1>8, <1>9, <2>1, OnwardWhenMoved DEF QuietInv
    <2> QED
      BY <1>0, <1>6, <1>8, <2>1, <2>2, QuietWhenOnward
  <1>10. CASE cookie # 0
    <2>1. TokensQuiet' /\ cookie \in Tokens /\ ~Alone(cookie)' /\ CookieShown({t, Nobody})
      BY <1>0, <1>8, <1>10, TokensWhenLeft DEF QuietInv, CookieShown
    <2>2. PICK S : S = {t, Nobody}
      OBVIOUS
    <2>3. CookieShown(S)
      BY <2>1, <2>2
    <2>4. ASSUME NEW u \in Tabs
          PROVE  /\ ~CookieIn(u)'
                 /\ Boot(u)'.pc \in {"idle", "sent", "answered"}
                 /\ Out(u)'.body \in {0, Out(u).body} \/ (Out(u)'.body = cookie /\ ~Alone(cookie)')
      <3>1. ShowFits(u) /\ <<u, "boot">> \in Jobs \ {j} /\ <<u, "logout">> \in Jobs
        BY <1>3, <1>8 DEF QuietInv, TabsQuiet, Jobs
      <3>2. Boot(u)' = Boot(u) /\ (Out(u)' = Out(u) \/ Out(u)' = x)
        BY <1>5, <3>1 DEF Boot, Out
      <3>3. ~CookieIn(u)'
        <4>1. t \in shownBy'[cookie] /\ Nobody \in shownBy'[cookie]
          BY <2>1 DEF CookieShown
        <4>2. shownBy'[cookie] # {u}
          BY <1>0, <4>1
        <4> QED
          BY <1>0, <4>2 DEF CookieIn
      <3> QED
        BY <1>2, <2>1, <3>1, <3>2, <3>3 DEF ShowFits
    <2>5. TabsQuiet'
      BY <1>0, <1>8, <2>1, <2>3, <2>4, TabsWhenShown DEF QuietInv
    <2>6. HandsQuiet'
      BY <1>0, <1>6, <1>8, <2>3, HandsWhenShown DEF QuietInv
    <2> QED
      BY <2>1, <2>5, <2>6 DEF QuietInv
  <1> QED
    BY <1>9, <1>10

LEMMA Theft_LoggedOut ==
    ASSUME Inv, NEW t \in Tabs, LoggedOut(t) PROVE TheftInv'
  <1>0. /\ TypeOK /\ TheftInv /\ ShownInv /\ jobs \in [Jobs -> JobRec]
        /\ page \in [Tabs -> {"closed", "loading", "booting", "guest", "app"}]
        /\ page' = [page EXCEPT ![t] = "guest"] /\ cookie' = 0
        /\ UNCHANGED <<rt, refreshes, refreshing, shownBy, alarm>>
    BY TypeParts DEF Inv, TheftInv, JobTypes, TabTypes, LoggedOut, server
  <1> SUFFICES ASSUME alarm = "none" PROVE QuietInv'
    BY <1>0, ShownSame, TheftWhenCalm
  <1>1. PICK j \in Jobs : j = <<t, "logout">>
    BY DEF Jobs
  <1>2. jobs' = [jobs EXCEPT ![j] = IdleJob]
    BY <1>1 DEF LoggedOut
  <1>3. jobs'[j] = IdleJob /\ (\A k \in Jobs \ {j} : jobs'[k] = jobs[k]) /\ j[2] = "logout"
    BY <1>0, <1>1, <1>2
  <1>4. QuietInv
    BY <1>0 DEF TheftInv
  <1>5. \A u \in Tabs : Onward(u)
    BY <1>0, <1>3, <1>4, IdleIs, OnwardWhenMoved DEF QuietInv
  <1>6. HoldsLess
    BY <1>3, IdleIs DEF HoldsLess, Holds
  <1> QED
    BY <1>0, <1>4, <1>5, <1>6, QuietWhenOnward

LEMMA Theft_Query ==
    ASSUME Inv, NEW t \in Tabs, NEW q \in Queries, StartQuery(t, q) PROVE TheftInv'
  <1>0. /\ TypeOK /\ TheftInv /\ ShownInv /\ jobs \in [Jobs -> JobRec]
        /\ UNCHANGED <<rt, refreshes, cookie, page, refreshing, shownBy, alarm>>
    BY TypeParts DEF Inv, TheftInv, JobTypes, StartQuery, server
  <1> SUFFICES ASSUME alarm = "none" PROVE QuietInv'
    BY <1>0, ShownSame, TheftWhenCalm
  <1>1. PICK j \in Jobs : j = <<t, q>>
    BY DEF Jobs
  <1>2. PICK x : x = Sent(mem[t], 0)
    OBVIOUS
  <1>3. x.pc = "sent"
    BY <1>0, <1>2, SentIs, TypeParts, Bounds DEF TabTypes
  <1>4. jobs' = [jobs EXCEPT ![j] = x]
    BY <1>1, <1>2 DEF StartQuery
  <1>5. jobs'[j] = x /\ (\A k \in Jobs \ {j} : jobs'[k] = jobs[k]) /\ j[2] \notin {"boot", "logout"}
    BY <1>0, <1>1, <1>4, SessionAssumption DEF SessionAssumption
  <1>6. QuietInv
    BY <1>0 DEF TheftInv
  <1>7. \A u \in Tabs : Onward(u)
    BY <1>0, <1>5, <1>6, OnwardWhenMoved DEF QuietInv
  <1>8. HoldsLess
    BY <1>3, <1>5 DEF HoldsLess, Holds
  <1> QED
    BY <1>0, <1>6, <1>7, <1>8, QuietWhenOnward

LEMMA Theft_Same ==
    ASSUME TheftInv, UNCHANGED <<rt, refreshes, cookie, page, jobs, refreshing, shownBy, alarm>>
    PROVE  TheftInv'
  <1>1. HoldsLess
    BY DEF HoldsLess, Holds
  <1>2. alarm = "none" => QuietInv'
    BY <1>1, OnwardWhenSame, QuietWhenOnward DEF TheftInv, QuietInv
  <1> QED
    BY <1>2, ShownSame, TheftWhenCalm DEF TheftInv

LEMMA Theft_Init == Init => TheftInv
  <1> SUFFICES ASSUME Init PROVE TheftInv
    OBVIOUS
  <1>1. /\ shownBy = [i \in Tokens |-> {}] /\ alarm = "none" /\ refreshes = {}
        /\ \A i \in Tokens : rt[i] # "revoked" /\ \A j \in Jobs : jobs[j] = IdleJob
    BY DEF Init
  <1>2. ShownInv
    BY <1>1, FS_EmptySet DEF ShownInv
  <1>3. TokensQuiet
    BY <1>1 DEF TokensQuiet, TokenFits
  <1>4. HandsQuiet
    BY IdleIs DEF Init, HandsQuiet, Holds
  <1>5. ASSUME NEW t \in Tabs PROVE ShowFits(t)
    <2>1. Boot(t) = IdleJob /\ Out(t) = IdleJob
      BY TabIs DEF Init, Boot, Out
    <2>2. cookie # 0 => cookie \in Tokens
      BY Bounds DEF Init, Tokens
    <2> QED
      BY <1>1, <2>1, <2>2, IdleIs DEF ShowFits
  <1> QED
    BY <1>1, <1>2, <1>3, <1>4, <1>5 DEF TheftInv, QuietInv, TabsQuiet

LEMMA Theft_Next ==
    ASSUME Inv, TypeOK', Next PROVE TheftInv'
  <1>0. TheftInv
    BY DEF Inv
  <1>1. ASSUME UNCHANGED <<rt, refreshes, cookie, page, jobs, refreshing, shownBy, alarm>> PROVE TheftInv'
    BY <1>0, <1>1, Theft_Same
  <1>2. ASSUME NEW t \in Tabs, \/ AskForCode(t) \/ CodeStep(t) \/ FindCode(t) \/ CountAttempt(t) \/ CompareCode(t)
                               \/ VerifyLost(t) \/ \E x \in 0..MaxCodes : TypeCode(t, x)
        PROVE  TheftInv'
    BY <1>1, <1>2, Zenon DEF AskForCode, CodeStep, InvalidateCodes, CreateCode, FindCode, CountAttempt,
       CompareCode, VerifyLost, TypeCode, server, memory
  <1>3. ASSUME NEW n \in Tokens, AccessExpires(n) PROVE TheftInv'
    BY <1>1, <1>3 DEF AccessExpires, memory
  <1>4. ASSUME NEW t \in Tabs, Load(t) PROVE TheftInv'
    BY <1>4, Theft_Left DEF Load, server
  <1> QED
    BY <1>2, <1>3, <1>4, Theft_Server, Theft_Jobs, Theft_Hydrate, Theft_Hydrated, Theft_SignedIn, Theft_Logout,
       Theft_LoggedOut, Theft_Query, Zenon DEF Next, PageStep, VerifyStep

-----------------------------------------------------------------------------
(* All of it together.                                                       *)

LEMMA Inv_Init == Init => Inv
  BY Types_Init, Tab_Init, Codes_Init, Hand_Init, Theft_Init DEF Inv

LEMMA Inv_Next ==
    ASSUME Inv, Next PROVE Inv'
  <1>1. TypeOK /\ TabInv /\ AwaitInv /\ CodeInv /\ HandInv
    BY DEF Inv
  <1>2. TypeOK'
    BY <1>1, Types_Next
  <1>3. TabInv' /\ AwaitInv' /\ CodeInv' /\ HandInv'
    BY <1>1, <1>2, Tab_Next, Await_Next, Codes_Next, Hand_Next
  <1>4. TheftInv'
    BY <1>2, Theft_Next
  <1> QED
    BY <1>2, <1>3, <1>4 DEF Inv

LEMMA Inv_Same ==
    ASSUME Inv, UNCHANGED vars PROVE Inv'
  <1>1. /\ UNCHANGED <<rt, valid, codes, refreshes, cookie, page, mem, jobs, refreshing>>
        /\ UNCHANGED <<asked, verify, shownBy, alarm, loads, expiries, faults>>
    BY DEF vars, server, memory, signin, bounds
  <1>2. TypeOK'
    BY <1>1 DEF Inv, TypeOK
  <1>3. TabInv'
    BY <1>1, TabWhenTyped DEF Inv
  <1>4. AwaitInv'
    BY <1>1, AwaitWhenSame DEF Inv, AwaitsOn, Awaits
  <1>5. CodeInv'
    BY <1>1 DEF Inv, CodeInv, CodeFits, Counted
  <1>6. HandInv'
    BY <1>1 DEF Inv, HandInv, Holds
  <1>7. TheftInv'
    BY <1>1, Theft_Same DEF Inv
  <1> QED
    BY <1>2, <1>3, <1>4, <1>5, <1>6, <1>7 DEF Inv

LEMMA Invariant == Spec => []Inv
  <1>1. Inv /\ [Next]_vars => Inv'
    BY Inv_Next, Inv_Same
  <1> QED
    BY <1>1, Inv_Init, PTL DEF Spec

(* The state is always of its types: a request, a code and a token of the    *)
(* session hold nothing the program does not have.  Code: the state of       *)
(* api/client.ts, useAuth.ts and auth/service.go that WebSession models.     *)
THEOREM SessionTypeCorrect == Spec => []TypeOK
  <1>1. Inv => TypeOK
    BY DEF Inv
  <1> QED
    BY <1>1, Invariant, PTL

(* However many tabs, requests, expiries and failures there are, a tab       *)
(* refreshes exactly while one request of its own does so, and a request     *)
(* waits only while it does.  Code: isRefreshing, failedQueue and            *)
(* processQueue in api/client.ts.                                            *)
THEOREM OneRequestRefreshes == Spec => []OneRefresherServesAll
  <1>1. Inv => OneRefresherServesAll
    <2> SUFFICES ASSUME Inv, NEW t \in Tabs
                 PROVE  /\ Refreshers(t) = {refreshing[t]} \ {Nobody}
                        /\ \A j \in Of(t) : jobs[j].pc = "queued" => Refreshers(t) # {}
      BY DEF OneRefresherServesAll
    <2>1. \A j \in Of(t) : j \in Jobs /\ j[1] = t /\ j # Nobody /\ RefreshFits(j)
      BY TabIs, JobIs DEF Inv, TabInv
    <2>2. refreshing[t] \in Of(t) \cup {Nobody}
      BY DEF Inv, TabInv
    <2>3. Refreshers(t) = {refreshing[t]} \ {Nobody}
      BY <2>1, <2>2 DEF Refreshers, RefreshFits, Refreshes
    <2> QED
      BY <2>1, <2>3 DEF RefreshFits
  <1> QED
    BY <1>1, Invariant, PTL

(* The server takes a refresh token for stolen only when two pages presented *)
(* it, a log-out named it or a refresh of it failed half-way: one page,      *)
(* whatever it sends, loses and loads again, never presents a token twice.   *)
(* Code: the interceptor of api/client.ts, the hydration of useAuth.ts,      *)
(* Refresh in auth/service.go.                                               *)
THEOREM OnePageIsNoTheft == Spec => []AlarmsExplained
  <1>1. Inv => AlarmsExplained
    BY DEF Inv, TheftInv, AlarmsExplained
  <1> QED
    BY <1>1, Invariant, PTL

(* However many attempts at it interleave, a code is compared with fewer     *)
(* guesses than OTPMaxAttempts.  Code: VerifyOTP in auth/service.go,         *)
(* IncrementOTPAttempts in auth/repository.go.                               *)
THEOREM GuessesAreFew == Spec => []GuessesBounded
  <1>1. Inv => GuessesBounded
    <2> SUFFICES ASSUME Inv, NEW c \in Codes PROVE codes[c].guesses < OTPMaxAttempts
      BY DEF GuessesBounded
    <2>1. /\ IsFiniteSet(Counted(c)) /\ codes[c].guesses + Cardinality(Counted(c)) < OTPMaxAttempts
          /\ codes[c].guesses \in Nat
      BY TypeParts DEF Inv, CodeInv, CodeFits, CodeTypes, CodeRec
    <2>2. Cardinality(Counted(c)) \in Nat
      BY <2>1, FS_CardinalityType
    <2> QED
      BY <2>1, <2>2, Bounds
  <1> QED
    BY <1>1, Invariant, PTL
=============================================================================
