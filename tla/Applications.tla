---------------------------- MODULE Applications ----------------------------
(***************************************************************************)
(* The life of an application: the user's decisions, the run that prepares *)
(* and emails applications, the extension's claims and reports, and the    *)
(* inbox, all as handlers over the tables of ApplicationStore.             *)
(*                                                                         *)
(* A handler reads, decides, and then issues its statements one by one     *)
(* (internal/agent/apply.go opens no transaction).  Here the reads and the *)
(* decision are one step, which leaves the remaining writes in todo[a] for *)
(* actor a; Exec performs one of them.  Every other actor may step between *)
(* two writes, and a handler may be cut short between them.                *)
(***************************************************************************)
EXTENDS ApplicationStore, FiniteSets

CONSTANTS
    Requests,            \* handlers in flight at once: HTTP requests, inbox triage
    Addresses,           \* published company addresses
    Contact,             \* Contact[l]: the address findContact finds for lead l
    NoLead,
    DailyLimit,          \* apply_settings.daily_limit
    MaxPrepareAttempts,  \* maxPrepareAttempts, 3 in the code
    MaxClaimAttempts,    \* maxClaimAttempts, 5 in the code
    MailOn,              \* the inbound webhook is configured
    MaxAsks,             \* bound: a user decides to apply to one lead
    MaxAttempts,         \* bound: attempts of a row that is claimed
    MaxFaults            \* bound: handlers and runs cut short

ASSUME ActorsAssumption == "run" \notin Requests
ASSUME LeadsAssumption ==
    IsFiniteSet(Leads) /\ NoLead \notin Leads /\ Contact \in [Leads -> Addresses]
ASSUME LimitsAssumption ==
    /\ DailyLimit \in Nat \ {0}
    /\ MaxPrepareAttempts \in Nat \ {0}
    /\ MaxClaimAttempts \in Nat \ {0}
    /\ MaxAsks \in Nat
    /\ MaxAttempts \in Nat
    /\ MaxFaults \in Nat
ASSUME MailAssumption == MailOn \in BOOLEAN

VARIABLES
    todo,                \* todo[a]: statements actor a has still to issue
    (* the run in progress: Go locals of applyQueued *)
    phase,               \* where the run stands
    budget,              \* applications it may still take
    batch,               \* leads loaded and not yet prepared
    cur,                 \* lead being prepared
    cold,                \* leads waiting for the cold email stage
    settle,              \* leads whose outcome is being saved
    mem,                 \* mem[l]: the run's in-memory copy of l's row
    (* what the properties remember *)
    emails,              \* emails[l]: application emails sent for l
    coldSent,            \* coldSent[d]: cold emails sent to address d
    faults               \* handlers and runs cut short so far

store   == <<tables, history>>
runVars == <<phase, budget, batch, cur, cold, settle, mem>>
sent    == <<emails, coldSent>>
vars    == <<store, todo, runVars, sent, faults>>

Actors == Requests \cup {"run"}
Phases == {"idle", "count", "load", "pick", "work", "check", "send", "cold", "settle"}

Write == [do  : {"save", "retry", "queue", "delete", "lead", "confirm"},
          l   : Leads,
          row : Row,             \* the row a save writes
          st  : LeadStatus]      \* the status a lead write sets

SaveRow(l, r)   == [do |-> "save",    l |-> l, row |-> r,     st |-> "new"]
SaveRetry(l, r) == [do |-> "retry",   l |-> l, row |-> r,     st |-> "new"]
Queue(l)        == [do |-> "queue",   l |-> l, row |-> NoRow, st |-> "new"]
Delete(l, r)    == [do |-> "delete",  l |-> l, row |-> r,     st |-> "new"]
SetLead(l, s)   == [do |-> "lead",    l |-> l, row |-> NoRow, st |-> s]
Confirm(l, r)   == [do |-> "confirm", l |-> l, row |-> r,     st |-> "new"]

TypeOK ==
    /\ lead \in [Leads -> LeadStatus]
    /\ applyEmail \in [Leads -> BOOLEAN]
    /\ app \in [Leads -> Row]
    /\ lastId \in [Leads -> Nat]
    /\ asked \in [Leads -> Nat]
    /\ streak \in [Leads -> Nat]
    /\ unrecorded \in [Leads -> BOOLEAN]
    /\ todo \in [Actors -> Seq(Write)]
    /\ phase \in Phases
    /\ budget \in Int
    /\ batch \subseteq Leads
    /\ cur \in Leads \cup {NoLead}
    /\ cold \subseteq Leads
    /\ settle \subseteq Leads
    /\ mem \in [Leads -> Row]
    /\ emails \in [Leads -> Nat]
    /\ coldSent \in [Addresses -> Nat]
    /\ faults \in Nat

Init ==
    /\ InitTables
    /\ todo = [a \in Actors |-> <<>>]
    /\ phase = "idle"
    /\ budget = 0
    /\ batch = {}
    /\ cur = NoLead
    /\ cold = {}
    /\ settle = {}
    /\ mem = [l \in Leads |-> NoRow]
    /\ emails = [l \in Leads |-> 0]
    /\ coldSent = [d \in Addresses |-> 0]
    /\ faults = 0

-----------------------------------------------------------------------------
(* Statements in flight.                                                   *)

\* applyMailOutcome reads the application again before it saves it.
Confirmed(l, i) ==
    IF Exists(l) /\ app[l].id = i
    THEN <<SaveRow(l, [app[l] EXCEPT !.st = "submitted", !.recent = TRUE]),
           SetLead(l, "applied")>>
    ELSE <<>>

Exec(a) ==
    /\ todo[a] # <<>>
    /\ LET w == Head(todo[a]) IN
       \/ w.do = "save"   /\ SaveApplication(w.l, w.row)
       \/ w.do = "retry"  /\ SaveRetried(w.l, w.row)
       \/ w.do = "queue"  /\ QueueApplication(w.l)
       \/ w.do = "delete" /\ DeleteApplication(w.l, w.row.id)
       \/ w.do = "lead"   /\ SetLeadStatus(w.l, w.st)
       \/ w.do = "confirm" /\ UNCHANGED store
    /\ LET w == Head(todo[a]) IN
       todo' = [todo EXCEPT ![a] =
                  IF w.do = "confirm" THEN Confirmed(w.l, w.row.id) ELSE Tail(@)]
    /\ UNCHANGED <<runVars, sent, faults>>

\* The client goes away (which cancels the request's context) or the database
\* fails: no further statement of this handler succeeds.
Interrupt(r) ==
    /\ todo[r] # <<>>
    /\ faults < MaxFaults
    /\ faults' = faults + 1
    /\ todo' = [todo EXCEPT ![r] = <<>>]
    /\ UNCHANGED <<store, runVars, sent>>

\* A handler that has read what it needs and leaves the writes ws.
Handle(r, ws) ==
    /\ todo[r] = <<>>
    /\ todo' = [todo EXCEPT ![r] = ws]
    /\ UNCHANGED <<store, runVars, sent, faults>>

-----------------------------------------------------------------------------
(* The user's decisions on leads (DecideLead).                             *)

Approve(r, l) ==
    /\ asked[l] < MaxAsks
    /\ lead[l] \notin {"applied", "approved", "applying"}
    /\ Handle(r, <<SetLead(l, "approved"), Queue(l)>>)

Dismiss(r, l) ==
    /\ lead[l] # "applied"
    /\ app[l].st \notin {"submitted", "in_progress"}
    /\ \/ /\ app[l].st \in {"none", "cancelled"}
          /\ Handle(r, <<SetLead(l, "dismissed")>>)
       \/ /\ app[l].st \notin {"none", "cancelled"}
          /\ Handle(r, <<SaveRow(l, [app[l] EXCEPT !.st = "cancelled", !.lease = "none"]),
                         SetLead(l, "dismissed")>>)

\* A dismissal goes on if it cannot read the application.
DismissUnseen(r, l) ==
    /\ lead[l] # "applied" /\ app[l].st \notin {"none", "cancelled"}
    /\ todo[r] = <<>>
    /\ faults < MaxFaults
    /\ faults' = faults + 1
    /\ todo' = [todo EXCEPT ![r] = <<SetLead(l, "dismissed")>>]
    /\ UNCHANGED <<store, runVars, sent>>

Reset(r, l) ==
    \/ /\ \/ lead[l] \in {"dismissed", "expired"}
          \/ lead[l] = "approved" /\ ~Exists(l)
       /\ Handle(r, <<SetLead(l, "new")>>)
    \/ /\ lead[l] = "approved"
       /\ app[l].st \in {"queued", "cancelled"}
       /\ Handle(r, <<Delete(l, app[l]), SetLead(l, "new")>>)

-----------------------------------------------------------------------------
(* The user's decisions on applications.                                   *)

SaveAnswers(r, l) ==
    /\ app[l].st = "needs_input"
    /\ Handle(r, <<SaveRow(l, [app[l] EXCEPT !.st = "ready"])>>)

\* Mutant: a retry does not ask whether the application was ever prepared.
RetriedUnprepared(row) ==
    [row EXCEPT !.st = IF row.ch = "browser" THEN "ready" ELSE "queued",
                !.lease = "none", !.att = 0]

Retried(row) ==
    [row EXCEPT !.st = IF row.job /\ row.ch = "browser" THEN "ready" ELSE "queued",
                !.lease = "none", !.att = 0]

RetryApplication(r, l) ==
    /\ asked[l] < MaxAsks
    /\ app[l].st \in {"failed", "needs_input", "cancelled"}
    /\ Handle(r, <<SaveRetry(l, Retried(app[l])), SetLead(l, "applying")>>)

CancelApplication(r, l) ==
    /\ Exists(l)
    /\ app[l].st # "submitted"
    /\ Handle(r, <<SaveRow(l, [app[l] EXCEPT !.st = "cancelled", !.lease = "none"]),
                   SetLead(l, "dismissed")>>)

-----------------------------------------------------------------------------
(* The extension protocol.                                                 *)

\* Mutant: the limit is compared with the attempts before this one.
ClaimNextOneMore(r, l) ==
    /\ todo[r] = <<>>
    /\ app[l].att < MaxAttempts
    /\ LET handedOut == app[l].att <= MaxClaimAttempts IN
       /\ ClaimBrowserApplication(l, handedOut)
       /\ todo' = [todo EXCEPT ![r] =
                     IF handedOut THEN <<>>
                     ELSE <<SaveRow(l, [Claimed(app[l]) EXCEPT !.st = "failed", !.lease = "none"]),
                            SetLead(l, "failed")>>]
    /\ UNCHANGED <<runVars, sent, faults>>

\* One round of ClaimNext's loop: lease a row, or give up on one the extension
\* keeps abandoning.  (The loop's next round is the next ClaimNext.)
ClaimNext(r, l) ==
    /\ todo[r] = <<>>
    /\ app[l].att < MaxAttempts
    /\ LET handedOut == app[l].att + 1 <= MaxClaimAttempts IN
       /\ ClaimBrowserApplication(l, handedOut)
       /\ todo' = [todo EXCEPT ![r] =
                     IF handedOut THEN <<>>
                     ELSE <<SaveRow(l, [Claimed(app[l]) EXCEPT !.st = "failed", !.lease = "none"]),
                            SetLead(l, "failed")>>]
    /\ UNCHANGED <<runVars, sent, faults>>

\* A report names an application, not a claim: it is accepted from an expired
\* claim, twice, or with no claim at all ("mark as submitted", manual fill).
ReportResult(r, l) ==
    LET row == [app[l] EXCEPT !.lease = "none"] IN
    \/ /\ app[l].st \in {"in_progress", "ready", "needs_input", "failed"}
       /\ Handle(r, <<SaveRow(l, [row EXCEPT !.st = "submitted", !.recent = TRUE]),
                      SetLead(l, "applied")>>)
    \/ /\ app[l].st \in {"in_progress", "ready", "needs_input"}
       /\ \/ Handle(r, <<SaveRow(l, [row EXCEPT !.st = "needs_input"])>>)
          \/ Handle(r, <<SaveRow(l, [row EXCEPT !.st = "failed"]), SetLead(l, "failed")>>)
          \/ Handle(r, <<SaveRow(l, [row EXCEPT !.st = "ready",
                                             !.att = IF @ > 0 THEN @ - 1 ELSE 0])>>)

-----------------------------------------------------------------------------
(* The inbox: the candidates were listed before the AI call, so the match  *)
(* carries the status of then; applyMailOutcome runs later (Confirm).      *)

MatchConfirmation(r, l) ==
    /\ MailOn /\ Exists(l)
    /\ app[l].st \notin {"cancelled", "submitted"}
    /\ Handle(r, <<Confirm(l, app[l])>>)

-----------------------------------------------------------------------------
(* The apply stage of a run (applyQueued, prepareOne, sendColdEmails).     *)
(* There is at most one run per user here, as RequeueInterrupted assumes.  *)

At(p) == phase = p /\ todo["run"] = <<>>

BeginApplyStage ==
    /\ At("idle")
    /\ RequeueInterrupted
    /\ phase' = "count"
    /\ UNCHANGED <<budget, batch, cur, cold, settle, mem, todo, sent, faults>>

Used == Cardinality({l \in Leads : \/ app[l].st = "submitted" /\ app[l].recent
                                   \/ app[l].st \in {"ready", "in_progress"}})

CountUsed ==
    /\ At("count")
    /\ IF DailyLimit - Used <= 0
       THEN phase' = "idle" /\ budget' = 0
       ELSE phase' = "load" /\ budget' = DailyLimit - Used
    /\ UNCHANGED <<store, batch, cur, cold, settle, mem, todo, sent, faults>>

\* The oldest queued rows, at most budget of them, copied once for the stage.
LoadQueued ==
    /\ At("load")
    /\ LET queued == {l \in Leads : app[l].st = "queued"} IN
       \E B \in SUBSET queued :
          /\ \/ Cardinality(B) = budget
             \/ B = queued /\ Cardinality(B) <= budget
          /\ batch' = B
          /\ mem' = [l \in Leads |-> IF l \in B THEN app[l] ELSE NoRow]
    /\ phase' = "pick"
    /\ budget' = 0
    /\ UNCHANGED <<store, cur, cold, settle, todo, sent, faults>>

\* prepareOne marks its copy preparing and saves it without a new read.
PrepareNext(l) ==
    /\ At("pick")
    /\ l \in batch
    /\ batch' = batch \ {l}
    /\ cur' = l
    /\ mem' = [mem EXCEPT ![l].st = "preparing"]
    /\ todo' = [todo EXCEPT !["run"] = <<SaveRow(l, mem'[l]), SetLead(l, "applying")>>]
    /\ phase' = "work"
    /\ UNCHANGED <<store, budget, cold, settle, sent, faults>>

\* The run is done with cur: row is what it saves, then the lead's status.
Conclude(row, ws) ==
    /\ todo' = [todo EXCEPT !["run"] = <<SaveRow(cur, row)>> \o ws]
    /\ mem' = [mem EXCEPT ![cur] = NoRow]
    /\ cur' = NoLead
    /\ phase' = "pick"

\* The job of an earlier attempt is reused; an attempt fails while there is
\* none, or none that can still be read.
PrepareFails ==
    /\ At("work")
    /\ Conclude([mem[cur] EXCEPT !.st = "failed", !.job = FALSE], <<SetLead(cur, "failed")>>)
    /\ UNCHANGED <<store, budget, batch, cold, settle, sent, faults>>

PrepareLater ==
    /\ At("work")
    /\ LET row == [mem[cur] EXCEPT !.job = FALSE, !.att = @ + 1] IN
       IF row.att >= MaxPrepareAttempts
       THEN Conclude([row EXCEPT !.st = "failed"], <<SetLead(cur, "failed")>>)
       ELSE Conclude([row EXCEPT !.st = "queued"], <<SetLead(cur, "approved")>>)
    /\ UNCHANGED <<store, budget, batch, cold, settle, sent, faults>>

\* The posting cannot be read but the company publishes an address.
PrepareByColdEmail ==
    /\ At("work")
    /\ cold' = cold \cup {cur}
    /\ mem' = [mem EXCEPT ![cur].job = FALSE]
    /\ cur' = NoLead
    /\ phase' = "pick"
    /\ UNCHANGED <<store, budget, batch, settle, todo, sent, faults>>

\* Mutant: only the current application goes back to the queue.
PrepareWithoutKeyAlone ==
    /\ At("work")
    /\ todo' = [todo EXCEPT !["run"] = <<SaveRow(cur, [mem[cur] EXCEPT !.st = "queued"])>>]
    /\ mem' = [l \in Leads |-> NoRow]
    /\ batch' = {}
    /\ settle' = {}
    /\ cold' = {}
    /\ cur' = NoLead
    /\ phase' = "settle"
    /\ UNCHANGED <<store, budget, sent, faults>>

\* The AI key stopped working while tailoring or writing the cover letter: this
\* application and the cold ones go back to the queue, and the run ends.
PrepareWithoutKey ==
    /\ At("work")
    /\ \E j \in BOOLEAN :
          todo' = [todo EXCEPT !["run"] =
                     <<SaveRow(cur, [mem[cur] EXCEPT !.st = "queued", !.job = j])>>]
    /\ mem' = [l \in Leads |-> IF l \in cold THEN [mem[l] EXCEPT !.st = "queued"] ELSE NoRow]
    /\ batch' = {}
    /\ settle' = cold
    /\ cold' = {}
    /\ cur' = NoLead
    /\ phase' = "settle"
    /\ UNCHANGED <<store, budget, sent, faults>>

\* Tailored: the channel follows from the posting's apply_email, which the
\* posting found on the way may have supplied.
PrepareTailored ==
    /\ At("work")
    /\ \/ AdoptEmail(cur) /\ ~applyEmail[cur] /\ ~mem[cur].job
       \/ UNCHANGED store
    /\ mem' = [mem EXCEPT ![cur].job = TRUE,
                          ![cur].ch = IF applyEmail'[cur] THEN "email" ELSE "browser"]
    /\ phase' = "check"
    /\ UNCHANGED <<budget, batch, cur, cold, settle, todo, sent, faults>>

\* "The user may have cancelled while we were working."
CheckCancelled ==
    /\ At("check")
    /\ \/ /\ app[cur].id = mem[cur].id /\ app[cur].st = "cancelled"
          /\ mem' = [mem EXCEPT ![cur] = NoRow]
          /\ cur' = NoLead
          /\ phase' = "pick"
          /\ UNCHANGED todo
       \/ /\ ~(app[cur].id = mem[cur].id /\ app[cur].st = "cancelled")
          /\ mem[cur].ch = "email"
          /\ phase' = "send"
          /\ UNCHANGED <<mem, cur, todo>>
       \/ /\ ~(app[cur].id = mem[cur].id /\ app[cur].st = "cancelled")
          /\ mem[cur].ch = "browser"
          /\ Conclude([mem[cur] EXCEPT !.st = "ready", !.att = 0], <<>>)
    /\ UNCHANGED <<store, budget, batch, cold, settle, sent, faults>>

SendApplication ==
    /\ At("send")
    /\ \/ /\ emails' = [emails EXCEPT ![cur] = @ + 1]
          /\ Conclude([mem[cur] EXCEPT !.st = "submitted", !.recent = TRUE],
                      <<SetLead(cur, "applied")>>)
       \/ /\ UNCHANGED emails
          /\ Conclude([mem[cur] EXCEPT !.st = "failed"], <<SetLead(cur, "failed")>>)
    /\ UNCHANGED <<store, budget, batch, cold, settle, coldSent, faults>>

BatchDone ==
    /\ At("pick")
    /\ batch = {}
    /\ phase' = IF cold = {} THEN "idle" ELSE "cold"
    /\ UNCHANGED <<store, budget, batch, cur, cold, settle, mem, todo, sent, faults>>

\* Mutant: a day's cooldown.
RecentlyEmailedToday(d) ==
    \E l \in Leads : app[l].ch = "cold_email" /\ app[l].recent /\ Contact[l] = d

\* LastColdEmail looks for a submitted cold email to the address.  The model's
\* horizon is the 14-day cooldown.
RecentlyEmailed(d) ==
    \E l \in Leads : app[l].ch = "cold_email" /\ app[l].st = "submitted" /\ Contact[l] = d

\* The copies of a group get their outcome; SettleNext saves them one by one.
Outcome(G, s) ==
    mem' = [l \in Leads |-> IF l \in G THEN [mem[l] EXCEPT !.st = s] ELSE mem[l]]

\* Mutant: the copy keeps its status when the email is out.
EmailedUnmarked(r, recorded) == [r EXCEPT !.ch = "cold_email", !.job = @ \/ recorded, !.recent = TRUE]

\* It gets its job only if the tracker could record it.
Emailed(r, recorded) ==
    [r EXCEPT !.st = "submitted", !.ch = "cold_email", !.job = @ \/ recorded, !.recent = TRUE]

Settling(G) ==
    /\ settle' = G
    /\ cold' = cold \ G
    /\ phase' = "settle"
    /\ UNCHANGED <<store, budget, batch, cur, todo, faults>>

\* One email per address, about every role waiting for it.
SendColdEmail(d) ==
    LET group == {l \in cold : Contact[l] = d} IN
    /\ At("cold")
    /\ group # {}
    /\ \/ /\ ~RecentlyEmailed(d)
          /\ coldSent' = [coldSent EXCEPT ![d] = @ + 1]
          /\ emails' = [l \in Leads |-> IF l \in group THEN emails[l] + 1 ELSE emails[l]]
          /\ \E S \in SUBSET group :
                mem' = [l \in Leads |-> IF l \in group THEN Emailed(mem[l], l \in S) ELSE mem[l]]
          /\ Settling(group)
       \/ \* already emailed, no resume file, or the provider refused it
          /\ UNCHANGED sent
          /\ Outcome(group, "failed")
          /\ Settling(group)
       \/ \* no usable key, or out of time: hand the rest back to the queue
          /\ UNCHANGED sent
          /\ Outcome(cold, "queued")
          /\ Settling(cold)

LeadFor(s) == CASE s = "submitted" -> "applied"
                [] s = "failed"    -> "failed"
                [] OTHER           -> "approved"

SettleNext(l) ==
    /\ At("settle")
    /\ l \in settle
    /\ todo' = [todo EXCEPT !["run"] = <<SaveRow(l, mem[l]), SetLead(l, LeadFor(mem[l].st))>>]
    /\ settle' = settle \ {l}
    /\ mem' = [mem EXCEPT ![l] = NoRow]
    /\ UNCHANGED <<store, phase, budget, batch, cur, cold, sent, faults>>

Settled ==
    /\ At("settle")
    /\ settle = {}
    /\ phase' = IF cold = {} THEN "idle" ELSE "cold"
    /\ UNCHANGED <<store, budget, batch, cur, cold, settle, mem, todo, sent, faults>>

\* The run's context times out: the statements of the current application fail,
\* the cold ones are handed back with a context that is not cancelled.
RunTimesOut ==
    /\ phase # "idle"
    /\ \A l \in settle : mem[l].st # "queued"
    /\ faults < MaxFaults
    /\ faults' = faults + 1
    /\ mem' = [l \in Leads |-> IF l \in cold THEN [mem[l] EXCEPT !.st = "queued"] ELSE NoRow]
    /\ todo' = [todo EXCEPT !["run"] = <<>>]
    /\ phase' = "settle"
    /\ settle' = cold
    /\ cold' = {}
    /\ batch' = {}
    /\ cur' = NoLead
    /\ budget' = 0
    /\ UNCHANGED <<store, sent>>

\* The process dies with every handler and the run in it.
Crash ==
    /\ faults < MaxFaults
    /\ faults' = faults + 1
    /\ todo' = [a \in Actors |-> <<>>]
    /\ phase' = "idle"
    /\ mem' = [l \in Leads |-> NoRow]
    /\ batch' = {}
    /\ cold' = {}
    /\ settle' = {}
    /\ cur' = NoLead
    /\ budget' = 0
    /\ UNCHANGED <<store, sent>>

-----------------------------------------------------------------------------
UserStep(r, l) ==
    \/ Approve(r, l)
    \/ Dismiss(r, l)
    \/ Reset(r, l)
    \/ SaveAnswers(r, l)
    \/ RetryApplication(r, l)
    \/ CancelApplication(r, l)

RunStep ==
    \/ BeginApplyStage
    \/ CountUsed
    \/ LoadQueued
    \/ \E l \in Leads : PrepareNext(l)
    \/ PrepareFails
    \/ PrepareLater
    \/ PrepareByColdEmail
    \/ PrepareWithoutKey
    \/ PrepareTailored
    \/ CheckCancelled
    \/ SendApplication
    \/ BatchDone
    \/ \E d \in Addresses : SendColdEmail(d)
    \/ \E l \in Leads : SettleNext(l)
    \/ Settled

LeasePasses(l) ==
    /\ LeaseExpires(l)
    /\ UNCHANGED <<todo, runVars, sent, faults>>

Clock ==
    \/ \E l \in Leads : LeasePasses(l)
    \/ /\ DayPasses \/ \E l \in Leads : ExpireStaleLead(l)
       /\ UNCHANGED <<todo, runVars, sent, faults>>

Next ==
    \/ \E r \in Requests, l \in Leads :
          \/ UserStep(r, l)
          \/ ClaimNext(r, l)
          \/ ReportResult(r, l)
          \/ MatchConfirmation(r, l)
    \/ \E a \in Actors : Exec(a)
    \/ \E r \in Requests : Interrupt(r) \/ \E l \in Leads : DismissUnseen(r, l)
    \/ RunStep
    \/ Clock
    \/ RunTimesOut
    \/ Crash

Spec == Init /\ [][Next]_vars

(* The scheduler keeps starting runs and a run keeps going; a handler's    *)
(* statements are executed; leases run out; the extension keeps polling    *)
(* (its alarm), though other requests may be in its way.                   *)
Fairness ==
    /\ WF_vars(RunStep)
    /\ \A a \in Actors : WF_vars(Exec(a))
    /\ \A l \in Leads : WF_vars(LeasePasses(l))
    /\ \A l \in Leads : SF_vars(\E r \in Requests : ClaimNext(r, l))

FairSpec == Spec /\ Fairness

-----------------------------------------------------------------------------
(* Properties.                                                             *)

(* The extension is only ever handed an application that has been prepared:*)
(* its job is recorded and its channel is the browser.  Retry and the      *)
(* answers path put rows back to ready without preparing them, and stale   *)
(* copies are written back whole.                                          *)
HandedOutIsPrepared ==
    \A l \in Leads : app[l].st \in {"ready", "in_progress", "needs_input"} =>
                        app[l].job /\ app[l].ch = "browser"

(* A claimed application can always be claimed again later: its lease is   *)
(* set.  (claim_expires_at < NOW() is never true of NULL, so an            *)
(* in_progress row without a lease would be stuck for good.)               *)
ClaimsCanExpire ==
    \A l \in Leads : app[l].st = "in_progress" => app[l].lease # "none"

(* An application the extension keeps abandoning is not handed out for     *)
(* ever: at most maxClaimAttempts hand-outs in a row without a report.     *)
AbandonedClaimsAreBounded ==
    \A l \in Leads : streak[l] <= MaxClaimAttempts

(* The three above by induction: every row that is stored, or that a       *)
(* handler has still to write, is fit to be stored at any time, and only a *)
(* claim puts a row in progress.                                           *)
FitRow ==
    {r \in Row : /\ r.st \in {"ready", "in_progress", "needs_input"} =>
                        r.job /\ r.ch = "browser"
                 /\ r.st = "in_progress" => r.lease # "none"}

FitWrite ==
    {w \in Write : w.do \in {"save", "retry"} =>
                      w.row \in FitRow /\ w.row.st # "in_progress"}

FitCopy == {r \in Row : r.st \notin {"ready", "in_progress", "needs_input"}}

IInv ==
    /\ TypeOK
    /\ app \in [Leads -> FitRow]
    /\ todo \in [Actors -> Seq(FitWrite)]
    /\ mem \in [Leads -> FitCopy]
    /\ \A l \in Leads : streak[l] <= app[l].att /\ streak[l] <= MaxClaimAttempts
    /\ phase \in {"work", "check", "send"} => cur \in Leads
    /\ phase \in {"check", "send"} => mem[cur].job

(* An employer gets one application email per decision of the user's to    *)
(* queue the application, and one more only when a run was cut short after *)
(* sending and before saving.                                              *)
EmailsNeedAsking ==
    \A l \in Leads : emails[l] <= asked[l] + faults

(* Short of a fault, an address is cold-emailed once in the cooldown,      *)
(* however many runs and roles there are - as long as no stale write took  *)
(* the record of the first email away.                                     *)
ColdEmailCooldown ==
    \A d \in Addresses :
        coldSent[d] > 1 => \/ faults > 0
                           \/ \E l \in Leads : Contact[l] = d /\ unrecorded[l]

(* A run that is not cut short hands back everything it took: whatever     *)
(* ends its stage (an unreadable posting, the key that stops working, the  *)
(* clock, other handlers' writes), nothing is left in "preparing".         *)
NothingLeftPreparing ==
    phase = "idle" /\ todo["run"] = <<>> /\ faults = 0 =>
        \A l \in Leads : app[l].st # "preparing"

(* An application left in "preparing" by a run that died is picked up      *)
(* again: no application stays in that state.                              *)
PreparingEnds ==
    \A l \in Leads : app[l].st = "preparing" ~> app[l].st # "preparing"

(* A claim ends, by a report or by the lease and the attempts running out, *)
(* even if the extension never reports.                                    *)
ClaimsEnd ==
    \A l \in Leads : app[l].st = "in_progress" ~> app[l].st # "in_progress"

=============================================================================
