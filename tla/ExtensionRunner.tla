-------------------------- MODULE ExtensionRunner --------------------------
(***************************************************************************)
(* The extension's service worker (background/runner.ts): it claims browser*)
(* applications, works them one at a time in a tab, and reports each result*)
(* through an outbox.  Chrome stops the worker at any moment: session      *)
(* storage survives, handlers that were waiting for an answer do not.      *)
(*                                                                         *)
(* advance() is at most one activity (the flag advancing).  Reports are    *)
(* sent by activities of their own: by advance, at the end of a run, and   *)
(* when a watched tab confirms.  They interleave at every await.           *)
(***************************************************************************)
EXTENDS Naturals

CONSTANTS
    Apps, NoApp,
    TickLimit,           \* TICK_LIMIT, 3 in the code
    Tries,               \* tries of deliverReport, 3 in the code
    MaxReportAttempts,   \* MAX_PENDING_REPORT_ATTEMPTS, 10 in the code
    MaxFaults,           \* bound: requests or answers lost, the worker stopped at work or signed out
    MaxByHand,           \* bound: what users do to an application by hand
    MaxTicks             \* bound: ticks requested

ASSUME RunnerAssumption ==
    /\ NoApp \notin Apps
    /\ TickLimit \in Nat \ {0} /\ Tries \in Nat \ {0} /\ MaxReportAttempts \in Nat \ {0}
    /\ MaxFaults \in Nat /\ MaxByHand \in Nat /\ MaxTicks \in Nat

VARIABLES
    server,              \* the applications as the server has them
    signedIn,            \* a device credential is stored
    (* session storage: RunnerState *)
    tick,
    current,             \* the application being worked, and whether it has a tab
    manual, watches,     \* applications filled by hand, and watched tabs
    outbox,              \* pendingReports, by application
    (* memory of the worker *)
    worker,              \* it runs
    adv,                 \* where advance() stands
    send,                \* send[a][k]: sendPending(a) called by activity k
    opened,              \* applications whose packet startManualFill has read
    (* what the properties remember *)
    orphans,             \* claims the extension has lost sight of
    begun,               \* begun[a]: times a was begun in this tick
    faults, byHand, ticks

session  == <<tick, current, manual, watches, outbox>>
memory   == <<worker, adv, send, opened>>
counters == <<faults, byHand, ticks>>
vars     == <<server, signedIn, session, memory, orphans, begun, counters>>

Reports  == {"submitted", "needs_input", "failed", "released"}
Statuses == {"ready", "in_progress", "expired", "needs_input", "failed", "submitted"}
Senders  == {"advance", "finish", "watch"}

TickRec == [on : BOOLEAN, processed : Nat, seen : SUBSET Apps]
NoTick  == [on |-> FALSE, processed |-> 0, seen |-> {}]
NewTick == [NoTick EXCEPT !.on = TRUE]

NoRun   == [app |-> NoApp, tab |-> FALSE]

\* known: the server has answered this very report (history).
Entry   == [rep : Reports, attempts : 0..MaxReportAttempts, known : BOOLEAN]
NewEntry(rep) == [rep |-> rep, attempts |-> 0, known |-> FALSE]
NoEntry == NewEntry("none")
Pending == {a \in Apps : outbox[a] # NoEntry}

SendRec == [stage : {"idle", "try", "posted"}, tries : 0..Tries, done : BOOLEAN]
NoSend  == [stage |-> "idle", tries |-> 0, done |-> FALSE]
Try(n)  == [stage |-> "try", tries |-> n, done |-> FALSE]
Posted(s, done) == [s EXCEPT !.stage = "posted", !.done = done]
Sending(a, k) == send[a][k].stage # "idle"

\* seen: of the tick advance() started its claim in.
AdvStates == {"idle", "loop", "leased", "opening", "failing", "handback", "noform"}
AdvRec    == [pc : AdvStates, app : Apps \cup {NoApp}, seen : SUBSET Apps, todo : SUBSET Apps]
Idle      == [pc |-> "idle", app |-> NoApp, seen |-> {}, todo |-> {}]
Loop(T)   == [Idle EXCEPT !.pc = "loop", !.todo = T]

TypeOK ==
    /\ server \in [Apps -> Statuses]
    /\ signedIn \in BOOLEAN
    /\ tick \in TickRec
    /\ current \in [app : Apps \cup {NoApp}, tab : BOOLEAN]
    /\ manual \subseteq Apps /\ watches \subseteq Apps
    /\ outbox \in [Apps -> Entry \cup {NoEntry}]
    /\ worker \in BOOLEAN
    /\ adv \in AdvRec
    /\ send \in [Apps -> [Senders -> SendRec]]
    /\ opened \subseteq Apps
    /\ orphans \subseteq Apps
    /\ begun \in [Apps -> Nat]
    /\ faults \in Nat /\ byHand \in Nat /\ ticks \in Nat

Init ==
    /\ server = [a \in Apps |-> "ready"]
    /\ signedIn = TRUE
    /\ tick = NoTick /\ current = NoRun /\ manual = {} /\ watches = {}
    /\ outbox = [a \in Apps |-> NoEntry]
    /\ worker = TRUE /\ adv = Idle /\ opened = {}
    /\ send = [a \in Apps |-> [k \in Senders |-> NoSend]]
    /\ orphans = {} /\ begun = [a \in Apps |-> 0]
    /\ faults = 0 /\ byHand = 0 /\ ticks = 0

-----------------------------------------------------------------------------
(* The server (apply.go), and its user in the dashboard.                   *)

Claimable(a) == server[a] \in {"ready", "expired"}

Accepts(a, rep) ==
    \/ server[a] \in {"ready", "in_progress", "expired", "needs_input"}
    \/ server[a] = "failed" /\ rep = "submitted"

Recorded(rep) == IF rep = "released" THEN "ready" ELSE rep

\* 15 minutes against runs of 4 to 7: what outlives its lease is a run the
\* browser suspended or the worker forgot.  No request is open for that long.
LeaseExpires(a) ==
    /\ server[a] = "in_progress"
    /\ \A k \in Senders : ~Sending(a, k)
    /\ adv.app # a
    /\ server' = [server EXCEPT ![a] = "expired"]
    /\ orphans' = orphans \ {a}
    /\ UNCHANGED <<signedIn, session, memory, begun, counters>>

\* Answers are given, or a failed application is retried.
UserRetries(a) ==
    /\ byHand < MaxByHand
    /\ server[a] \in {"needs_input", "failed"}
    /\ server' = [server EXCEPT ![a] = "ready"]
    /\ byHand' = byHand + 1
    /\ UNCHANGED <<signedIn, session, memory, orphans, begun, faults, ticks>>

-----------------------------------------------------------------------------
(* The outbox.                                                             *)

\* A report replaces the one its application has in the outbox, and activity k
\* is about to send it.
Deliver(a, rep, k) ==
    /\ outbox' = [outbox EXCEPT ![a] = NewEntry(rep)]
    /\ send' = [send EXCEPT ![a][k] = Try(Tries)]

\* The next attempt of sendPending posts what the outbox holds by then.  The
\* server records the report, or refuses it for good; the answer may get lost.
Post(a, k) ==
    /\ send[a][k].stage = "try" /\ outbox[a] # NoEntry /\ signedIn
    /\ server' = [server EXCEPT ![a] = IF Accepts(a, outbox[a].rep)
                                       THEN Recorded(outbox[a].rep) ELSE @]
    /\ outbox' = [outbox EXCEPT ![a].known = TRUE]
    /\ orphans' = orphans \ {a}
    /\ \E lost \in {0, 1} :
          /\ faults + lost <= MaxFaults
          /\ faults' = faults + lost
          /\ send' = [send EXCEPT ![a][k] = Posted(@, lost = 0)]
    /\ UNCHANGED <<signedIn, tick, current, manual, watches, worker, adv, opened, begun,
                   byHand, ticks>>

LosePost(a, k) ==
    /\ send[a][k].stage = "try" /\ outbox[a] # NoEntry /\ signedIn
    /\ faults < MaxFaults
    /\ faults' = faults + 1
    /\ send' = [send EXCEPT ![a][k] = Posted(@, FALSE)]
    /\ UNCHANGED <<server, signedIn, session, worker, adv, opened, orphans, begun,
                   byHand, ticks>>

\* The entry is looked up by its application again, after the answer.
Settled(e, done) ==
    IF e = NoEntry \/ done \/ e.attempts + 1 >= MaxReportAttempts THEN NoEntry
    ELSE [e EXCEPT !.attempts = @ + 1]

\* Sending a report is over: finishRun goes on to advance(), a confirmed watch
\* ends; advance() waits for its own.
Started == IF adv.pc = "idle" THEN Loop(Pending') ELSE adv

SendEnds(a, k) ==
    /\ adv' = IF k # "finish" THEN adv
              ELSE IF adv.pc = "failing" /\ adv.app = a THEN Idle
              ELSE Started
    /\ watches' = IF k = "watch" THEN watches \ {a} ELSE watches

Settle(a, k) ==
    /\ send[a][k].stage = "posted"
    /\ outbox' = [outbox EXCEPT ![a] = Settled(@, send[a][k].done)]
    /\ IF send[a][k].done \/ send[a][k].tries = 1
       THEN SendEnds(a, k) /\ send' = [send EXCEPT ![a][k] = NoSend]
       ELSE UNCHANGED <<adv, watches>> /\ send' = [send EXCEPT ![a][k] = Try(@.tries - 1)]
    /\ orphans' = IF a \in Pending \ Pending' /\ ~outbox[a].known
                  THEN orphans \cup {a} ELSE orphans
    /\ UNCHANGED <<server, signedIn, tick, current, manual, worker, opened, begun, counters>>

\* There is nothing left to send, or no session to send it with.
NothingToSend(a, k) ==
    /\ send[a][k].stage = "try" /\ (outbox[a] = NoEntry \/ ~signedIn)
    /\ send' = [send EXCEPT ![a][k] = NoSend]
    /\ UNCHANGED outbox
    /\ SendEnds(a, k)
    /\ UNCHANGED <<server, signedIn, tick, current, manual, worker, opened, orphans, begun,
                   counters>>

SendStep(a, k) ==
    \/ Post(a, k)
    \/ LosePost(a, k)
    \/ Settle(a, k)
    \/ NothingToSend(a, k)

-----------------------------------------------------------------------------
(* Ticks.                                                                  *)

\* The alarm, or "Apply now".
RequestTick ==
    /\ worker /\ signedIn
    /\ UNCHANGED outbox
    /\ \/ /\ ~tick.on /\ current = NoRun
          /\ tick' = NewTick
          /\ begun' = [a \in Apps |-> 0]
          /\ ticks < MaxTicks /\ ticks' = ticks + 1
       \/ /\ ~tick.on /\ current # NoRun
          /\ UNCHANGED <<tick, begun, ticks>>
    /\ adv' = Started
    /\ UNCHANGED <<server, signedIn, current, manual, watches, worker, send, opened, orphans,
                   faults, byHand>>

Waiting(k) == \E a \in Apps : Sending(a, k)

\* flushPendingReports: one try for each report found in the outbox.
FlushNext(a) ==
    /\ adv.pc = "loop" /\ a \in adv.todo /\ ~Waiting("advance")
    /\ adv' = [adv EXCEPT !.todo = @ \ {a}]
    /\ send' = [send EXCEPT ![a]["advance"] = Try(1)]
    /\ UNCHANGED <<server, signedIn, session, worker, opened, orphans, begun, counters>>

Looping == adv.pc = "loop" /\ adv.todo = {} /\ ~Waiting("advance")

\* The checks at the head of the loop, the autopilot switched off, nothing to
\* claim, or a claim that never reached the server.
AdvanceReturns ==
    /\ Looping
    /\ tick' = IF ~tick.on \/ current # NoRun THEN tick ELSE NoTick
    /\ adv' = Idle
    /\ UNCHANGED <<server, signedIn, current, manual, watches, outbox, worker, send, opened,
                   orphans, begun, counters>>

\* Mutant: the loop does not ask whether an application is being worked.
MayClaimMore == Looping /\ tick.on /\ signedIn /\ tick.processed < TickLimit

MayClaim ==
    Looping /\ tick.on /\ current = NoRun /\ signedIn /\ tick.processed < TickLimit

\* The server leases a; its answer is on the way.
Claim(a) ==
    /\ MayClaim /\ Claimable(a)
    /\ server' = [server EXCEPT ![a] = "in_progress"]
    /\ adv' = [Idle EXCEPT !.pc = "leased", !.app = a, !.seen = tick.seen]
    /\ orphans' = orphans \ {a}
    /\ UNCHANGED <<signedIn, session, worker, send, opened, begun, counters>>

ClaimAnswerLost ==
    /\ adv.pc = "leased"
    /\ faults < MaxFaults
    /\ faults' = faults + 1
    /\ orphans' = orphans \cup {adv.app}
    /\ tick' = NoTick
    /\ adv' = Idle
    /\ UNCHANGED <<server, signedIn, current, manual, watches, outbox, worker, send, opened,
                   begun, byHand, ticks>>

Repeated == adv.app \in adv.seen \cup manual

\* Mutant: the tick does not note which applications it has seen.
SeenForgotten == tick

Seen == IF tick.on THEN [tick EXCEPT !.seen = @ \cup {adv.app}] ELSE tick

HandBack ==
    /\ adv.pc = "leased" /\ Repeated
    /\ Deliver(adv.app, "released", "advance")
    /\ adv' = [adv EXCEPT !.pc = "handback"]
    /\ UNCHANGED <<server, signedIn, tick, current, manual, watches, worker, opened, orphans,
                   begun, counters>>

HandedBack ==
    /\ adv.pc = "handback" /\ ~Waiting("advance")
    /\ tick' = NoTick
    /\ adv' = Idle
    /\ UNCHANGED <<server, signedIn, current, manual, watches, outbox, worker, send, opened,
                   orphans, begun, counters>>

-----------------------------------------------------------------------------
(* One application.                                                        *)

NoFormToOpen ==
    /\ adv.pc = "leased" /\ ~Repeated
    /\ tick' = Seen
    /\ Deliver(adv.app, "failed", "advance")
    /\ adv' = [adv EXCEPT !.pc = "noform"]
    /\ UNCHANGED <<server, signedIn, current, manual, watches, worker, opened, orphans, begun,
                   counters>>

Counted(t) == IF t.on THEN [t EXCEPT !.processed = @ + 1] ELSE t

NextAfterNoForm ==
    /\ adv.pc = "noform" /\ ~Waiting("advance")
    /\ tick' = Counted(tick)
    /\ adv' = Loop({})
    /\ UNCHANGED <<server, signedIn, current, manual, watches, outbox, worker, send, opened,
                   orphans, begun, counters>>

BeginApplication ==
    /\ adv.pc = "leased" /\ ~Repeated
    /\ tick' = Seen
    /\ current' = [app |-> adv.app, tab |-> FALSE]
    /\ begun' = [begun EXCEPT ![adv.app] = @ + 1]
    /\ adv' = [adv EXCEPT !.pc = "opening"]
    /\ UNCHANGED <<server, signedIn, manual, watches, outbox, worker, send, opened, orphans,
                   counters>>

\* The run may have been stopped meanwhile.
TabOpened ==
    /\ adv.pc = "opening"
    /\ current' = IF current.app = adv.app THEN [current EXCEPT !.tab = TRUE] ELSE current
    /\ adv' = Idle
    /\ UNCHANGED <<server, signedIn, tick, manual, watches, outbox, worker, send, opened,
                   orphans, begun, counters>>

\* finishRun of an autopilot run: `finishing` lets one call work on a run.
FinishRun(a, rep, tabStays) ==
    /\ ~Sending(a, "finish")
    /\ current' = IF current.app = a THEN NoRun ELSE current
    /\ tick' = IF rep = "released" THEN NoTick ELSE Counted(tick)
    /\ watches' = IF rep # "needs_input" THEN watches
                  ELSE IF tabStays THEN watches \cup {a} ELSE watches \ {a}
    /\ Deliver(a, rep, "finish")
    /\ UNCHANGED <<server, signedIn, manual, worker, opened, orphans, begun, counters>>

OpenFails ==
    /\ adv.pc = "opening"
    /\ \/ /\ FinishRun(adv.app, "released", FALSE)
          /\ adv' = [adv EXCEPT !.pc = "failing"]
       \/ /\ Sending(adv.app, "finish")
          /\ adv' = Idle
          /\ UNCHANGED <<server, signedIn, session, worker, send, opened, orphans, begun,
                         counters>>

\* The content script's result, a page that never loads, or the deadline.
RunEnds ==
    /\ worker /\ current.tab
    /\ \E rep \in Reports : FinishRun(current.app, rep, TRUE)
    /\ UNCHANGED adv

TabClosed ==
    /\ worker /\ current.tab
    /\ FinishRun(current.app, "needs_input", FALSE)
    /\ UNCHANGED adv

\* Mutant: the run is dropped without a report.
RecoverSilently ==
    /\ worker /\ current # NoRun /\ ~current.tab /\ adv.pc # "opening"
    /\ current' = NoRun
    /\ UNCHANGED <<server, signedIn, tick, manual, watches, outbox, memory, orphans, begun,
                   counters>>

\* recover: claimed, but the tab was never opened.
Recover ==
    /\ worker /\ current # NoRun /\ ~current.tab /\ adv.pc # "opening"
    /\ FinishRun(current.app, "released", FALSE)
    /\ UNCHANGED adv

StopCurrent ==
    /\ worker
    /\ \/ current # NoRun /\ FinishRun(current.app, "released", FALSE) /\ UNCHANGED adv
       \/ /\ current = NoRun /\ tick.on
          /\ tick' = NoTick
          /\ UNCHANGED <<server, signedIn, current, manual, watches, outbox, memory, orphans,
                         begun, counters>>

-----------------------------------------------------------------------------
(* Filling by hand, and watched tabs.                                      *)

\* startManualFill reads the packet; a failed application is retried first.
OpenPacket(a) ==
    /\ worker /\ signedIn /\ current.app # a /\ byHand < MaxByHand
    /\ server[a] \in {"ready", "needs_input", "failed"}
    /\ server' = [server EXCEPT ![a] = IF @ = "failed" THEN "ready" ELSE @]
    /\ opened' = opened \cup {a}
    /\ byHand' = byHand + 1
    /\ UNCHANGED <<signedIn, session, worker, adv, send, orphans, begun, faults, ticks>>

\* ... and starts: a watch on this tab ends.
StartManualFill(a) ==
    /\ a \in opened
    /\ opened' = opened \ {a}
    /\ manual' = manual \cup {a}
    /\ watches' \in {watches, watches \ {a}}
    /\ UNCHANGED <<server, signedIn, tick, current, outbox, worker, adv, send, orphans, begun,
                   counters>>

\* Only "needs you" is reported.
ManualEnds(a) ==
    /\ worker /\ a \in manual
    /\ manual' = manual \ {a}
    /\ \/ /\ ~Sending(a, "finish")
          /\ Deliver(a, "needs_input", "finish")
          /\ watches' = watches \cup {a}
          /\ UNCHANGED adv
       \/ /\ UNCHANGED <<outbox, send, watches>>
          /\ adv' \in {Started, adv}       \* adv: the tab was closed
    /\ UNCHANGED <<server, signedIn, tick, current, worker, opened, orphans, begun, counters>>

\* The user submitted it in the watched tab.
WatchConfirmed(a) ==
    /\ worker /\ a \in watches /\ ~Sending(a, "watch")
    /\ byHand < MaxByHand
    /\ byHand' = byHand + 1
    /\ Deliver(a, "submitted", "watch")
    /\ UNCHANGED <<server, signedIn, tick, current, manual, watches, worker, adv, opened,
                   orphans, begun, faults, ticks>>

\* The tab is closed, or its three hours are over.
WatchEnds(a) ==
    /\ worker /\ a \in watches
    /\ watches' = watches \ {a}
    /\ UNCHANGED <<server, signedIn, tick, current, manual, outbox, memory, orphans, begun,
                   counters>>

-----------------------------------------------------------------------------
(* Lifecycle.                                                              *)

InHand == Apps \cap ({current.app} \cup Pending)

\* onSignedOut: the device was revoked or the user signed out.
SignedOut ==
    /\ worker /\ signedIn
    /\ faults < MaxFaults
    /\ faults' = faults + 1
    /\ signedIn' = FALSE
    /\ tick' = NoTick /\ current' = NoRun /\ manual' = {} /\ watches' = {}
    /\ outbox' = [a \in Apps |-> NoEntry]
    /\ orphans' = orphans \cup InHand
    /\ UNCHANGED <<server, memory, begun, byHand, ticks>>

SignIn ==
    /\ worker /\ ~signedIn
    /\ signedIn' = TRUE
    /\ UNCHANGED <<server, session, memory, orphans, begun, counters>>

StopWorker ==
    /\ worker' = FALSE
    /\ adv' = Idle
    /\ send' = [a \in Apps |-> [k \in Senders |-> NoSend]]
    /\ opened' = {}
    /\ UNCHANGED <<server, signedIn, session, begun, byHand, ticks>>

\* A browser update, the extension reloaded, a wait that outlasts the browser's patience.
Dies ==
    /\ worker
    /\ faults < MaxFaults
    /\ faults' = faults + 1
    /\ orphans' = IF adv.pc = "leased" THEN orphans \cup {adv.app} ELSE orphans
    /\ StopWorker

\* Chrome stops an idle worker; a run keeps it alive.
IdleStops ==
    /\ worker /\ adv.pc = "idle" /\ current = NoRun /\ manual = {} /\ opened = {}
    /\ \A k \in Senders : ~Waiting(k)
    /\ UNCHANGED <<orphans, faults>>
    /\ StopWorker

\* The watchdog's alarm, while a form is filled by hand.
Watchdog ==
    /\ worker /\ manual # {} /\ tick.on /\ current = NoRun
    /\ UNCHANGED outbox
    /\ adv' = Started
    /\ UNCHANGED <<server, signedIn, tick, current, manual, watches, worker, send, opened,
                   orphans, begun, counters>>

\* Mutant: what is in the outbox waits for the next tick.
WakeUpUnsent ==
    /\ ~worker
    /\ worker' = TRUE
    /\ UNCHANGED outbox
    /\ adv' = IF tick.on /\ current = NoRun THEN Started ELSE adv
    /\ UNCHANGED <<server, signedIn, tick, current, manual, watches, send, opened, orphans,
                   begun, counters>>

\* Mutant: the tick is not taken up again.
WakeUpIdle ==
    /\ ~worker
    /\ worker' = TRUE
    /\ UNCHANGED outbox
    /\ adv' = IF signedIn /\ Pending # {} THEN Started ELSE adv
    /\ UNCHANGED <<server, signedIn, tick, current, manual, watches, send, opened, orphans,
                   begun, counters>>

\* Any event; initRunner sends what is in the outbox and takes the tick up.
WakeUp ==
    /\ ~worker
    /\ worker' = TRUE
    /\ UNCHANGED outbox
    /\ adv' = IF (signedIn /\ Pending # {}) \/ (tick.on /\ current = NoRun) THEN Started ELSE adv
    /\ UNCHANGED <<server, signedIn, tick, current, manual, watches, send, opened, orphans,
                   begun, counters>>

-----------------------------------------------------------------------------
AdvanceStep ==
    \/ \E a \in Apps : FlushNext(a) \/ Claim(a)
    \/ AdvanceReturns
    \/ ClaimAnswerLost
    \/ HandBack
    \/ HandedBack
    \/ NoFormToOpen
    \/ NextAfterNoForm
    \/ BeginApplication
    \/ TabOpened
    \/ OpenFails

UserStep ==
    \/ RequestTick
    \/ StopCurrent
    \/ TabClosed
    \/ SignedOut
    \/ SignIn
    \/ \E a \in Apps : \/ UserRetries(a)
                       \/ OpenPacket(a)
                       \/ StartManualFill(a)
                       \/ ManualEnds(a)
                       \/ WatchConfirmed(a)
                       \/ WatchEnds(a)

Next ==
    \/ AdvanceStep
    \/ \E a \in Apps, k \in Senders : SendStep(a, k)
    \/ UserStep
    \/ RunEnds
    \/ Recover
    \/ \E a \in Apps : LeaseExpires(a)
    \/ Watchdog
    \/ Dies
    \/ IdleStops
    \/ WakeUp

Spec == Init /\ [][Next]_vars

(* Requests are answered or time out; a run, also one by hand, has a       *)
(* deadline with an alarm; the watchdog recovers; Chrome stops an idle     *)
(* worker after half a minute, and the next page load wakes it.            *)
Fairness ==
    /\ WF_vars(AdvanceStep)
    /\ \A a \in Apps, k \in Senders : WF_vars(SendStep(a, k))
    /\ \A a \in Apps : WF_vars(StartManualFill(a)) /\ WF_vars(ManualEnds(a))
    /\ WF_vars(RunEnds) /\ WF_vars(Recover)
    /\ WF_vars(IdleStops) /\ WF_vars(WakeUp)

FairSpec == Spec /\ Fairness

-----------------------------------------------------------------------------
(* Properties.                                                             *)

(* No claim is forgotten: what the server holds for this extension is being*)
(* taken up or worked, or has a report in the outbox - unless the server's *)
(* answer to the claim was lost, the user signed out, or its report left   *)
(* the outbox before the server had answered it.                           *)
ClaimsAccounted ==
    \A a \in Apps : server[a] = "in_progress" =>
        \/ a \in {adv.app, current.app} \cup Pending
        \/ a \in orphans

(* "Strictly one at a time": a run is over before the next one begins,     *)
(* whoever ends it and however many requests to start one come in.         *)
OneAtATime ==
    [][current.app # NoApp => current'.app \in {current.app, NoApp}]_vars

(* A tick does not begin an application twice, although its claim comes    *)
(* back when it was given up, or retried in the dashboard.                 *)
BegunOncePerTick ==
    \A a \in Apps : begun[a] <= 1

(* A tick ends, whatever becomes of its claims, runs and reports: as long  *)
(* as one is on, the alarm starts no other.                                *)
TickEnds == tick.on ~> ~tick.on

(* A report leaves the outbox, unless the user signs out for good.         *)
OutboxDrains ==
    \A a \in Apps : (outbox[a] # NoEntry /\ signedIn) ~> (outbox[a] = NoEntry \/ ~signedIn)
=============================================================================
