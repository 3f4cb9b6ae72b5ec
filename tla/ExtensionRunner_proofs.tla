----------------------- MODULE ExtensionRunner_proofs -----------------------
(* For any applications, limits and bounds: the worker's state stays well    *)
(* formed, and a run is over before the next one begins.  advance() looks    *)
(* for a run before it claims, and starts one only after the answer; what    *)
(* must be shown is that nothing puts a run there in between.                *)
EXTENDS ExtensionRunner, TLAPS

Taken == {"leased", "opening", "failing", "handback", "noform"}

AdvInv ==
    /\ adv \in AdvRec
    /\ adv.pc \in Taken => adv.app \in Apps
    /\ adv.pc = "leased" => current = NoRun

\* Whoever is sending has a try left.
SendOk == {s \in SendRec : s.stage # "idle" => s.tries >= 1}

OutboxInv ==
    /\ outbox \in [Apps -> Entry \cup {NoEntry}]
    /\ send \in [Apps -> [Senders -> SendOk]]

SessionInv ==
    /\ tick \in TickRec
    /\ current \in [app : Apps \cup {NoApp}, tab : BOOLEAN]
    /\ current.app = NoApp => current = NoRun
    /\ manual \subseteq Apps /\ watches \subseteq Apps

RestInv ==
    /\ server \in [Apps -> Statuses]
    /\ signedIn \in BOOLEAN
    /\ worker \in BOOLEAN
    /\ opened \subseteq Apps
    /\ orphans \subseteq Apps
    /\ begun \in [Apps -> Nat]
    /\ faults \in Nat /\ byHand \in Nat /\ ticks \in Nat

IInv == AdvInv /\ OutboxInv /\ SessionInv /\ RestInv

\* What a step may do to the run.
RunKept == current.app # NoApp => current'.app \in {current.app, NoApp}

LEMMA Typed == IInv => TypeOK
  <1>1. SendOk \subseteq SendRec
    BY DEF SendOk
  <1>2. ASSUME OutboxInv PROVE send \in [Apps -> [Senders -> SendRec]]
    BY <1>1, <1>2 DEF OutboxInv
  <1> QED
    BY <1>2 DEF IInv, AdvInv, OutboxInv, SessionInv, RestInv, TypeOK

-----------------------------------------------------------------------------
(* The records.                                                            *)

LEMMA TickIsTyped ==
    /\ NoTick \in TickRec /\ NewTick \in TickRec
    /\ tick \in TickRec => Counted(tick) \in TickRec
    /\ tick \in TickRec /\ adv.app \in Apps => Seen \in TickRec
  <1>1. NoTick \in TickRec /\ NewTick \in TickRec
    BY DEF NoTick, NewTick, TickRec
  <1>2. ASSUME tick \in TickRec PROVE Counted(tick) \in TickRec
    BY <1>2 DEF TickRec, Counted
  <1>3. ASSUME tick \in TickRec, adv.app \in Apps PROVE Seen \in TickRec
    <2>1. tick.seen \cup {adv.app} \in SUBSET Apps
      BY <1>3 DEF TickRec
    <2>2. [tick EXCEPT !.seen = @ \cup {adv.app}] \in TickRec
      BY <1>3, <2>1 DEF TickRec
    <2> QED
      BY <1>3, <2>2 DEF Seen
  <1> QED
    BY <1>1, <1>2, <1>3

LEMMA SendIsTyped ==
    /\ NoSend \in SendOk
    /\ \A n \in 1..Tries : Try(n) \in SendOk
    /\ \A s \in SendOk, done \in BOOLEAN : s.stage = "try" => Posted(s, done) \in SendOk
    /\ Tries \in 1..Tries /\ 1 \in 1..Tries
  <1>1. NoSend \in SendOk
    BY RunnerAssumption DEF NoSend, SendRec, SendOk
  <1>2. ASSUME NEW n \in 1..Tries PROVE Try(n) \in SendOk
    <2>1. n \in 0..Tries /\ n >= 1
      BY RunnerAssumption
    <2> QED
      BY <2>1 DEF Try, SendRec, SendOk
  <1>3. ASSUME NEW s \in SendOk, NEW done \in BOOLEAN, s.stage = "try"
        PROVE  Posted(s, done) \in SendOk
    BY <1>3, RunnerAssumption DEF SendRec, SendOk, Posted
  <1>4. Tries \in 1..Tries /\ 1 \in 1..Tries
    BY RunnerAssumption
  <1> QED
    BY <1>1, <1>2, <1>3, <1>4

LEMMA AdvIsTyped ==
    /\ Idle \in AdvRec /\ Idle.pc = "idle"
    /\ \A T \in SUBSET Apps : Loop(T) \in AdvRec /\ Loop(T).pc = "loop"
  BY DEF Idle, AdvRec, AdvStates, Loop

LEMMA EntryIsTyped ==
    /\ \A r \in Reports : NewEntry(r) \in Entry
    /\ \A e \in Entry \cup {NoEntry}, done \in BOOLEAN : Settled(e, done) \in Entry \cup {NoEntry}
  <1>1. \A r \in Reports : NewEntry(r) \in Entry
    <2>1. 0 \in 0..MaxReportAttempts
      BY RunnerAssumption
    <2> QED
      BY <2>1 DEF NewEntry, Entry
  <1>2. ASSUME NEW e \in Entry, NEW done \in BOOLEAN, e.attempts + 1 < MaxReportAttempts
        PROVE  [e EXCEPT !.attempts = @ + 1] \in Entry
    BY <1>2, RunnerAssumption DEF Entry
  <1>3. ASSUME NEW e \in Entry \cup {NoEntry}, NEW done \in BOOLEAN
        PROVE  Settled(e, done) \in Entry \cup {NoEntry}
    <2>1. CASE e = NoEntry \/ done \/ e.attempts + 1 >= MaxReportAttempts
      BY <2>1 DEF Settled
    <2>2. CASE ~(e = NoEntry \/ done \/ e.attempts + 1 >= MaxReportAttempts)
      <3>1. e \in Entry /\ e.attempts \in Nat
        BY <2>2 DEF Entry
      <3>2. e.attempts + 1 < MaxReportAttempts
        BY <2>2, <3>1, RunnerAssumption
      <3> QED
        BY <1>2, <2>2, <3>1, <3>2 DEF Settled
    <2> QED
      BY <2>1, <2>2
  <1> QED
    BY <1>1, <1>3

\* A field of one sender's record changes.
LEMMA SendUpdated ==
    ASSUME send \in [Apps -> [Senders -> SendOk]], NEW a \in Apps, NEW k \in Senders,
           NEW s \in SendOk
    PROVE  [send EXCEPT ![a][k] = s] \in [Apps -> [Senders -> SendOk]]
  OBVIOUS

LEMMA StartedKeeps ==
    ASSUME AdvInv
    PROVE  /\ Started \in AdvRec
           /\ Started.pc \in Taken => Started.app \in Apps
           /\ Started.pc = "leased" => current = NoRun
  <1>1. Pending' \subseteq Apps
    BY DEF Pending
  <1>2. CASE adv.pc = "idle"
    BY <1>1, <1>2, AdvIsTyped DEF Started, Taken
  <1>3. CASE adv.pc # "idle"
    BY <1>3 DEF Started, AdvInv
  <1> QED
    BY <1>2, <1>3

\* advance() goes to another place, with its application.
LEMMA AdvMoved ==
    ASSUME adv \in AdvRec, NEW p \in AdvStates, adv' = [adv EXCEPT !.pc = p]
    PROVE  adv' \in AdvRec /\ adv'.pc = p /\ adv'.app = adv.app
  BY DEF AdvRec

LEMMA DeliverKeeps ==
    ASSUME OutboxInv, NEW a \in Apps, NEW rep \in Reports, NEW k \in Senders, Deliver(a, rep, k)
    PROVE  OutboxInv'
  <1>1. NewEntry(rep) \in Entry
    BY EntryIsTyped
  <1>2. outbox' \in [Apps -> Entry \cup {NoEntry}]
    BY <1>1 DEF Deliver, OutboxInv
  <1>3. Try(Tries) \in SendOk
    BY SendIsTyped
  <1>4. send' \in [Apps -> [Senders -> SendOk]]
    BY <1>3, SendUpdated DEF Deliver, OutboxInv
  <1> QED
    BY <1>2, <1>4 DEF OutboxInv

\* FinishRun takes the run away or leaves it, and says nothing of adv.
LEMMA FinishRunKeeps ==
    ASSUME IInv, NEW a \in Apps, NEW rep \in Reports, NEW stays \in BOOLEAN,
           FinishRun(a, rep, stays)
    PROVE  /\ OutboxInv' /\ SessionInv' /\ RestInv'
           /\ current' \in {current, NoRun}
           /\ RunKept
  <1>1. OutboxInv'
    <2>1. Deliver(a, rep, "finish") /\ "finish" \in Senders
      BY DEF FinishRun, Senders
    <2> QED
      BY <2>1, DeliverKeeps DEF IInv
  <1>2. current' \in {current, NoRun}
    BY DEF FinishRun
  <1>3. SessionInv'
    <2>1. tick' \in TickRec
      BY TickIsTyped DEF FinishRun, IInv, SessionInv
    <2>2. watches' \subseteq Apps /\ manual' \subseteq Apps
      BY DEF FinishRun, IInv, SessionInv
    <2>3. current' \in [app : Apps \cup {NoApp}, tab : BOOLEAN]
      <3>1. NoRun \in [app : Apps \cup {NoApp}, tab : BOOLEAN]
        BY DEF NoRun
      <3> QED
        BY <1>2, <3>1 DEF IInv, SessionInv
    <2>4. current'.app = NoApp => current' = NoRun
      BY <1>2 DEF IInv, SessionInv
    <2> QED
      BY <2>1, <2>2, <2>3, <2>4 DEF SessionInv
  <1>4. RestInv'
    BY DEF FinishRun, IInv, RestInv, counters
  <1>5. RunKept
    BY <1>2 DEF RunKept, NoRun
  <1> QED
    BY <1>1, <1>2, <1>3, <1>4, <1>5

\* Where a step leaves adv alone and current is as it was, or gone.
LEMMA AdvStays ==
    ASSUME AdvInv, adv' = adv, current' \in {current, NoRun}
    PROVE  AdvInv'
  BY DEF AdvInv

\* ... or starts advance().
LEMMA AdvStarted ==
    ASSUME AdvInv, adv' = Started, current' \in {current, NoRun}
    PROVE  AdvInv'
  BY StartedKeeps DEF AdvInv

\* ... or ends it, or sends it into its loop.
LEMMA AdvEnds ==
    ASSUME NEW T \in SUBSET Apps, adv' \in {Idle, Loop(T)}
    PROVE  AdvInv'
  BY AdvIsTyped DEF AdvInv, Taken

-----------------------------------------------------------------------------
(* The server's clock and its user.                                        *)

LEMMA ServerSteps ==
    ASSUME IInv, NEW a \in Apps, LeaseExpires(a) \/ UserRetries(a)
    PROVE  IInv' /\ RunKept
  <1>1. UNCHANGED <<adv, send, outbox, tick, current, manual, watches>>
    BY DEF LeaseExpires, UserRetries, session, memory
  <1>2. AdvInv' /\ OutboxInv' /\ SessionInv' /\ RunKept
    BY <1>1 DEF IInv, AdvInv, OutboxInv, SessionInv, RunKept
  <1>3. server' \in [Apps -> Statuses] /\ orphans' \subseteq Apps /\ byHand' \in Nat
    BY DEF LeaseExpires, UserRetries, IInv, RestInv, Statuses, counters
  <1>4. RestInv'
    BY <1>3 DEF LeaseExpires, UserRetries, IInv, RestInv, memory, counters
  <1> QED
    BY <1>2, <1>4 DEF IInv

-----------------------------------------------------------------------------
(* Sending.                                                                *)

LEMMA SendEndsKeeps ==
    ASSUME IInv, NEW a \in Apps, NEW k \in Senders, SendEnds(a, k), current' = current
    PROVE  AdvInv' /\ watches' \subseteq Apps
  <1>1. adv' \in {adv, Idle, Started}
    BY DEF SendEnds
  <1>2. AdvInv'
    BY <1>1, AdvStays, AdvStarted, AdvEnds DEF IInv
  <1>3. watches' \subseteq Apps
    BY DEF SendEnds, IInv, SessionInv
  <1> QED
    BY <1>2, <1>3

LEMMA PostKeeps ==
    ASSUME IInv, NEW a \in Apps, NEW k \in Senders, Post(a, k) \/ LosePost(a, k)
    PROVE  IInv' /\ RunKept
  <1>1. UNCHANGED <<adv, tick, current, manual, watches>>
    BY DEF Post, LosePost, session
  <1>2. AdvInv' /\ SessionInv' /\ RunKept
    BY <1>1 DEF IInv, AdvInv, SessionInv, RunKept
  <1>3. outbox' \in [Apps -> Entry \cup {NoEntry}]
    <2>1. CASE Post(a, k)
      <3>1. outbox[a] \in Entry
        BY <2>1 DEF Post, IInv, OutboxInv
      <3>2. [outbox[a] EXCEPT !.known = TRUE] \in Entry
        BY <3>1 DEF Entry
      <3>3. outbox' = [outbox EXCEPT ![a] = [outbox[a] EXCEPT !.known = TRUE]]
        BY <2>1 DEF Post
      <3> QED
        BY <3>2, <3>3 DEF IInv, OutboxInv
    <2>2. CASE LosePost(a, k)
      BY <2>2 DEF LosePost, IInv, OutboxInv, session
    <2> QED
      BY <2>1, <2>2
  <1>4. send' \in [Apps -> [Senders -> SendOk]]
    <2>1. PICK done \in BOOLEAN : send' = [send EXCEPT ![a][k] = Posted(send[a][k], done)]
      BY DEF Post, LosePost
    <2>2. send[a][k] \in SendOk /\ send[a][k].stage = "try"
      BY DEF IInv, OutboxInv, Post, LosePost
    <2>3. Posted(send[a][k], done) \in SendOk
      BY <2>2, SendIsTyped
    <2> QED
      BY <2>1, <2>3, SendUpdated DEF IInv, OutboxInv
  <1>5. server' \in [Apps -> Statuses] /\ orphans' \subseteq Apps /\ faults' \in Nat
    <2>1. CASE Post(a, k)
      <3>1. outbox[a].rep \in Reports
        BY <2>1 DEF Post, IInv, OutboxInv, Entry
      <3>2. Recorded(outbox[a].rep) \in Statuses
        BY <3>1 DEF Recorded, Reports, Statuses
      <3>3. server' \in [Apps -> Statuses]
        BY <2>1, <3>2 DEF Post, IInv, RestInv
      <3> QED
        BY <2>1, <3>3 DEF Post, IInv, RestInv
    <2>2. CASE LosePost(a, k)
      BY <2>2 DEF LosePost, IInv, RestInv
    <2> QED
      BY <2>1, <2>2
  <1>6. RestInv'
    BY <1>5 DEF Post, LosePost, IInv, RestInv
  <1> QED
    BY <1>2, <1>3, <1>4, <1>6 DEF IInv, OutboxInv

LEMMA SettleKeeps ==
    ASSUME IInv, NEW a \in Apps, NEW k \in Senders, Settle(a, k)
    PROVE  IInv' /\ RunKept
  <1>1. send[a][k] \in SendOk /\ outbox[a] \in Entry \cup {NoEntry}
    BY DEF IInv, OutboxInv
  <1>2. current' = current /\ RunKept
    BY DEF Settle, RunKept
  <1>3. outbox' \in [Apps -> Entry \cup {NoEntry}]
    <2>1. send[a][k].done \in BOOLEAN
      BY <1>1 DEF SendOk, SendRec
    <2>2. Settled(outbox[a], send[a][k].done) \in Entry \cup {NoEntry}
      BY <1>1, <2>1, EntryIsTyped
    <2> QED
      BY <2>2 DEF Settle, IInv, OutboxInv
  <1>4. /\ send' \in [Apps -> [Senders -> SendOk]]
        /\ AdvInv' /\ watches' \subseteq Apps
    <2>1. CASE send[a][k].done \/ send[a][k].tries = 1
      <3>1. SendEnds(a, k) /\ send' = [send EXCEPT ![a][k] = NoSend]
        BY <2>1 DEF Settle
      <3> QED
        BY <3>1, <1>2, SendEndsKeeps, SendIsTyped, SendUpdated DEF IInv, OutboxInv
    <2>2. CASE ~(send[a][k].done \/ send[a][k].tries = 1)
      <3>1. UNCHANGED <<adv, watches>>
        BY <2>2 DEF Settle
      <3>2. AdvInv' /\ watches' \subseteq Apps
        BY <3>1, <1>2, AdvStays DEF IInv, SessionInv
      <3>3. send' = [send EXCEPT ![a][k] = Try(send[a][k].tries - 1)]
        BY <2>2 DEF Settle
      <3>4. send[a][k].tries - 1 \in 1..Tries
        BY <1>1, <2>2, RunnerAssumption DEF Settle, SendOk, SendRec
      <3>5. send' \in [Apps -> [Senders -> SendOk]]
        BY <3>3, <3>4, SendIsTyped, SendUpdated DEF IInv, OutboxInv
      <3> QED
        BY <3>2, <3>5
    <2> QED
      BY <2>1, <2>2
  <1>5. SessionInv'
    BY <1>4 DEF Settle, IInv, SessionInv
  <1>6. RestInv'
    BY DEF Settle, IInv, RestInv, counters, Pending
  <1> QED
    BY <1>2, <1>3, <1>4, <1>5, <1>6 DEF IInv, OutboxInv

LEMMA NothingToSendKeeps ==
    ASSUME IInv, NEW a \in Apps, NEW k \in Senders, NothingToSend(a, k)
    PROVE  IInv' /\ RunKept
  <1>1. current' = current /\ RunKept
    BY DEF NothingToSend, RunKept
  <1>2. AdvInv' /\ watches' \subseteq Apps
    BY <1>1, SendEndsKeeps DEF NothingToSend
  <1>3. OutboxInv'
    <2>1. send' = [send EXCEPT ![a][k] = NoSend] /\ outbox' = outbox
      BY DEF NothingToSend
    <2> QED
      BY <2>1, SendIsTyped, SendUpdated DEF IInv, OutboxInv
  <1>4. SessionInv' /\ RestInv'
    BY <1>2 DEF NothingToSend, IInv, SessionInv, RestInv, counters
  <1> QED
    BY <1>1, <1>2, <1>3, <1>4 DEF IInv

LEMMA SendStepKeeps ==
    ASSUME IInv, NEW a \in Apps, NEW k \in Senders, SendStep(a, k)
    PROVE  IInv' /\ RunKept
  BY PostKeeps, SettleKeeps, NothingToSendKeeps DEF SendStep

-----------------------------------------------------------------------------
(* advance().                                                              *)

\* Steps of advance() that neither send nor touch the run.
LEMMA LoopSteps ==
    ASSUME IInv,
           \/ AdvanceReturns \/ ClaimAnswerLost \/ HandedBack \/ NextAfterNoForm
    PROVE  IInv' /\ RunKept
  <1>1. UNCHANGED <<current, manual, watches, outbox, send>> /\ adv' \in {Idle, Loop({})}
    BY DEF AdvanceReturns, ClaimAnswerLost, HandedBack, NextAfterNoForm
  <1>2. AdvInv'
    <2>1. {} \in SUBSET Apps
      OBVIOUS
    <2> QED
      BY <1>1, <2>1, AdvEnds
  <1>3. tick' \in TickRec
    BY TickIsTyped DEF AdvanceReturns, ClaimAnswerLost, HandedBack, NextAfterNoForm, IInv,
       SessionInv
  <1>4. adv.pc = "leased" => adv.app \in Apps
    BY DEF IInv, AdvInv, Taken
  <1>5. orphans' \subseteq Apps /\ faults' \in Nat
    BY <1>4 DEF AdvanceReturns, ClaimAnswerLost, HandedBack, NextAfterNoForm, IInv, RestInv,
       counters
  <1>6. RestInv'
    BY <1>5 DEF AdvanceReturns, ClaimAnswerLost, HandedBack, NextAfterNoForm, IInv, RestInv,
       counters
  <1>7. OutboxInv' /\ SessionInv' /\ RunKept
    BY <1>1, <1>3 DEF IInv, OutboxInv, SessionInv, RunKept
  <1> QED
    BY <1>2, <1>6, <1>7 DEF IInv

LEMMA FlushKeeps ==
    ASSUME IInv, NEW a \in Apps, FlushNext(a)
    PROVE  IInv' /\ RunKept
  <1>1. OutboxInv'
    <2>1. Try(1) \in SendOk /\ "advance" \in Senders
      BY SendIsTyped DEF Senders
    <2>2. send' = [send EXCEPT ![a]["advance"] = Try(1)] /\ outbox' = outbox
      BY DEF FlushNext, session
    <2> QED
      BY <2>1, <2>2, SendUpdated DEF IInv, OutboxInv
  <1>2. AdvInv'
    BY DEF FlushNext, IInv, AdvInv, AdvRec, Taken
  <1>3. SessionInv' /\ RestInv' /\ RunKept
    BY DEF FlushNext, IInv, SessionInv, RestInv, RunKept, session, counters
  <1> QED
    BY <1>1, <1>2, <1>3 DEF IInv

\* advance() claims only where nothing is worked.
LEMMA ClaimKeeps ==
    ASSUME IInv, NEW a \in Apps, Claim(a)
    PROVE  IInv' /\ RunKept
  <1>1. UNCHANGED <<tick, current, manual, watches, outbox, send>> /\ current = NoRun
    BY DEF Claim, MayClaim, session
  <1>2. adv' = [pc |-> "leased", app |-> a, seen |-> tick.seen, todo |-> {}]
    BY DEF Claim, Idle
  <1>3. tick.seen \subseteq Apps
    BY DEF IInv, SessionInv, TickRec
  <1>4. AdvInv'
    BY <1>1, <1>2, <1>3 DEF AdvInv, AdvRec, AdvStates
  <1>5. OutboxInv' /\ SessionInv' /\ RunKept
    BY <1>1 DEF IInv, OutboxInv, SessionInv, RunKept
  <1>6. RestInv'
    BY DEF Claim, IInv, RestInv, counters, Statuses
  <1> QED
    BY <1>4, <1>5, <1>6 DEF IInv

\* The claim is given back, or failed.
LEMMA RefusalKeeps ==
    ASSUME IInv, HandBack \/ NoFormToOpen
    PROVE  IInv' /\ RunKept
  <1>1. adv.app \in Apps
    BY DEF HandBack, NoFormToOpen, IInv, AdvInv, Taken
  <1>2. OutboxInv'
    <2>1. PICK rep \in Reports : Deliver(adv.app, rep, "advance")
      BY DEF HandBack, NoFormToOpen, Reports
    <2> QED
      BY <1>1, <2>1, DeliverKeeps DEF IInv, Senders
  <1>3. PICK p \in {"handback", "noform"} : adv' = [adv EXCEPT !.pc = p]
    BY DEF HandBack, NoFormToOpen
  <1>4. AdvInv'
    <2>1. adv' \in AdvRec /\ adv'.pc = p /\ adv'.app = adv.app
      BY <1>3, AdvMoved DEF IInv, AdvInv, AdvStates
    <2> QED
      BY <1>1, <2>1 DEF AdvInv
  <1>5. tick' \in TickRec /\ UNCHANGED <<current, manual, watches>>
    BY <1>1, TickIsTyped DEF HandBack, NoFormToOpen, IInv, SessionInv
  <1>6. SessionInv' /\ RunKept
    BY <1>5 DEF IInv, SessionInv, RunKept
  <1>7. RestInv'
    BY DEF HandBack, NoFormToOpen, IInv, RestInv, counters
  <1> QED
    BY <1>2, <1>4, <1>6, <1>7 DEF IInv

\* The answer to the claim finds no run, as the claim did.
LEMMA BeginKeeps ==
    ASSUME IInv, BeginApplication
    PROVE  IInv' /\ RunKept
  <1>1. adv.app \in Apps /\ current = NoRun
    BY DEF BeginApplication, IInv, AdvInv, Taken
  <1>2. adv' \in AdvRec /\ adv'.pc = "opening" /\ adv'.app = adv.app
    BY AdvMoved DEF BeginApplication, IInv, AdvInv, AdvStates
  <1>3. AdvInv' /\ RunKept
    BY <1>1, <1>2 DEF AdvInv, RunKept, NoRun
  <1>4. OutboxInv'
    BY DEF BeginApplication, IInv, OutboxInv
  <1>5. SessionInv'
    <2>1. current' = [app |-> adv.app, tab |-> FALSE] /\ adv.app # NoApp
      BY <1>1, RunnerAssumption DEF BeginApplication
    <2> QED
      BY <1>1, <2>1, TickIsTyped DEF BeginApplication, IInv, SessionInv
  <1>6. RestInv'
    BY <1>1 DEF BeginApplication, IInv, RestInv, counters
  <1> QED
    BY <1>3, <1>4, <1>5, <1>6 DEF IInv

LEMMA OpenedKeeps ==
    ASSUME IInv, TabOpened
    PROVE  IInv' /\ RunKept
  <1>1. adv' = Idle /\ AdvInv'
    BY AdvEnds DEF TabOpened
  <1>2. current' \in [app : Apps \cup {NoApp}, tab : BOOLEAN] /\ current'.app = current.app
    BY DEF TabOpened, IInv, SessionInv
  <1>3. current'.app = NoApp => current' = NoRun
    <2>1. adv.app \in Apps
      BY DEF TabOpened, IInv, AdvInv, Taken
    <2> QED
      BY <2>1, RunnerAssumption DEF TabOpened, IInv, SessionInv
  <1>4. OutboxInv' /\ SessionInv' /\ RestInv' /\ RunKept
    BY <1>2, <1>3 DEF TabOpened, IInv, OutboxInv, SessionInv, RestInv, RunKept, counters
  <1> QED
    BY <1>1, <1>4 DEF IInv

LEMMA OpenFailsKeeps ==
    ASSUME IInv, OpenFails
    PROVE  IInv' /\ RunKept
  <1>1. adv.app \in Apps
    BY DEF OpenFails, IInv, AdvInv, Taken
  <1>2. CASE FinishRun(adv.app, "released", FALSE) /\ adv' = [adv EXCEPT !.pc = "failing"]
    <2>1. adv' \in AdvRec /\ adv'.pc = "failing" /\ adv'.app = adv.app
      BY <1>2, AdvMoved DEF IInv, AdvInv, AdvStates
    <2>2. AdvInv'
      BY <1>1, <2>1 DEF AdvInv
    <2> QED
      BY <1>1, <1>2, <2>2, FinishRunKeeps DEF IInv, Reports
  <1>3. CASE adv' = Idle /\ UNCHANGED <<server, signedIn, session, worker, send, opened, orphans,
                                       begun, counters>>
    BY <1>3, AdvEnds DEF IInv, OutboxInv, SessionInv, RestInv, RunKept, session, counters
  <1> QED
    BY <1>2, <1>3 DEF OpenFails

LEMMA AdvanceKeeps == IInv /\ AdvanceStep => IInv' /\ RunKept
  BY FlushKeeps, ClaimKeeps, LoopSteps, RefusalKeeps, BeginKeeps, OpenedKeeps, OpenFailsKeeps
     DEF AdvanceStep

-----------------------------------------------------------------------------
(* Ticks, runs, forms filled by hand, and the worker's life.               *)

LEMMA RequestKeeps ==
    ASSUME IInv, RequestTick \/ Watchdog \/ WakeUp
    PROVE  IInv' /\ RunKept
  <1>1. current' = current /\ adv' \in {adv, Started}
    BY DEF RequestTick, Watchdog, WakeUp
  <1>2. AdvInv' /\ RunKept
    BY <1>1, AdvStays, AdvStarted DEF IInv, RunKept
  <1>3. tick' \in TickRec
    BY TickIsTyped DEF RequestTick, Watchdog, WakeUp, IInv, SessionInv
  <1>4. OutboxInv' /\ SessionInv'
    BY <1>3 DEF RequestTick, Watchdog, WakeUp, IInv, OutboxInv, SessionInv
  <1>5. RestInv'
    <2>1. begun' \in [Apps -> Nat] /\ ticks' \in Nat
      BY DEF RequestTick, Watchdog, WakeUp, IInv, RestInv, counters
    <2> QED
      BY <2>1 DEF RequestTick, Watchdog, WakeUp, IInv, RestInv, counters
  <1> QED
    BY <1>2, <1>4, <1>5 DEF IInv

\* Whatever ends a run but advance() itself.
LEMMA RunEndsKeeps ==
    ASSUME IInv, RunEnds \/ TabClosed \/ Recover \/ StopCurrent
    PROVE  IInv' /\ RunKept
  <1>1. CASE \E rep \in Reports, stays \in BOOLEAN :
               /\ current # NoRun
               /\ FinishRun(current.app, rep, stays)
               /\ UNCHANGED adv
    <2>1. PICK rep \in Reports, stays \in BOOLEAN : FinishRun(current.app, rep, stays)
      BY <1>1
    <2>2. current.app \in Apps
      BY <1>1 DEF IInv, SessionInv
    <2>3. OutboxInv' /\ SessionInv' /\ RestInv' /\ current' \in {current, NoRun} /\ RunKept
      BY <2>1, <2>2, FinishRunKeeps
    <2> QED
      BY <1>1, <2>3, AdvStays DEF IInv
  <1>2. CASE /\ UNCHANGED <<server, signedIn, current, manual, watches, outbox, memory, orphans,
                           begun, counters>>
             /\ tick' = NoTick
    BY <1>2, TickIsTyped, AdvStays DEF IInv, OutboxInv, SessionInv, RestInv, RunKept, memory,
       counters
  <1>3. ASSUME RunEnds \/ TabClosed PROVE current # NoRun
    <2>1. current.tab /\ ~NoRun.tab
      BY <1>3 DEF RunEnds, TabClosed, NoRun
    <2> QED
      BY <2>1
  <1> QED
    BY <1>1, <1>2, <1>3 DEF RunEnds, TabClosed, Recover, StopCurrent, Reports

\* Forms filled by hand, and watched tabs.
LEMMA ByHandKeeps ==
    ASSUME IInv, NEW a \in Apps,
           \/ OpenPacket(a) \/ StartManualFill(a) \/ ManualEnds(a) \/ WatchConfirmed(a)
           \/ WatchEnds(a)
    PROVE  IInv' /\ RunKept
  <1>1. UNCHANGED <<current, tick>> /\ adv' \in {adv, Started}
    BY DEF OpenPacket, StartManualFill, ManualEnds, WatchConfirmed, WatchEnds, session, memory
  <1>2. AdvInv' /\ RunKept
    BY <1>1, AdvStays, AdvStarted DEF IInv, RunKept
  <1>3. OutboxInv'
    <2>1. CASE UNCHANGED <<outbox, send>>
      BY <2>1 DEF IInv, OutboxInv
    <2>2. CASE Deliver(a, "needs_input", "finish") \/ Deliver(a, "submitted", "watch")
      BY <2>2, DeliverKeeps DEF IInv, Reports, Senders
    <2> QED
      BY <2>1, <2>2 DEF OpenPacket, StartManualFill, ManualEnds, WatchConfirmed, WatchEnds,
         session, memory
  <1>4. manual' \subseteq Apps /\ watches' \subseteq Apps /\ opened' \subseteq Apps
    BY DEF OpenPacket, StartManualFill, ManualEnds, WatchConfirmed, WatchEnds, session, memory,
       IInv, SessionInv, RestInv
  <1>5. SessionInv'
    BY <1>1, <1>4 DEF IInv, SessionInv
  <1>6. server' \in [Apps -> Statuses] /\ byHand' \in Nat
    BY DEF OpenPacket, StartManualFill, ManualEnds, WatchConfirmed, WatchEnds, memory, counters,
       IInv, RestInv, Statuses
  <1>7. UNCHANGED <<signedIn, worker, orphans, begun, faults, ticks>>
    BY DEF OpenPacket, StartManualFill, ManualEnds, WatchConfirmed, WatchEnds, memory, counters
  <1>8. RestInv'
    BY <1>4, <1>6, <1>7 DEF IInv, RestInv
  <1> QED
    BY <1>2, <1>3, <1>5, <1>8 DEF IInv

LEMMA SessionSteps ==
    ASSUME IInv, SignedOut \/ SignIn
    PROVE  IInv' /\ RunKept
  <1>1. current' \in {current, NoRun} /\ UNCHANGED <<adv, send>>
    BY DEF SignedOut, SignIn, session, memory
  <1>2. AdvInv' /\ RunKept
    BY <1>1, AdvStays DEF IInv, RunKept, NoRun
  <1>3. OutboxInv' /\ SessionInv'
    <2>1. CASE SignedOut
      <3>1. NoRun \in [app : Apps \cup {NoApp}, tab : BOOLEAN]
        BY DEF NoRun
      <3> QED
        BY <1>1, <2>1, <3>1, TickIsTyped DEF SignedOut, IInv, OutboxInv, SessionInv
    <2>2. CASE SignIn
      BY <1>1, <2>2 DEF SignIn, session, IInv, OutboxInv, SessionInv
    <2> QED
      BY <2>1, <2>2
  <1>4. orphans' \subseteq Apps
    BY DEF SignedOut, SignIn, InHand, IInv, RestInv
  <1>5. RestInv'
    <2>1. signedIn' \in BOOLEAN
      BY DEF SignedOut, SignIn
    <2>2. faults' \in Nat
      BY DEF SignedOut, SignIn, IInv, RestInv, counters
    <2>3. UNCHANGED <<server, worker, opened, begun, byHand, ticks>>
      BY DEF SignedOut, SignIn, memory, counters
    <2> QED
      BY <1>4, <2>1, <2>2, <2>3 DEF IInv, RestInv
  <1> QED
    BY <1>2, <1>3, <1>5 DEF IInv

\* The worker stops: what it had in memory is gone, the run is not.
LEMMA StopsKeeps ==
    ASSUME IInv, Dies \/ IdleStops
    PROVE  IInv' /\ RunKept
  <1>1. StopWorker
    BY DEF Dies, IdleStops
  <1>2. UNCHANGED <<tick, current, manual, watches, outbox>> /\ adv' = Idle
    BY <1>1 DEF StopWorker, session
  <1>3. AdvInv' /\ SessionInv' /\ RunKept
    BY <1>2, AdvEnds DEF IInv, SessionInv, RunKept
  <1>4. OutboxInv'
    BY <1>1, <1>2, SendIsTyped DEF StopWorker, IInv, OutboxInv
  <1>5. orphans' \subseteq Apps /\ faults' \in Nat
    BY DEF Dies, IdleStops, IInv, AdvInv, RestInv, Taken
  <1>6. RestInv'
    BY <1>1, <1>5 DEF StopWorker, IInv, RestInv
  <1> QED
    BY <1>3, <1>4, <1>6 DEF IInv

-----------------------------------------------------------------------------
LEMMA InitHolds == Init => IInv
  <1> SUFFICES ASSUME Init PROVE IInv
    OBVIOUS
  <1>1. AdvInv
    BY AdvIsTyped DEF Init, AdvInv, Taken
  <1>2. OutboxInv
    BY SendIsTyped DEF Init, OutboxInv
  <1>3. SessionInv
    BY TickIsTyped DEF Init, SessionInv, NoRun
  <1>4. RestInv
    BY DEF Init, RestInv, Statuses
  <1> QED
    BY <1>1, <1>2, <1>3, <1>4 DEF IInv

LEMMA StepKeeps == IInv /\ [Next]_vars => IInv' /\ RunKept
  <1> SUFFICES ASSUME IInv, [Next]_vars PROVE IInv' /\ RunKept
    OBVIOUS
  <1>1. CASE AdvanceStep
    BY <1>1, AdvanceKeeps
  <1>2. CASE \E a \in Apps, k \in Senders : SendStep(a, k)
    BY <1>2, SendStepKeeps
  <1>3. CASE UserStep
    BY <1>3, RequestKeeps, RunEndsKeeps, SessionSteps, ServerSteps, ByHandKeeps DEF UserStep
  <1>4. CASE RunEnds \/ Recover
    BY <1>4, RunEndsKeeps
  <1>5. CASE \E a \in Apps : LeaseExpires(a)
    BY <1>5, ServerSteps
  <1>6. CASE Watchdog \/ WakeUp
    BY <1>6, RequestKeeps
  <1>7. CASE Dies \/ IdleStops
    BY <1>7, StopsKeeps
  <1>8. CASE UNCHANGED vars
    BY <1>8 DEF vars, session, memory, counters, IInv, AdvInv, OutboxInv, SessionInv, RestInv,
       RunKept
  <1> QED
    BY <1>1, <1>2, <1>3, <1>4, <1>5, <1>6, <1>7, <1>8 DEF Next

(* The worker's state stays well formed: advance() only ever works on an   *)
(* application it has claimed, a sender always has a try left, and no run  *)
(* appears while a claim is being answered.                                *)
THEOREM RunnerInductive == Spec => []IInv
  <1>1. IInv /\ [Next]_vars => IInv'
    BY StepKeeps
  <1> QED
    BY InitHolds, <1>1, PTL DEF Spec

(* Type correctness, for any applications, limits and bounds; a report is  *)
(* tried no more often than the code allows.                               *)
THEOREM RunnerTypeCorrect == Spec => []TypeOK
  BY RunnerInductive, Typed, PTL

(* "Strictly one at a time": no step puts a run in the place of another,   *)
(* whatever interleaves with the claim of the next.                        *)
THEOREM RunsDoNotOverlap == Spec => OneAtATime
  <1>1. IInv /\ [Next]_vars => [current.app # NoApp => current'.app \in {current.app, NoApp}]_vars
    BY StepKeeps DEF RunKept
  <1> QED
    BY RunnerInductive, <1>1, PTL DEF Spec, OneAtATime

-----------------------------------------------------------------------------
(* No claim is forgotten.  ClaimsAccounted is not inductive: it says nothing *)
(* of which place an application leaves when advance() drops it.  Held does: *)
(* advance() answers for it until the claim is answered, then the run, then  *)
(* a report that the server has not seen.                                    *)

Leased(a) == adv.pc = "leased" /\ adv.app = a

Unsent(a) == outbox[a] # NoEntry /\ ~outbox[a].known

Held(a) == Leased(a) \/ current.app = a \/ Unsent(a) \/ a \in orphans

HeldInv == \A a \in Apps : server[a] = "in_progress" => Held(a)

\* A report that is put into the outbox is unsent.
LEMMA Delivered ==
    ASSUME OutboxInv, NEW a \in Apps, NEW rep \in Reports, NEW k \in Senders, Deliver(a, rep, k)
    PROVE  /\ Unsent(a)'
           /\ \A b \in Apps \ {a} : outbox'[b] = outbox[b]
  <1>1. outbox'[a] = NewEntry(rep) /\ rep # "none"
    BY DEF Deliver, OutboxInv, Reports
  <1>2. NewEntry(rep) # NoEntry /\ ~NewEntry(rep).known
    BY <1>1 DEF NewEntry, NoEntry
  <1>3. Unsent(a)'
    BY <1>1, <1>2 DEF Unsent
  <1> QED
    BY <1>3 DEF Deliver, OutboxInv

\* A run that is finished leaves its report behind.
LEMMA FinishedIsHeld ==
    ASSUME IInv, HeldInv, NEW a \in Apps, NEW rep \in Reports, NEW stays \in BOOLEAN,
           FinishRun(a, rep, stays), adv.pc = "leased" => adv' = adv
    PROVE  HeldInv'
  <1>1. Deliver(a, rep, "finish") /\ "finish" \in Senders
    BY DEF FinishRun, Senders
  <1>2. Unsent(a)' /\ \A b \in Apps \ {a} : outbox'[b] = outbox[b]
    BY <1>1, Delivered DEF IInv
  <1>3. UNCHANGED <<server, orphans>>
    BY DEF FinishRun
  <1>4. ASSUME NEW b \in Apps \ {a} PROVE Held(b) => Held(b)'
    <2>1. current.app = b => current'.app = b
      BY DEF FinishRun
    <2> QED
      BY <1>2, <1>3, <2>1 DEF Held, Leased, Unsent
  <1>5. Held(a)'
    BY <1>2 DEF Held
  <1> QED
    BY <1>3, <1>4, <1>5 DEF HeldInv

LEMMA PostIsHeld ==
    ASSUME IInv, HeldInv, NEW a \in Apps, NEW k \in Senders, Post(a, k)
    PROVE  HeldInv'
  <1>1. outbox[a] \in Entry
    BY DEF Post, IInv, OutboxInv
  <1>2. Recorded(outbox[a].rep) # "in_progress"
    BY <1>1 DEF Entry, Recorded, Reports
  <1>3. server'[a] # "in_progress"
    BY <1>2 DEF Post, Accepts, IInv, RestInv
  <1>4. ASSUME NEW b \in Apps \ {a} PROVE server'[b] = server[b] /\ (Held(b) => Held(b)')
    BY DEF Post, IInv, OutboxInv, RestInv, Held, Leased, Unsent
  <1> QED
    BY <1>3, <1>4 DEF HeldInv

LEMMA SettleIsHeld ==
    ASSUME IInv, HeldInv, NEW a \in Apps, NEW k \in Senders, Settle(a, k)
    PROVE  HeldInv'
  <1>1. server' = server /\ current' = current
    BY DEF Settle
  <1>2. Pending \subseteq Apps /\ orphans \subseteq orphans'
    BY DEF Settle, Pending
  <1>3. ASSUME NEW b \in Apps PROVE Leased(b) => Leased(b)'
    BY DEF Settle, SendEnds, Started, Leased
  <1>4. ASSUME NEW b \in Apps \ {a} PROVE outbox'[b] = outbox[b]
    BY DEF Settle, IInv, OutboxInv
  <1>5. Unsent(a) => Unsent(a)' \/ a \in orphans'
    <2> SUFFICES ASSUME Unsent(a) PROVE Unsent(a)' \/ a \in orphans'
      OBVIOUS
    <2>1. outbox[a] \in Entry /\ ~outbox[a].known
      BY DEF Unsent, IInv, OutboxInv
    <2>2. outbox'[a] = Settled(outbox[a], send[a][k].done)
      BY DEF Settle, IInv, OutboxInv
    <2>3. CASE outbox'[a] = NoEntry
      <3>1. a \in Pending \ Pending'
        BY <2>3 DEF Unsent, Pending
      <3> QED
        BY <2>1, <3>1 DEF Settle
    <2>4. CASE outbox'[a] # NoEntry
      <3>1. outbox'[a] = [outbox[a] EXCEPT !.attempts = @ + 1]
        BY <2>2, <2>4 DEF Settled
      <3>2. outbox'[a].known = outbox[a].known
        BY <2>1, <3>1 DEF Entry
      <3> QED
        BY <2>1, <2>4, <3>2 DEF Unsent
    <2> QED
      BY <2>3, <2>4
  <1>6. ASSUME NEW b \in Apps PROVE Held(b) => Held(b)'
    BY <1>1, <1>2, <1>3, <1>4, <1>5 DEF Held, Unsent
  <1> QED
    BY <1>1, <1>6 DEF HeldInv

\* Where the outbox and the run stay, and advance() keeps what it has leased or
\* it is known to be lost.
LEMMA NothingDropped ==
    ASSUME HeldInv,
           \A a \in Apps : server'[a] = "in_progress" =>
               server[a] = "in_progress" /\ (a \in orphans => a \in orphans'),
           outbox' = outbox, current'.app = current.app,
           adv.pc = "leased" => adv' = adv \/ adv.app \in orphans'
    PROVE  HeldInv'
  <1>1. ASSUME NEW a \in Apps, server'[a] = "in_progress" PROVE Held(a)'
    <2>1. Held(a) /\ (a \in orphans => a \in orphans')
      BY <1>1 DEF HeldInv
    <2> QED
      BY <2>1 DEF Held, Leased, Unsent
  <1> QED
    BY <1>1 DEF HeldInv

LEMMA SendIsHeld ==
    ASSUME IInv, HeldInv, NEW a \in Apps, NEW k \in Senders, SendStep(a, k)
    PROVE  HeldInv'
  <1>1. CASE Post(a, k)
    BY <1>1, PostIsHeld
  <1>2. CASE LosePost(a, k)
    BY <1>2, NothingDropped DEF LosePost, session
  <1>3. CASE Settle(a, k)
    BY <1>3, SettleIsHeld
  <1>4. CASE NothingToSend(a, k)
    BY <1>4, NothingDropped DEF NothingToSend, SendEnds, Started
  <1> QED
    BY <1>1, <1>2, <1>3, <1>4 DEF SendStep

LEMMA AdvanceIsHeld ==
    ASSUME IInv, HeldInv, AdvanceStep
    PROVE  HeldInv'
  <1>1. ASSUME NEW a \in Apps, FlushNext(a) PROVE HeldInv'
    BY <1>1, NothingDropped DEF FlushNext, session
  <1>2. ASSUME NEW a \in Apps, Claim(a) PROVE HeldInv'
    <2>1. Leased(a)'
      BY <1>2 DEF Claim, Leased, Idle
    <2>2. ASSUME NEW b \in Apps \ {a} PROVE server'[b] = server[b] /\ (Held(b) => Held(b)')
      BY <1>2 DEF Claim, MayClaim, Looping, session, IInv, RestInv, Held, Leased, Unsent
    <2> QED
      BY <2>1, <2>2 DEF HeldInv, Held
  <1>3. CASE AdvanceReturns \/ HandedBack \/ NextAfterNoForm \/ TabOpened
    <2>1. adv.pc # "leased" /\ UNCHANGED <<server, outbox, orphans>> /\ current'.app = current.app
      BY <1>3 DEF AdvanceReturns, Looping, HandedBack, NextAfterNoForm, TabOpened, IInv, SessionInv
    <2> QED
      BY <2>1, NothingDropped
  <1>4. CASE ClaimAnswerLost
    BY <1>4, NothingDropped DEF ClaimAnswerLost
  <1>5. CASE HandBack \/ NoFormToOpen
    <2>1. PICK a \in Apps : a = adv.app
      BY <1>5 DEF HandBack, NoFormToOpen, IInv, AdvInv, Taken
    <2>2. PICK rep \in Reports : Deliver(a, rep, "advance")
      BY <1>5, <2>1 DEF HandBack, NoFormToOpen, Reports
    <2>3. Unsent(a)' /\ \A b \in Apps \ {a} : outbox'[b] = outbox[b]
      BY <2>2, Delivered DEF IInv, Senders
    <2>4. UNCHANGED <<server, current, orphans>>
      BY <1>5 DEF HandBack, NoFormToOpen
    <2>5. ASSUME NEW b \in Apps \ {a} PROVE Held(b) => Held(b)'
      BY <2>1, <2>3, <2>4 DEF Held, Leased, Unsent
    <2> QED
      BY <2>3, <2>4, <2>5 DEF HeldInv, Held
  <1>6. CASE BeginApplication
    <2>1. current = NoRun /\ current'.app = adv.app /\ UNCHANGED <<server, outbox, orphans>>
      BY <1>6 DEF BeginApplication, IInv, AdvInv
    <2>2. NoRun.app = NoApp
      BY DEF NoRun
    <2>3. ASSUME NEW a \in Apps PROVE Held(a) => Held(a)'
      BY <2>1, <2>2, RunnerAssumption DEF Held, Leased, Unsent
    <2> QED
      BY <2>1, <2>3 DEF HeldInv
  <1>7. CASE OpenFails
    <2>1. adv.app \in Apps /\ adv.pc # "leased"
      BY <1>7 DEF OpenFails, IInv, AdvInv, Taken
    <2>2. CASE FinishRun(adv.app, "released", FALSE)
      BY <2>1, <2>2, FinishedIsHeld DEF Reports
    <2>3. CASE UNCHANGED <<server, session, orphans>>
      BY <2>1, <2>3, NothingDropped DEF session
    <2> QED
      BY <1>7, <2>2, <2>3 DEF OpenFails
  <1> QED
    BY <1>1, <1>2, <1>3, <1>4, <1>5, <1>6, <1>7 DEF AdvanceStep

\* What users, the clock and the browser do.
LEMMA OthersAreHeld ==
    ASSUME IInv, HeldInv,
           \/ UserStep \/ RunEnds \/ Recover \/ Watchdog \/ Dies \/ IdleStops \/ WakeUp
           \/ \E a \in Apps : LeaseExpires(a)
    PROVE  HeldInv'
  <1>1. CASE RunEnds \/ TabClosed \/ StopCurrent \/ Recover
    <2>1. CASE \E rep \in Reports, stays \in BOOLEAN :
                 current # NoRun /\ FinishRun(current.app, rep, stays) /\ UNCHANGED adv
      <3>1. PICK rep \in Reports, stays \in BOOLEAN : FinishRun(current.app, rep, stays)
        BY <2>1
      <3>2. current.app \in Apps
        BY <2>1 DEF IInv, SessionInv
      <3> QED
        BY <2>1, <3>1, <3>2, FinishedIsHeld
    <2>2. CASE UNCHANGED <<server, current, outbox, adv, orphans>>
      BY <2>2, NothingDropped
    <2>3. ASSUME RunEnds \/ TabClosed PROVE current # NoRun
      <3>1. current.tab /\ ~NoRun.tab
        BY <2>3 DEF RunEnds, TabClosed, NoRun
      <3> QED
        BY <3>1
    <2> QED
      BY <1>1, <2>1, <2>2, <2>3 DEF RunEnds, TabClosed, StopCurrent, Recover, Reports, memory
  <1>2. CASE RequestTick \/ Watchdog \/ WakeUp \/ SignIn
    <2>1. UNCHANGED <<server, current, outbox, orphans>> /\ (adv.pc = "leased" => adv' = adv)
      BY <1>2 DEF RequestTick, Watchdog, WakeUp, SignIn, Started, session, memory
    <2> QED
      BY <2>1, NothingDropped
  <1>3. ASSUME NEW a \in Apps, LeaseExpires(a) \/ UserRetries(a) \/ OpenPacket(a)
        PROVE  HeldInv'
    <2>1. server'[a] # "in_progress"
      BY <1>3 DEF LeaseExpires, UserRetries, OpenPacket, IInv, RestInv
    <2>2. ASSUME NEW b \in Apps \ {a}
          PROVE server'[b] = server[b] /\ (b \in orphans => b \in orphans')
      BY <1>3 DEF LeaseExpires, UserRetries, OpenPacket, IInv, RestInv
    <2>3. UNCHANGED <<current, outbox, adv>>
      BY <1>3 DEF LeaseExpires, UserRetries, OpenPacket, session, memory
    <2> QED
      BY <2>1, <2>2, <2>3, NothingDropped
  <1>4. ASSUME NEW a \in Apps, StartManualFill(a) \/ WatchEnds(a) PROVE HeldInv'
    BY <1>4, NothingDropped DEF StartManualFill, WatchEnds, memory
  <1>5. ASSUME NEW a \in Apps, ManualEnds(a) \/ WatchConfirmed(a) PROVE HeldInv'
    <2>1. UNCHANGED <<server, current, orphans>> /\ (adv.pc = "leased" => adv' = adv)
      BY <1>5 DEF ManualEnds, WatchConfirmed, Started
    <2>2. CASE outbox' = outbox
      BY <2>1, <2>2, NothingDropped
    <2>3. CASE Deliver(a, "needs_input", "finish") \/ Deliver(a, "submitted", "watch")
      <3>1. Unsent(a)' /\ \A b \in Apps \ {a} : outbox'[b] = outbox[b]
        BY <2>3, Delivered DEF IInv, Reports, Senders
      <3>2. ASSUME NEW b \in Apps PROVE Held(b) => Held(b)'
        BY <2>1, <3>1 DEF Held, Leased, Unsent
      <3> QED
        BY <2>1, <3>2 DEF HeldInv
    <2> QED
      BY <1>5, <2>2, <2>3 DEF ManualEnds, WatchConfirmed
  <1>6. CASE SignedOut
    <2>1. UNCHANGED <<server, adv>> /\ orphans' = orphans \cup InHand
      BY <1>6 DEF SignedOut, memory
    <2>2. ASSUME NEW a \in Apps, current.app = a \/ Unsent(a) PROVE a \in InHand
      BY <2>2 DEF InHand, Unsent, Pending
    <2>3. ASSUME NEW a \in Apps PROVE Held(a) => Held(a)'
      BY <2>1, <2>2 DEF Held, Leased
    <2> QED
      BY <2>1, <2>3 DEF HeldInv
  <1>7. CASE Dies \/ IdleStops
    <2>1. UNCHANGED <<server, current, outbox>> /\ orphans \subseteq orphans'
      BY <1>7 DEF Dies, IdleStops, StopWorker, session
    <2>2. adv.pc = "leased" => adv.app \in orphans'
      BY <1>7 DEF Dies, IdleStops
    <2> QED
      BY <2>1, <2>2, NothingDropped
  <1> QED
    BY <1>1, <1>2, <1>3, <1>4, <1>5, <1>6, <1>7 DEF UserStep

LEMMA HeldStep == IInv /\ HeldInv /\ [Next]_vars => HeldInv'
  <1> SUFFICES ASSUME IInv, HeldInv, [Next]_vars PROVE HeldInv'
    OBVIOUS
  <1>1. CASE AdvanceStep
    BY <1>1, AdvanceIsHeld
  <1>2. CASE \E a \in Apps, k \in Senders : SendStep(a, k)
    BY <1>2, SendIsHeld
  <1>3. CASE \/ UserStep \/ RunEnds \/ Recover \/ Watchdog \/ Dies \/ IdleStops \/ WakeUp
            \/ \E a \in Apps : LeaseExpires(a)
    BY <1>3, OthersAreHeld
  <1>4. CASE UNCHANGED vars
    BY <1>4, NothingDropped DEF vars, session, memory
  <1> QED
    BY <1>1, <1>2, <1>3, <1>4 DEF Next

(* No claim is forgotten: what the server holds for this extension is worked,*)
(* reported on, or lost in one of the ways that orphans remembers.           *)
THEOREM ClaimsAreAccounted == Spec => []ClaimsAccounted
  <1>1. Init => HeldInv
    BY DEF Init, HeldInv
  <1>2. HeldInv => ClaimsAccounted
    BY DEF HeldInv, Held, Leased, Unsent, Pending, ClaimsAccounted
  <1> QED
    BY RunnerInductive, <1>1, HeldStep, <1>2, PTL DEF Spec

-----------------------------------------------------------------------------
(* A tick begins no application twice.  What it has begun it has seen, and   *)
(* advance() compares what it claims with what the tick had seen when it     *)
(* asked: the tick may have ended since, and another one begun.              *)

Noted(a) ==
    /\ tick.on => a \in tick.seen
    /\ adv.pc = "leased" => a \in adv.seen

OnceInv == \A a \in Apps : begun[a] <= 1 /\ (begun[a] # 0 => Noted(a))

\* What most steps are to OnceInv: they begin nothing, claim nothing, and the
\* tick forgets nothing unless it ends.
Quiet ==
    /\ begun' = begun
    /\ adv'.pc = "leased" => adv.pc = "leased" /\ adv'.seen = adv.seen
    /\ tick'.on => tick.on /\ tick.seen \subseteq tick'.seen

LEMMA QuietKeeps == OnceInv /\ Quiet => OnceInv'
  BY DEF OnceInv, Quiet, Noted

LEMMA QuietRecords ==
    /\ ~NoTick.on /\ Idle.pc # "leased"
    /\ Started = adv \/ Started.pc # "leased"
    /\ \A todo : Loop(todo).pc # "leased"
    /\ tick \in TickRec => Counted(tick).on = tick.on /\ Counted(tick).seen = tick.seen
    /\ tick \in TickRec =>
          Seen.on = tick.on /\ tick.seen \subseteq Seen.seen /\ (tick.on => adv.app \in Seen.seen)
  <1>1. ~NoTick.on /\ Idle.pc # "leased" /\ \A todo : Loop(todo).pc # "leased"
    BY DEF NoTick, Idle, Loop
  <1>2. Started = adv \/ Started.pc # "leased"
    BY <1>1 DEF Started
  <1>3. ASSUME tick \in TickRec
        PROVE  Counted(tick).on = tick.on /\ Counted(tick).seen = tick.seen
    BY <1>3 DEF Counted, TickRec
  <1>4. ASSUME tick \in TickRec
        PROVE  Seen.on = tick.on /\ tick.seen \subseteq Seen.seen /\ (tick.on => adv.app \in Seen.seen)
    BY <1>4 DEF Seen, TickRec
  <1> QED
    BY <1>1, <1>2, <1>3, <1>4

LEMMA FinishRunIsQuiet ==
    ASSUME IInv, NEW a \in Apps, NEW rep \in Reports, NEW stays \in BOOLEAN,
           FinishRun(a, rep, stays), adv'.pc = "leased" => adv' = adv
    PROVE  Quiet
  BY QuietRecords DEF FinishRun, Quiet, IInv, SessionInv

LEMMA SendIsQuiet ==
    ASSUME NEW a \in Apps, NEW k \in Senders, SendStep(a, k)
    PROVE  Quiet
  <1>1. UNCHANGED <<tick, begun>>
    BY DEF SendStep, Post, LosePost, Settle, NothingToSend, session
  <1>2. adv' \in {adv, Idle, Started}
    BY DEF SendStep, Post, LosePost, Settle, NothingToSend, SendEnds
  <1> QED
    BY <1>1, <1>2, QuietRecords DEF Quiet

LEMMA AdvanceBeginsOnce ==
    ASSUME IInv, OnceInv, AdvanceStep
    PROVE  OnceInv'
  <1>1. ASSUME NEW a \in Apps, Claim(a) PROVE OnceInv'
    <2>1. tick.on /\ adv'.seen = tick.seen /\ UNCHANGED <<tick, begun>>
      BY <1>1 DEF Claim, MayClaim, Idle, session
    <2> QED
      BY <2>1 DEF OnceInv, Noted
  <1>2. CASE BeginApplication
    <2>1. adv.app \in Apps /\ adv.app \notin adv.seen /\ adv.pc = "leased"
      BY <1>2 DEF BeginApplication, Repeated, IInv, AdvInv, Taken
    <2>2. begun[adv.app] = 0
      BY <2>1 DEF OnceInv, Noted, IInv, RestInv
    <2>3. begun' = [begun EXCEPT ![adv.app] = 1]
      BY <1>2, <2>2 DEF BeginApplication
    <2>4. adv'.pc # "leased" /\ tick' = Seen
      BY <1>2 DEF BeginApplication, IInv, AdvInv, AdvRec
    <2>5. tick'.on => tick.on /\ tick.seen \subseteq tick'.seen /\ adv.app \in tick'.seen
      BY <2>4, QuietRecords DEF IInv, SessionInv
    <2> QED
      BY <2>1, <2>3, <2>4, <2>5 DEF OnceInv, Noted, IInv, RestInv
  <1>3. ASSUME NEW a \in Apps, FlushNext(a) PROVE Quiet
    BY <1>3 DEF FlushNext, Quiet, session, IInv, AdvInv, AdvRec
  <1>4. CASE AdvanceReturns \/ ClaimAnswerLost \/ HandedBack
    BY <1>4, QuietRecords, QuietKeeps DEF AdvanceReturns, ClaimAnswerLost, HandedBack, Quiet
  <1>5. CASE HandBack
    BY <1>5, QuietKeeps DEF HandBack, Quiet, IInv, AdvInv, AdvRec
  <1>6. CASE NoFormToOpen
    BY <1>6, QuietRecords, QuietKeeps
    DEF NoFormToOpen, Quiet, IInv, AdvInv, AdvRec, SessionInv
  <1>7. CASE NextAfterNoForm \/ TabOpened
    BY <1>7, QuietRecords, QuietKeeps DEF NextAfterNoForm, TabOpened, Quiet, IInv, SessionInv
  <1>8. CASE OpenFails
    <2>1. adv.app \in Apps /\ adv.pc = "opening"
      BY <1>8 DEF OpenFails, IInv, AdvInv, Taken
    <2>2. adv'.pc # "leased"
      BY <1>8, QuietRecords DEF OpenFails, IInv, AdvInv, AdvRec
    <2>3. CASE FinishRun(adv.app, "released", FALSE)
      BY <2>1, <2>2, <2>3, FinishRunIsQuiet, QuietKeeps DEF Reports
    <2>4. CASE UNCHANGED <<session, begun>>
      BY <2>2, <2>4, QuietKeeps DEF Quiet, session
    <2> QED
      BY <1>8, <2>3, <2>4 DEF OpenFails
  <1> QED
    BY <1>1, <1>2, <1>3, <1>4, <1>5, <1>6, <1>7, <1>8, QuietKeeps DEF AdvanceStep

\* A new tick has begun nothing.
LEMMA RequestBeginsOnce ==
    ASSUME IInv, OnceInv, RequestTick
    PROVE  OnceInv'
  <1>1. CASE begun' = [a \in Apps |-> 0]
    BY <1>1 DEF OnceInv
  <1>2. CASE UNCHANGED <<tick, begun>>
    BY <1>2, QuietRecords, QuietKeeps DEF RequestTick, Quiet
  <1> QED
    BY <1>1, <1>2 DEF RequestTick

\* What users, the clock and the browser do besides.
LEMMA OthersAreQuiet ==
    ASSUME IInv,
           \/ UserStep /\ ~RequestTick
           \/ RunEnds \/ Recover \/ Watchdog \/ Dies \/ IdleStops \/ WakeUp
           \/ \E a \in Apps : LeaseExpires(a)
    PROVE  Quiet
  <1>1. CASE RunEnds \/ TabClosed \/ StopCurrent \/ Recover
    <2>1. CASE \E rep \in Reports, stays \in BOOLEAN :
                 current # NoRun /\ FinishRun(current.app, rep, stays) /\ UNCHANGED adv
      <3>1. PICK rep \in Reports, stays \in BOOLEAN : FinishRun(current.app, rep, stays)
        BY <2>1
      <3>2. current.app \in Apps
        BY <2>1 DEF IInv, SessionInv
      <3> QED
        BY <2>1, <3>1, <3>2, FinishRunIsQuiet
    <2>2. CASE tick' = NoTick /\ UNCHANGED <<adv, begun>>
      BY <2>2, QuietRecords DEF Quiet
    <2>3. ASSUME RunEnds \/ TabClosed PROVE current # NoRun
      <3>1. current.tab /\ ~NoRun.tab
        BY <2>3 DEF RunEnds, TabClosed, NoRun
      <3> QED
        BY <3>1
    <2> QED
      BY <1>1, <2>1, <2>2, <2>3 DEF RunEnds, TabClosed, StopCurrent, Recover, Reports, memory
  <1>2. CASE Watchdog \/ WakeUp \/ SignIn
    <2>1. UNCHANGED <<tick, begun>> /\ adv' \in {adv, Started}
      BY <1>2 DEF Watchdog, WakeUp, SignIn, session, memory
    <2> QED
      BY <2>1, QuietRecords DEF Quiet
  <1>3. ASSUME NEW a \in Apps, LeaseExpires(a) \/ UserRetries(a) \/ OpenPacket(a)
               \/ StartManualFill(a) \/ WatchEnds(a) \/ WatchConfirmed(a)
        PROVE  Quiet
    BY <1>3 DEF LeaseExpires, UserRetries, OpenPacket, StartManualFill, WatchEnds,
                WatchConfirmed, Quiet, session, memory
  <1>4. ASSUME NEW a \in Apps, ManualEnds(a) PROVE Quiet
    <2>1. UNCHANGED <<tick, begun>> /\ adv' \in {adv, Started}
      BY <1>4 DEF ManualEnds
    <2> QED
      BY <2>1, QuietRecords DEF Quiet
  <1>5. CASE SignedOut
    BY <1>5, QuietRecords DEF SignedOut, Quiet, memory
  <1>6. CASE Dies \/ IdleStops
    BY <1>6, QuietRecords DEF Dies, IdleStops, StopWorker, Quiet, session
  <1> QED
    BY <1>1, <1>2, <1>3, <1>4, <1>5, <1>6 DEF UserStep

LEMMA OnceStep == IInv /\ OnceInv /\ [Next]_vars => OnceInv'
  <1> SUFFICES ASSUME IInv, OnceInv, [Next]_vars PROVE OnceInv'
    OBVIOUS
  <1>1. CASE AdvanceStep
    BY <1>1, AdvanceBeginsOnce
  <1>2. CASE \E a \in Apps, k \in Senders : SendStep(a, k)
    BY <1>2, SendIsQuiet, QuietKeeps
  <1>3. CASE RequestTick
    BY <1>3, RequestBeginsOnce
  <1>4. CASE \/ UserStep /\ ~RequestTick
            \/ RunEnds \/ Recover \/ Watchdog \/ Dies \/ IdleStops \/ WakeUp
            \/ \E a \in Apps : LeaseExpires(a)
    BY <1>4, OthersAreQuiet, QuietKeeps
  <1>5. CASE UNCHANGED vars
    BY <1>5, QuietKeeps DEF vars, session, memory, Quiet
  <1> QED
    BY <1>1, <1>2, <1>3, <1>4, <1>5 DEF Next

(* A tick begins no application twice, however claims are given up, retried, *)
(* stopped or answered late, for any applications and bounds.                *)
THEOREM BeginsOnce == Spec => []BegunOncePerTick
  <1>1. ASSUME Init PROVE OnceInv
    <2>1. begun = [a \in Apps |-> 0]
      BY <1>1 DEF Init
    <2>2. \A a \in Apps : begun[a] = 0
      BY <2>1
    <2>3. \A n : n = 0 => n <= 1
      OBVIOUS
    <2> QED
      BY <2>2, <2>3 DEF OnceInv
  <1>2. OnceInv => BegunOncePerTick
    BY DEF OnceInv, BegunOncePerTick
  <1> QED
    BY RunnerInductive, <1>1, OnceStep, <1>2, PTL DEF Spec
=============================================================================
