---------------------------- MODULE RunScheduler ----------------------------
(***************************************************************************)
(* Who runs the autopilot, and when (internal/agent/runner.go).  Several   *)
(* API processes share the tables agent_profiles and agent_runs.  Each has *)
(* a scheduler loop and a channel runSem with Slots places; a run is a row *)
(* of agent_runs and a goroutine that executes it in a slot.               *)
(*                                                                         *)
(* A scheduled run takes its slot first and inserts its row second; a      *)
(* manual run inserts its row first and then queues for a slot.  A row has *)
(* an age (now - started_at), an execution has another one: the first is   *)
(* what the sweep sees, the second is what the run's timeout bounds.       *)
(***************************************************************************)
EXTENDS Integers, Sequences, FiniteSets

CONSTANTS
    Users, Instances,
    Runs,                \* bound: runs whose row or goroutine is alive
    NoUser, NoInstance,
    Slots,               \* AgentMaxConcurrentRuns
    RunTimeout,          \* runTimeout(), in ticks
    Grace,               \* the 2 minutes the sweep adds, in ticks
    MaxClicks,           \* bound: manual runs started
    MaxIncidents         \* bound: profile updates, graceful shutdowns, crashes, and
                         \* finishes the database refuses, together

ASSUME NamesAssumption ==
    /\ IsFiniteSet(Runs) /\ NoUser \notin Users /\ NoInstance \notin Instances
ASSUME TimesAssumption ==
    /\ Slots \in Nat \ {0} /\ RunTimeout \in Nat \ {0} /\ Grace \in Nat \ {0}
    /\ MaxClicks \in Nat /\ MaxIncidents \in Nat

VARIABLES
    enabled, nextRun,    \* agent_profiles: enabled, next_run_at against NOW()
    form,                \* the profile an UpdateProfile in progress has read
    run,                 \* run[r]: a row of agent_runs and its goroutine
    used,                \* used[i]: len(runSem)
    queue,               \* queue[i]: goroutines blocked on runSem, in order
    sched,               \* sched[i]: where the scheduler loop stands
    process,             \* process[i]: up, shutting down, or not running
    clicks, incidents

profileVars == <<enabled, nextRun, form>>
slotVars    == <<used, queue>>
counters    == <<clicks, incidents>>
vars        == <<profileVars, run, slotVars, sched, process, counters>>

Cutoff == RunTimeout + Grace

RunRec == [user    : Users \cup {NoUser},
           trigger : {"manual", "schedule"},
           row     : {"none", "running", "completed", "failed"},
           rowAge  : 0..(Cutoff + 1),
           inst    : Instances \cup {NoInstance},
           go      : {"gone", "starting", "queued", "working", "closing"},
           age     : 0..Cutoff,
           waited  : BOOLEAN]     \* it has queued for its slot

Free == [user |-> NoUser, trigger |-> "manual", row |-> "none", rowAge |-> 0,
         inst |-> NoInstance, go |-> "gone", age |-> 0, waited |-> FALSE]

Form   == [on : BOOLEAN, next : {"never", "due", "later"}]
NoForm == [on |-> FALSE, next |-> "none"]

SchedStates == {"sweep", "dispatch", "claim", "start", "wait", "stopped"}

TypeOK ==
    /\ enabled \in [Users -> BOOLEAN]
    /\ nextRun \in [Users -> {"never", "due", "later"}]
    /\ form \in [Users -> Form \cup {NoForm}]
    /\ run \in [Runs -> RunRec]
    /\ used \in [Instances -> 0..Slots]
    /\ queue \in [Instances -> Seq(Runs)]
    /\ sched \in [Instances -> [pc : SchedStates, user : Users \cup {NoUser}]]
    /\ process \in [Instances -> {"up", "stopping", "down"}]
    /\ clicks \in Nat /\ incidents \in Nat

At(i, p) == sched[i].pc = p
Go(i, p) == sched' = [sched EXCEPT ![i] = [pc |-> p, user |-> NoUser]]

Init ==
    /\ enabled \in [Users -> BOOLEAN]
    /\ nextRun = [u \in Users |-> IF enabled[u] THEN "due" ELSE "never"]
    /\ form = [u \in Users |-> NoForm]
    /\ run = [r \in Runs |-> Free]
    /\ used = [i \in Instances |-> 0]
    /\ queue = [i \in Instances |-> <<>>]
    /\ sched = [i \in Instances |-> [pc |-> "sweep", user |-> NoUser]]
    /\ process = [i \in Instances |-> "up"]
    /\ clicks = 0 /\ incidents = 0

Incident == incidents < MaxIncidents /\ incidents' = incidents + 1

-----------------------------------------------------------------------------
(* Rows and slots.                                                         *)

\* The unique index idx_agent_runs_one_running.
HasRunningRow(u) == \E r \in Runs : run[r].user = u /\ run[r].row = "running"

\* A closed row without a goroutine is history: its record is free again.
Tidy(x) == IF x.row # "running" /\ x.go = "gone" THEN Free ELSE x

\* Which record a new run gets is of no consequence.
Unused(r) == run[r] = Free /\ r = CHOOSE x \in Runs : run[x] = Free

NewRun(u, t, i, g) ==
    [user |-> u, trigger |-> t, row |-> "running", rowAge |-> 0,
     inst |-> i, go |-> g, age |-> 0, waited |-> FALSE]

\* Mutant: a goroutine that finds no place goes before those that wait.
Ahead(i, r) == <<r>> \o queue[i]

\* Blocked senders of a channel wait in order.
Behind(i, r) == Append(queue[i], r)

\* <-runSem: the place goes to the goroutine that has waited longest.
Release(i) ==
    IF queue[i] = <<>>
    THEN used' = [used EXCEPT ![i] = @ - 1] /\ UNCHANGED queue
    ELSE queue' = [queue EXCEPT ![i] = Tail(@)] /\ UNCHANGED used

\* The records once instance i has released a place.
Handed(i, f) ==
    IF queue[i] = <<>> THEN f
    ELSE [f EXCEPT ![Head(queue[i])].go = "working"]

-----------------------------------------------------------------------------
(* The scheduler loop of a process.                                        *)

\* Mutant: the runs of a crashed process are closed at the timeout itself.
SweptAtTimeout(x) ==
    IF x.row = "running" /\ x.rowAge > RunTimeout
    THEN Tidy([x EXCEPT !.row = "failed"]) ELSE x

\* FailStaleRuns: by started_at only, whoever executes the run.
Swept(x) ==
    IF x.row = "running" /\ x.rowAge > Cutoff
    THEN Tidy([x EXCEPT !.row = "failed"]) ELSE x

\* Every statement of the loop fails once the loop's context has ended.
SweepStaleRuns(i) ==
    /\ At(i, "sweep")
    /\ IF process[i] = "up" THEN run' = [r \in Runs |-> Swept(run[r])] ELSE UNCHANGED run
    /\ Go(i, "dispatch")
    /\ UNCHANGED <<profileVars, slotVars, process, counters>>

\* runSem <- struct{}{} with a default: a busy process claims nobody.
TakeSlot(i) ==
    /\ At(i, "dispatch")
    /\ IF process[i] = "up" /\ used[i] < Slots
       THEN used' = [used EXCEPT ![i] = @ + 1] /\ Go(i, "claim")
       ELSE UNCHANGED used /\ Go(i, "wait")
    /\ UNCHANGED <<profileVars, run, queue, process, counters>>

Due(u) == enabled[u] /\ nextRun[u] = "due"

ClaimDueProfile(i, u) ==
    /\ At(i, "claim") /\ process[i] = "up"
    /\ Due(u)
    /\ nextRun' = [nextRun EXCEPT ![u] = "later"]
    /\ sched' = [sched EXCEPT ![i] = [pc |-> "start", user |-> u]]
    /\ UNCHANGED <<enabled, form, run, slotVars, process, counters>>

NothingDue(i) ==
    /\ At(i, "claim")
    /\ process[i] = "up" => \A u \in Users : ~Due(u)
    /\ Release(i)
    /\ run' = Handed(i, run)
    /\ Go(i, "wait")
    /\ UNCHANGED <<profileVars, process, counters>>

\* ErrRunInProgress: this user is skipped until the next interval.
SkipRun(i) ==
    /\ At(i, "start")
    /\ process[i] = "up" => HasRunningRow(sched[i].user)
    /\ Release(i)
    /\ run' = Handed(i, run)
    /\ Go(i, "dispatch")
    /\ UNCHANGED <<profileVars, process, counters>>

StartScheduledRun(i) ==
    /\ At(i, "start") /\ process[i] = "up"
    /\ ~HasRunningRow(sched[i].user)
    /\ \E r \in Runs :
          /\ Unused(r)
          /\ run' = [run EXCEPT ![r] = NewRun(sched[i].user, "schedule", i, "working")]
    /\ Go(i, "dispatch")
    /\ UNCHANGED <<profileVars, slotVars, process, counters>>

NextRound(i) ==
    /\ At(i, "wait")
    /\ Go(i, IF process[i] = "up" THEN "sweep" ELSE "stopped")
    /\ UNCHANGED <<profileVars, run, slotVars, process, counters>>

-----------------------------------------------------------------------------
(* Runs.                                                                   *)

\* The row, and a goroutine of its own.
StartManualRun(i, u) ==
    /\ process[i] = "up"
    /\ clicks < MaxClicks
    /\ ~HasRunningRow(u)
    /\ clicks' = clicks + 1
    /\ \E r \in Runs :
          /\ Unused(r)
          /\ run' = [run EXCEPT ![r] = NewRun(u, "manual", i, "starting")]
    /\ UNCHANGED <<profileVars, slotVars, sched, process, incidents>>

\* runSem <- struct{}{}: takes a place, or blocks.
TakesOrWaits(r) ==
    /\ run[r].go = "starting"
    /\ LET i == run[r].inst IN
       IF used[i] < Slots
       THEN /\ run' = [run EXCEPT ![r].go = "working"]
            /\ used' = [used EXCEPT ![i] = @ + 1]
            /\ UNCHANGED queue
       ELSE /\ run' = [run EXCEPT ![r].go = "queued", ![r].waited = TRUE]
            /\ queue' = [queue EXCEPT ![i] = Behind(i, r)]
            /\ UNCHANGED used
    /\ UNCHANGED <<profileVars, sched, process, counters>>

\* The context of a manual run is detached: only its timeout ends it early.
Cancelled(r) ==
    \/ run[r].age >= RunTimeout
    \/ run[r].trigger = "schedule" /\ process[run[r].inst] # "up"

\* FinishRun writes by id, whatever the sweep wrote before.
FinishRun(r) ==
    /\ run[r].go = "working"
    /\ \E s \in {"completed", "failed"} :
          /\ s = "completed" => ~Cancelled(r)
          /\ run' = [run EXCEPT ![r].row = s, ![r].go = "closing"]
    /\ UNCHANGED <<profileVars, slotVars, sched, process, counters>>

FinishRunFails(r) ==
    /\ run[r].go = "working"
    /\ Incident
    /\ run' = [run EXCEPT ![r].go = "closing"]
    /\ UNCHANGED <<profileVars, slotVars, sched, process, clicks>>

\* Mutant: the place is not given back when the goroutine ends.
ReturnsKeepingSlot(r) ==
    /\ run[r].go = "closing"
    /\ run' = [run EXCEPT ![r] = Tidy([@ EXCEPT !.go = "gone"])]
    /\ UNCHANGED <<profileVars, slotVars, sched, process, counters>>

\* The digest is out and the goroutine returns its place.
Returns(r) ==
    /\ run[r].go = "closing"
    /\ LET i == run[r].inst IN
       /\ Release(i)
       /\ run' = Handed(i, [run EXCEPT ![r] = Tidy([@ EXCEPT !.go = "gone"])])
    /\ UNCHANGED <<profileVars, sched, process, counters>>

-----------------------------------------------------------------------------
(* Processes (cmd/api/main.go).                                            *)

\* After srv.Shutdown, cancelAgent: no more requests, the loop's context ends.
Shutdown(i) ==
    /\ process[i] = "up"
    /\ Incident
    /\ process' = [process EXCEPT ![i] = "stopping"]
    /\ UNCHANGED <<profileVars, run, slotVars, sched, clicks>>

Dies(i) ==
    /\ process' = [process EXCEPT ![i] = "down"]
    /\ run' = [r \in Runs |-> IF run[r].inst = i THEN Tidy([run[r] EXCEPT !.go = "gone"])
                                                 ELSE run[r]]
    /\ used' = [used EXCEPT ![i] = 0]
    /\ queue' = [queue EXCEPT ![i] = <<>>]
    /\ Go(i, "stopped")

\* Wait returned, or the 30 seconds of shutdownCtx are over.
Exit(i) ==
    /\ process[i] = "stopping"
    /\ Dies(i)
    /\ UNCHANGED <<profileVars, counters>>

Crash(i) ==
    /\ process[i] = "up"
    /\ Incident
    /\ Dies(i)
    /\ UNCHANGED <<profileVars, clicks>>

Boot(i) ==
    /\ process[i] = "down"
    /\ process' = [process EXCEPT ![i] = "up"]
    /\ Go(i, "sweep")
    /\ UNCHANGED <<profileVars, run, slotVars, counters>>

-----------------------------------------------------------------------------
(* The profile: UpdateProfile reads the row, edits it and writes all of it.*)

ReadProfile(u) ==
    /\ form[u] = NoForm
    /\ Incident
    /\ form' = [form EXCEPT ![u] = [on |-> enabled[u], next |-> nextRun[u]]]
    /\ UNCHANGED <<enabled, nextRun, run, slotVars, sched, process, clicks>>

\* Mutant: switching the autopilot on does not schedule the first run.
SaveProfileUnscheduled(u, on) ==
    /\ form[u] # NoForm
    /\ enabled' = [enabled EXCEPT ![u] = on]
    /\ nextRun' = [nextRun EXCEPT ![u] = form[u].next]
    /\ form' = [form EXCEPT ![u] = NoForm]
    /\ UNCHANGED <<run, slotVars, sched, process, counters>>

SaveProfile(u, on) ==
    /\ form[u] # NoForm
    /\ enabled' = [enabled EXCEPT ![u] = on]
    /\ nextRun' = [nextRun EXCEPT ![u] = IF on /\ ~form[u].on THEN "due" ELSE form[u].next]
    /\ form' = [form EXCEPT ![u] = NoForm]
    /\ UNCHANGED <<run, slotVars, sched, process, counters>>

-----------------------------------------------------------------------------
(* Time.                                                                   *)

Passed(t) == IF t = "later" THEN "due" ELSE t

\* run_interval_hours pass for u; a copy of the time ages like the time.  An
\* interval is an hour at least: no round of dispatchDue lasts that long.
IntervalPasses(u) ==
    /\ nextRun[u] = "later"
    /\ \A i \in Instances : sched[i].pc \notin {"dispatch", "claim", "start"}
    /\ nextRun' = [nextRun EXCEPT ![u] = "due"]
    /\ form' = [form EXCEPT ![u].next = Passed(@)]
    /\ UNCHANGED <<enabled, run, slotVars, sched, process, counters>>

Older(x) ==
    [x EXCEPT !.rowAge = IF x.row = "running" /\ @ <= Cutoff THEN @ + 1 ELSE @,
              !.age = IF x.go = "working" THEN @ + 1 ELSE @]

\* A run returns within Grace of its timeout (every call of it takes the
\* context, and finish has 15 seconds), and a goroutine comes to the channel
\* as soon as it is started.
Tick ==
    /\ \A r \in Runs : run[r].go # "starting"
    /\ \E r \in Runs : run[r] # Older(run[r])
    /\ \A r \in Runs : run[r].go = "working" => run[r].age < Cutoff
    /\ run' = [r \in Runs |-> Older(run[r])]
    /\ UNCHANGED <<profileVars, slotVars, sched, process, counters>>

-----------------------------------------------------------------------------
SchedulerStep(i) ==
    \/ SweepStaleRuns(i)
    \/ TakeSlot(i)
    \/ NothingDue(i)
    \/ SkipRun(i)
    \/ StartScheduledRun(i)
    \/ NextRound(i)

Next ==
    \/ \E i \in Instances :
          \/ SchedulerStep(i)
          \/ \E u \in Users : ClaimDueProfile(i, u) \/ StartManualRun(i, u)
          \/ Shutdown(i) \/ Exit(i) \/ Crash(i) \/ Boot(i)
    \/ \E r \in Runs : TakesOrWaits(r) \/ FinishRun(r) \/ FinishRunFails(r) \/ Returns(r)
    \/ \E u \in Users :
          \/ ReadProfile(u) \/ IntervalPasses(u)
          \/ \E on \in BOOLEAN : SaveProfile(u, on)
    \/ Tick

Spec == Init /\ [][Next]_vars

(* Loops, goroutines and clocks go on, a process that is down is restarted,*)
(* and a due profile is claimed in the end because claims take the oldest  *)
(* one first.                                                              *)
Fairness ==
    /\ \A i \in Instances :
          /\ WF_vars(SchedulerStep(i))
          /\ WF_vars(Exit(i)) /\ WF_vars(Boot(i))
          /\ WF_vars(\E u \in Users : ClaimDueProfile(i, u))
    /\ \A u \in Users :
          /\ SF_vars(\E i \in Instances : ClaimDueProfile(i, u))
          /\ SF_vars(IntervalPasses(u))
    /\ \A r \in Runs : WF_vars(TakesOrWaits(r)) /\ WF_vars(FinishRun(r)) /\ WF_vars(Returns(r))
    /\ WF_vars(Tick)

FairSpec == Spec /\ Fairness

-----------------------------------------------------------------------------
(* Properties.                                                             *)

Executing(i) == {r \in Runs : run[r].inst = i /\ run[r].go \in {"working", "closing"}}

HeldByLoop(i) == IF sched[i].pc \in {"claim", "start"} THEN 1 ELSE 0

Places == INSTANCE RunSlots WITH
    inside <- [i \in Instances |-> Executing(i)],
    loop <- [i \in Instances |-> HeldByLoop(i)],
    waiting <- queue

(* The channel, the queue and the loop of each process together give what  *)
(* RunSlots promises: never more runs than places, and a place for who has *)
(* waited longest, through skipped users, crashes and shutdowns.           *)
PlacesInOrder == Places!Spec

(* No slot is lost or used twice, through queueing, skipped users, crashes *)
(* and shutdowns: a place of runSem is held by an execution or by the      *)
(* scheduler, and a goroutine waits only while every place is taken.       *)
SlotsAccounted ==
    \A i \in Instances :
        /\ used[i] = Cardinality(Executing(i)) + HeldByLoop(i)
        /\ queue[i] # <<>> => used[i] = Slots

(* The sweep is safe with several processes on one database: it closes the *)
(* row of a run in progress only if that run had to wait for its slot.     *)
SweepSparesRuns ==
    \A r \in Runs : run[r].go = "working" /\ run[r].row # "running" => run[r].waited

(* No manual run waits for a place of runSem for ever.                     *)
Waits(r) == run[r].go \in {"starting", "queued"}
QueuedRunsStart == \A r \in Runs : Waits(r) ~> ~Waits(r)

HasExecution(u) == \E r \in Runs : run[r].user = u /\ run[r].go = "working"

(* While the autopilot is on it runs: crashes, skipped starts and stale    *)
(* saves of the profile never take a user out of the schedule.             *)
EnabledUsersRun == \A u \in Users : enabled[u] ~> HasExecution(u) \/ ~enabled[u]
=============================================================================
