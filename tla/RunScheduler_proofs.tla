------------------------ MODULE RunScheduler_proofs ------------------------
(* For any users, processes, slots and times: no slot is lost or used twice, *)
(* and the sweep, which knows only the age of a row, closes no run in        *)
(* progress that did not queue.  The two ages of a run that took its slot at *)
(* once are equal, and a row is swept only at an age no execution reaches.   *)
EXTENDS RunScheduler, FiniteSetTheorems, TLAPS

Fit(x) ==
    /\ x.go # "gone" => x.inst \in Instances
    /\ x.go = "queued" => x.waited
    /\ x.go \in {"starting", "working"} /\ ~x.waited => x.row = "running" /\ x.rowAge = x.age

FitRec == {x \in RunRec : Fit(x)}

Exec(f, i)    == {r \in Runs : f[r].inst = i /\ f[r].go \in {"working", "closing"}}
Place(pc)     == IF pc \in {"claim", "start"} THEN 1 ELSE 0
Queued(q, f, i) ==
    /\ \A k \in 1..Len(q) : f[q[k]].go = "queued" /\ f[q[k]].inst = i
    /\ \A k, l \in 1..Len(q) : q[k] = q[l] => k = l

ProfileInv ==
    /\ enabled \in [Users -> BOOLEAN]
    /\ nextRun \in [Users -> {"never", "due", "later"}]
    /\ form \in [Users -> Form \cup {NoForm}]
    /\ clicks \in Nat /\ incidents \in Nat

ProcessInv ==
    /\ sched \in [Instances -> [pc : SchedStates, user : Users \cup {NoUser}]]
    /\ process \in [Instances -> {"up", "stopping", "down"}]
    /\ \A i \in Instances : process[i] = "down" => sched[i].pc = "stopped"

RunInv == run \in [Runs -> FitRec]

SlotInv ==
    /\ used \in [Instances -> 0..Slots]
    /\ \A i \in Instances : used[i] = Cardinality(Exec(run, i)) + Place(sched[i].pc)

QueueInv ==
    /\ queue \in [Instances -> Seq(Runs)]
    /\ \A i \in Instances : Queued(queue[i], run, i) /\ (queue[i] # <<>> => used[i] = Slots)

IInv == ProfileInv /\ ProcessInv /\ RunInv /\ SlotInv /\ QueueInv

-----------------------------------------------------------------------------
(* Records.                                                                *)

LEMMA FreeIsFit == Free \in FitRec /\ Free.go = "gone"
  BY TimesAssumption DEF Free, FitRec, Fit, RunRec, Cutoff

(* A record whose goroutine has ended is fit. *)
LEMMA TidyIsFit ==
    ASSUME NEW x \in RunRec, x.go = "gone" \/ Fit(x) PROVE Tidy(x) \in FitRec
  <1>1. x.go = "gone" => x \in FitRec
    BY DEF FitRec, Fit
  <1> QED
    BY <1>1, FreeIsFit DEF Tidy, FitRec

LEMMA GoneIsFit ==
    ASSUME NEW x \in FitRec PROVE Tidy([x EXCEPT !.go = "gone"]) \in FitRec
  <1>1. [x EXCEPT !.go = "gone"] \in RunRec /\ [x EXCEPT !.go = "gone"].go = "gone"
    BY DEF FitRec, RunRec
  <1> QED
    BY <1>1, TidyIsFit

(* The sweep meets no execution that took its slot at once. *)
LEMMA SweptIsFit ==
    ASSUME NEW x \in FitRec PROVE Swept(x) \in FitRec
  <1> DEFINE y == [x EXCEPT !.row = "failed"]
  <1>1. CASE x.row = "running" /\ x.rowAge > Cutoff
    <2>1. y \in RunRec
      BY DEF FitRec, RunRec
    <2>2. Fit(y)
      BY <1>1, TimesAssumption DEF FitRec, RunRec, Fit, Cutoff
    <2> QED
      BY <2>1, <2>2, TidyIsFit, <1>1 DEF Swept
  <1> QED
    BY <1>1 DEF Swept

LEMMA SweptKeeps ==
    ASSUME NEW x \in FitRec
    PROVE  /\ Swept(x).go = x.go
           /\ x.go # "gone" => Swept(x).inst = x.inst
  BY DEF Swept, Tidy, Free, FitRec, RunRec

LEMMA OlderIsFit ==
    ASSUME NEW x \in FitRec, x.go # "starting", x.go = "working" => x.age < Cutoff
    PROVE  Older(x) \in FitRec /\ Older(x).go = x.go /\ Older(x).inst = x.inst
  <1>1. Cutoff \in Nat
    BY TimesAssumption DEF Cutoff
  <1> DEFINE a == IF x.row = "running" /\ x.rowAge <= Cutoff THEN x.rowAge + 1 ELSE x.rowAge
             b == IF x.go = "working" THEN x.age + 1 ELSE x.age
  <1>a. a \in 0..(Cutoff + 1) /\ b \in 0..Cutoff
    BY <1>1 DEF FitRec, RunRec
  <1>b. Older(x) = [x EXCEPT !.rowAge = a, !.age = b]
    BY DEF Older
  <1> HIDE DEF a, b
  <1>2. Older(x) \in RunRec
    BY <1>a, <1>b DEF FitRec, RunRec
  <1>3. Fit(Older(x)) /\ Older(x).go = x.go /\ Older(x).inst = x.inst
    BY <1>1 DEF FitRec, RunRec, Older, Fit
  <1> QED
    BY <1>2, <1>3 DEF FitRec

LEMMA NewRunIsFit ==
    ASSUME NEW u \in Users \cup {NoUser}, NEW t \in {"manual", "schedule"},
           NEW i \in Instances, NEW g \in {"starting", "working"}
    PROVE  NewRun(u, t, i, g) \in FitRec /\ NewRun(u, t, i, g).go = g /\ NewRun(u, t, i, g).inst = i
  <1>1. Cutoff \in Nat
    BY TimesAssumption DEF Cutoff
  <1>2. NewRun(u, t, i, g) \in RunRec
    BY <1>1 DEF RunRec, NewRun
  <1>3. NewRun(u, t, i, g).go = g /\ NewRun(u, t, i, g).inst = i
    BY DEF NewRun
  <1>4. Fit(NewRun(u, t, i, g))
    BY DEF Fit, NewRun
  <1> QED
    BY <1>2, <1>3, <1>4 DEF FitRec

LEMMA WorkingIsFit ==
    ASSUME NEW x \in FitRec, x.go \in {"starting", "queued"}
    PROVE  [x EXCEPT !.go = "working"] \in FitRec
  BY DEF FitRec, Fit, RunRec

(* A goroutine that finds no place, and the record that says so.           *)
Blocked(x) == [x EXCEPT !.go = "queued", !.waited = TRUE]

LEMMA BlockedIsFit ==
    ASSUME NEW x \in FitRec, x.go = "starting"
    PROVE  Blocked(x) \in FitRec /\ Blocked(x).go = "queued" /\ Blocked(x).inst = x.inst
  BY DEF FitRec, Fit, RunRec, Blocked

LEMMA ClosingIsFit ==
    ASSUME NEW x \in FitRec, x.go = "working", NEW s \in {"running", "none", "completed", "failed"}
    PROVE  [x EXCEPT !.row = s, !.go = "closing"] \in FitRec
  BY DEF FitRec, Fit, RunRec


-----------------------------------------------------------------------------
(* Executions.                                                             *)

LEMMA ExecIsFinite ==
    ASSUME NEW f, NEW i PROVE IsFiniteSet(Exec(f, i)) /\ Cardinality(Exec(f, i)) \in Nat
  <1>1. Exec(f, i) \subseteq Runs
    BY DEF Exec
  <1> QED
    BY <1>1, NamesAssumption, FS_Subset, FS_CardinalityType

LEMMA NoneLeft == Cardinality({}) = 0
  BY FS_EmptySet

LEMMA OneMore ==
    ASSUME NEW f, NEW g, NEW i, NEW r, r \notin Exec(f, i), Exec(g, i) = Exec(f, i) \cup {r}
    PROVE  Cardinality(Exec(g, i)) = Cardinality(Exec(f, i)) + 1
  BY ExecIsFinite, FS_AddElement

LEMMA OneLess ==
    ASSUME NEW f, NEW g, NEW i, NEW r, r \in Exec(f, i), Exec(g, i) = Exec(f, i) \ {r}
    PROVE  Cardinality(Exec(g, i)) = Cardinality(Exec(f, i)) - 1
  BY ExecIsFinite, FS_RemoveElement

(* A record that keeps its process and its place changes no count. *)
LEMMA SameExec ==
    ASSUME NEW f, NEW g,
           \A r \in Runs :
               \/ g[r].inst = f[r].inst /\ g[r].go = f[r].go
               \/ {f[r].go, g[r].go} \subseteq {"gone", "starting", "queued"}
               \/ g[r].inst = f[r].inst /\ f[r].go = "working" /\ g[r].go = "closing"
    PROVE  \A i : Exec(g, i) = Exec(f, i)
  BY DEF Exec

(* Giving a place back: the counts of the process, and of every other.     *)
LEMMA Releasing ==
    ASSUME NEW i \in Instances, NEW f \in [Runs -> FitRec], NEW n \in Nat,
           QueueInv, used \in [Instances -> 0..Slots],
           \A j \in Instances : Queued(queue[j], f, j),
           used[i] = Cardinality(Exec(f, i)) + n + 1,
           Release(i)
    PROVE  /\ Handed(i, f) \in [Runs -> FitRec]
           /\ used' \in [Instances -> 0..Slots]
           /\ used'[i] = Cardinality(Exec(Handed(i, f), i)) + n
           /\ \A j \in Instances \ {i} :
                 used'[j] = used[j] /\ Exec(Handed(i, f), j) = Exec(f, j)
           /\ queue' \in [Instances -> Seq(Runs)]
           /\ \A j \in Instances : Queued(queue'[j], Handed(i, f), j) /\ (queue'[j] # <<>> => used'[j] = Slots)
  <1>1. Slots \in Nat /\ Cardinality(Exec(f, i)) \in Nat
    BY TimesAssumption, ExecIsFinite
  <1>2. CASE queue[i] = <<>>
    <2>1. Handed(i, f) = f
      BY <1>2 DEF Handed
    <2>2. used' = [used EXCEPT ![i] = @ - 1] /\ queue' = queue
      BY <1>2 DEF Release
    <2>3. used[i] \in 0..Slots /\ used[i] >= 1
      BY <1>1
    <2> QED
      BY <1>1, <1>2, <2>1, <2>2, <2>3 DEF QueueInv
  <1>3. CASE queue[i] # <<>>
    <2> DEFINE h == Head(queue[i])
               g == [f EXCEPT ![h].go = "working"]
    <2>1. used' = used /\ queue' = [queue EXCEPT ![i] = Tail(queue[i])]
      BY <1>3 DEF Release
    <2>2. queue[i] \in Seq(Runs) /\ Len(queue[i]) \in Nat /\ Len(queue[i]) >= 1 /\ h = queue[i][1] /\ h \in Runs
      BY <1>3 DEF QueueInv
    <2>3. f[h].go = "queued" /\ f[h].inst = i /\ f[h] \in FitRec
      BY <2>2 DEF Queued
    <2>4. Handed(i, f) = g
      BY <1>3 DEF Handed
    <2>5. g = [f EXCEPT ![h] = [f[h] EXCEPT !.go = "working"]]
      OBVIOUS
    <2>6. [f[h] EXCEPT !.go = "working"] \in FitRec
      BY <2>3, WorkingIsFit
    <2>7. [f[h] EXCEPT !.go = "working"].go = "working" /\ [f[h] EXCEPT !.go = "working"].inst = i
      BY <2>3 DEF FitRec, RunRec
    <2> HIDE DEF g, h
    <2>8. g \in [Runs -> FitRec] /\ g[h].go = "working" /\ g[h].inst = i
          /\ \A r \in Runs \ {h} : g[r] = f[r]
      BY <2>2, <2>5, <2>6, <2>7
    <2>9. h \notin Exec(f, i) /\ Exec(g, i) = Exec(f, i) \cup {h}
      BY <2>2, <2>3, <2>8 DEF Exec
    <2>10. Cardinality(Exec(g, i)) = Cardinality(Exec(f, i)) + 1
      BY <2>9, OneMore
    <2>11. \A j \in Instances \ {i} : Exec(g, j) = Exec(f, j)
      BY <2>2, <2>3, <2>8 DEF Exec
    <2>12. Tail(queue[i]) \in Seq(Runs) /\ Len(Tail(queue[i])) = Len(queue[i]) - 1
           /\ \A k \in 1..Len(Tail(queue[i])) : Tail(queue[i])[k] = queue[i][k + 1]
      BY <2>2, <1>3
    <2>13. Queued(Tail(queue[i]), g, i)
      <3>1. ASSUME NEW k \in 1..Len(Tail(queue[i]))
            PROVE  Tail(queue[i])[k] \in Runs /\ Tail(queue[i])[k] # h
        BY <2>2, <2>12 DEF Queued
      <3> QED
        BY <3>1, <2>2, <2>8, <2>12 DEF Queued
    <2>14. ASSUME NEW j \in Instances \ {i} PROVE Queued(queue[j], g, j)
      <3>1. ASSUME NEW k \in 1..Len(queue[j]) PROVE queue[j][k] \in Runs /\ queue[j][k] # h
        BY <2>3 DEF Queued, QueueInv
      <3> QED
        BY <3>1, <2>8 DEF Queued
    <2>15. queue' \in [Instances -> Seq(Runs)] /\ queue'[i] = Tail(queue[i])
           /\ \A j \in Instances \ {i} : queue'[j] = queue[j]
      BY <2>1, <2>12 DEF QueueInv
    <2>16. used[i] = Slots /\ \A j \in Instances : queue[j] # <<>> => used[j] = Slots
      BY <1>3 DEF QueueInv
    <2>17. used[i] = Cardinality(Exec(g, i)) + n
      BY <1>1, <2>10
    <2>18. ASSUME NEW j \in Instances
           PROVE  Queued(queue'[j], g, j) /\ (queue'[j] # <<>> => used'[j] = Slots)
      BY <2>1, <2>13, <2>14, <2>15, <2>16
    <2> QED
      BY <2>1, <2>4, <2>8, <2>11, <2>15, <2>17, <2>18
  <1> QED
    BY <1>2, <1>3


-----------------------------------------------------------------------------
(* Steps.                                                                  *)

(* A step that gives, takes and moves no place. *)
LEMMA Quietly ==
    ASSUME IInv, ProfileInv', ProcessInv', RunInv', UNCHANGED slotVars,
           \A r \in Runs :
               \/ run'[r].inst = run[r].inst /\ run'[r].go = run[r].go
               \/ run'[r].go \in {"gone", "starting"} /\ run[r].go = "gone"
               \/ run'[r].inst = run[r].inst /\ run[r].go = "working" /\ run'[r].go = "closing",
           \A i \in Instances : Place(sched'[i].pc) = Place(sched[i].pc)
    PROVE  IInv'
  <1>1. \A i : Exec(run', i) = Exec(run, i)
    BY SameExec
  <1>2. SlotInv'
    BY <1>1 DEF SlotInv, slotVars, IInv
  <1>3. ASSUME NEW i \in Instances PROVE Queued(queue[i], run', i)
    BY DEF Queued, QueueInv, IInv
  <1>4. QueueInv'
    BY <1>3 DEF QueueInv, slotVars, IInv
  <1> QED
    BY <1>2, <1>4 DEF IInv

LEMMA Profiles == ProfileInv /\ UNCHANGED <<profileVars, counters>> => ProfileInv'
  BY DEF ProfileInv, profileVars, counters

(* The loop of one process moves on. *)
LEMMA Going ==
    ASSUME ProcessInv, NEW i \in Instances, sched[i].pc # "stopped", UNCHANGED process,
           NEW p \in SchedStates, NEW u \in Users \cup {NoUser},
           sched' = [sched EXCEPT ![i] = [pc |-> p, user |-> u]]
    PROVE  /\ ProcessInv'
           /\ sched'[i].pc = p
           /\ \A j \in Instances \ {i} : sched'[j] = sched[j]
  BY DEF ProcessInv

LEMMA Sweep ==
    ASSUME IInv, NEW i \in Instances, SweepStaleRuns(i) PROVE IInv'
  <1>1. ProcessInv' /\ sched'[i].pc = "dispatch" /\ \A j \in Instances \ {i} : sched'[j] = sched[j]
    BY Going DEF SweepStaleRuns, At, Go, IInv, SchedStates
  <1>2. \A j \in Instances : Place(sched'[j].pc) = Place(sched[j].pc)
    BY <1>1 DEF Place, SweepStaleRuns, At
  <1>3. ASSUME NEW r \in Runs
        PROVE  /\ Swept(run[r]) \in FitRec
               /\ Swept(run[r]).go = run[r].go
               /\ run[r].go # "gone" => Swept(run[r]).inst = run[r].inst
    BY SweptIsFit, SweptKeeps DEF IInv, RunInv
  <1>4. CASE process[i] = "up"
    <2>1. run' = [r \in Runs |-> Swept(run[r])]
      BY <1>4 DEF SweepStaleRuns
    <2>2. RunInv'
      BY <1>3, <2>1 DEF RunInv
    <2> QED
      BY <1>1, <1>2, <1>3, <2>1, <2>2, Quietly, Profiles DEF IInv, SweepStaleRuns
  <1>5. CASE process[i] # "up"
    BY <1>1, <1>2, <1>5, Quietly, Profiles DEF IInv, SweepStaleRuns, RunInv
  <1> QED
    BY <1>4, <1>5

LEMMA Takes ==
    ASSUME IInv, NEW i \in Instances, TakeSlot(i) PROVE IInv'
  <1>1. PICK p \in {"claim", "wait"} : Go(i, p) /\ (p = "claim" => used[i] < Slots /\ used' = [used EXCEPT ![i] = @ + 1])
                                             /\ (p = "wait" => used' = used)
    BY DEF TakeSlot
  <1>2. ProcessInv' /\ sched'[i].pc = p /\ \A j \in Instances \ {i} : sched'[j] = sched[j]
    BY <1>1, Going DEF TakeSlot, At, Go, IInv, SchedStates
  <1>3. ProfileInv' /\ RunInv'
    BY Profiles DEF IInv, TakeSlot, RunInv
  <1>4. CASE p = "wait"
    <2>1. \A j \in Instances : Place(sched'[j].pc) = Place(sched[j].pc)
      BY <1>2, <1>4 DEF Place, TakeSlot, At
    <2> QED
      BY <1>1, <1>2, <1>3, <1>4, <2>1, Quietly DEF TakeSlot, slotVars
  <1>5. CASE p = "claim"
    <2>1. \A j : Exec(run', j) = Exec(run, j)
      BY DEF TakeSlot
    <2>2. Slots \in Nat /\ Cardinality(Exec(run, i)) \in Nat /\ used[i] \in 0..Slots
      BY TimesAssumption, ExecIsFinite DEF IInv, SlotInv
    <2>3. used[i] = Cardinality(Exec(run, i)) /\ Place(sched'[i].pc) = 1
      BY <1>2, <1>5, <2>2 DEF Place, TakeSlot, At, IInv, SlotInv
    <2>4. SlotInv'
      BY <1>1, <1>2, <1>5, <2>1, <2>2, <2>3 DEF SlotInv, IInv
    <2>5. queue[i] = <<>>
      BY <1>1, <1>5, <2>2 DEF QueueInv, IInv
    <2>6. QueueInv'
      <3>1. \A j \in Instances \ {i} : used'[j] = used[j]
        BY <1>1, <1>5 DEF IInv, SlotInv
      <3>2. UNCHANGED <<queue, run>>
        BY DEF TakeSlot
      <3> QED
        BY <2>5, <3>1, <3>2 DEF QueueInv, IInv
    <2> QED
      BY <1>2, <1>3, <2>4, <2>6 DEF IInv
  <1> QED
    BY <1>4, <1>5

(* The scheduler gives its place back and goes on. *)
LEMMA Releases ==
    ASSUME IInv, NEW i \in Instances, sched[i].pc \in {"claim", "start"}, NEW p \in {"wait", "dispatch"},
           Release(i), run' = Handed(i, run), Go(i, p), UNCHANGED <<profileVars, process, counters>>
    PROVE  IInv'
  <1>1. ProcessInv' /\ sched'[i].pc = p /\ \A j \in Instances \ {i} : sched'[j] = sched[j]
    BY Going DEF Go, IInv, SchedStates
  <1>2. /\ Place(sched[i].pc) = 1 /\ Place(sched'[i].pc) = 0
        /\ \A j \in Instances \ {i} : Place(sched'[j].pc) = Place(sched[j].pc)
    BY <1>1 DEF Place
  <1>3. Cardinality(Exec(run, i)) \in Nat
    BY ExecIsFinite
  <1>4. used[i] = Cardinality(Exec(run, i)) + 0 + 1
    BY <1>2, <1>3 DEF IInv, SlotInv
  <1>5. QueueInv /\ used \in [Instances -> 0..Slots] /\ run \in [Runs -> FitRec]
        /\ \A j \in Instances : Queued(queue[j], run, j)
    BY DEF IInv, SlotInv, QueueInv, RunInv
  <1>6. /\ run' \in [Runs -> FitRec]
        /\ used' \in [Instances -> 0..Slots]
        /\ used'[i] = Cardinality(Exec(run', i)) + 0
        /\ \A j \in Instances \ {i} : used'[j] = used[j] /\ Exec(run', j) = Exec(run, j)
        /\ queue' \in [Instances -> Seq(Runs)]
        /\ \A j \in Instances : Queued(queue'[j], run', j) /\ (queue'[j] # <<>> => used'[j] = Slots)
    BY <1>4, <1>5, Releasing
  <1>7. SlotInv'
    BY <1>2, <1>6 DEF SlotInv, IInv
  <1>8. RunInv'
    BY <1>6 DEF RunInv
  <1>10. QueueInv'
    BY <1>6 DEF QueueInv
  <1>9. ProfileInv'
    BY Profiles DEF IInv
  <1> QED
    BY <1>1, <1>7, <1>8, <1>9, <1>10 DEF IInv

(* A record that does not execute yet becomes an execution of process i.   *)
LEMMA Starting ==
    ASSUME IInv, NEW i \in Instances, NEW r \in Runs, run[r].go \in {"gone", "starting"}, NEW x \in FitRec,
           x.go = "working", x.inst = i, run' = [run EXCEPT ![r] = x]
    PROVE  /\ RunInv'
           /\ Cardinality(Exec(run', i)) = Cardinality(Exec(run, i)) + 1
           /\ \A j \in Instances \ {i} : Exec(run', j) = Exec(run, j)
           /\ \A j \in Instances : Queued(queue[j], run', j)
  <1>1. run[r].go \in {"gone", "starting"} /\ run \in [Runs -> FitRec]
    BY DEF IInv, RunInv
  <1>2. run' \in [Runs -> FitRec] /\ run'[r] = x /\ \A q \in Runs \ {r} : run'[q] = run[q]
    BY <1>1
  <1>3. r \notin Exec(run, i) /\ Exec(run', i) = Exec(run, i) \cup {r}
    BY <1>1, <1>2 DEF Exec
  <1>4. \A j \in Instances \ {i} : Exec(run', j) = Exec(run, j)
    BY <1>1, <1>2 DEF Exec
  <1>5. ASSUME NEW j \in Instances PROVE Queued(queue[j], run', j)
    <2>1. ASSUME NEW k \in 1..Len(queue[j]) PROVE queue[j][k] \in Runs /\ queue[j][k] # r
      BY <1>1 DEF Queued, QueueInv, IInv
    <2> QED
      BY <1>2, <2>1 DEF Queued, QueueInv, IInv
  <1>6. Cardinality(Exec(run', i)) = Cardinality(Exec(run, i)) + 1
    BY <1>3, OneMore
  <1> QED
    BY <1>2, <1>4, <1>5, <1>6 DEF RunInv

LEMMA StartsScheduled ==
    ASSUME IInv, NEW i \in Instances, StartScheduledRun(i) PROVE IInv'
  <1>1. PICK r \in Runs : run[r] = Free /\ run' = [run EXCEPT ![r] = NewRun(sched[i].user, "schedule", i, "working")]
    BY DEF StartScheduledRun, Unused
  <1>2. sched[i].user \in Users \cup {NoUser} /\ sched[i].pc = "start"
    BY DEF IInv, ProcessInv, StartScheduledRun, At
  <1>3. /\ NewRun(sched[i].user, "schedule", i, "working") \in FitRec
        /\ NewRun(sched[i].user, "schedule", i, "working").go = "working"
        /\ NewRun(sched[i].user, "schedule", i, "working").inst = i
    BY <1>2, NewRunIsFit
  <1>4. /\ RunInv'
        /\ Cardinality(Exec(run', i)) = Cardinality(Exec(run, i)) + 1
        /\ \A j \in Instances \ {i} : Exec(run', j) = Exec(run, j)
        /\ \A j \in Instances : Queued(queue[j], run', j)
    BY <1>1, <1>3, FreeIsFit, Starting
  <1>5. ProcessInv' /\ sched'[i].pc = "dispatch" /\ \A j \in Instances \ {i} : sched'[j] = sched[j]
    BY <1>2, Going DEF StartScheduledRun, Go, IInv, SchedStates
  <1>6. used' = used /\ queue' = queue /\ ProfileInv'
    BY Profiles DEF StartScheduledRun, slotVars, IInv
  <1>7. used[i] = Cardinality(Exec(run, i)) + 1 /\ Place(sched'[i].pc) = 0 /\ Cardinality(Exec(run, i)) \in Nat
    BY <1>2, <1>5, ExecIsFinite DEF Place, IInv, SlotInv
  <1>8. SlotInv'
    BY <1>4, <1>5, <1>6, <1>7 DEF SlotInv, IInv
  <1>9. QueueInv'
    BY <1>4, <1>6 DEF QueueInv, IInv
  <1> QED
    BY <1>4, <1>5, <1>6, <1>8, <1>9 DEF IInv


(* The row of a manual run comes before its place.                         *)
LEMMA StartsManual ==
    ASSUME IInv, NEW i \in Instances, NEW u \in Users, StartManualRun(i, u) PROVE IInv'
  <1>1. ProfileInv' /\ ProcessInv' /\ UNCHANGED <<sched, slotVars>>
    BY DEF StartManualRun, IInv, ProfileInv, ProcessInv, profileVars
  <1>2. PICK r \in Runs : run[r] = Free /\ run' = [run EXCEPT ![r] = NewRun(u, "manual", i, "starting")]
    BY DEF StartManualRun, Unused
  <1>3. NewRun(u, "manual", i, "starting") \in FitRec /\ NewRun(u, "manual", i, "starting").go = "starting"
    BY NewRunIsFit
  <1>4. run[r].go = "gone" /\ run \in [Runs -> FitRec]
    BY <1>2, FreeIsFit DEF IInv, RunInv
  <1>5. RunInv' /\ run'[r].go = "starting" /\ \A q \in Runs \ {r} : run'[q] = run[q]
    BY <1>2, <1>3, <1>4 DEF RunInv
  <1> QED
    BY <1>1, <1>4, <1>5, Quietly

(* It takes a free place, or queues for one: then all are taken. *)
LEMMA Taking ==
    ASSUME IInv, NEW r \in Runs, TakesOrWaits(r) PROVE IInv'
  <1> DEFINE i == run[r].inst
  <1>1. ProfileInv' /\ ProcessInv' /\ sched' = sched
    BY Profiles DEF TakesOrWaits, IInv, ProcessInv
  <1>2. run \in [Runs -> FitRec] /\ run[r] \in FitRec /\ run[r].go = "starting" /\ i \in Instances
    BY DEF TakesOrWaits, IInv, RunInv, FitRec, Fit
  <1>3. used[i] \in 0..Slots /\ Slots \in Nat /\ Cardinality(Exec(run, i)) \in Nat
    BY <1>2, TimesAssumption, ExecIsFinite DEF IInv, SlotInv
  <1>4. IF used[i] < Slots
        THEN /\ run' = [run EXCEPT ![r] = [run[r] EXCEPT !.go = "working"]]
             /\ used' = [used EXCEPT ![i] = used[i] + 1]
             /\ UNCHANGED queue
        ELSE /\ run' = [run EXCEPT ![r] = Blocked(run[r])]
             /\ queue' = [queue EXCEPT ![i] = Append(queue[i], r)]
             /\ UNCHANGED used
    BY DEF TakesOrWaits, Behind, Blocked
  <1>r. [run[r] EXCEPT !.go = "working"] \in FitRec /\ Blocked(run[r]) \in FitRec
        /\ [run[r] EXCEPT !.go = "working"].go = "working" /\ [run[r] EXCEPT !.go = "working"].inst = i
        /\ Blocked(run[r]).go = "queued" /\ Blocked(run[r]).inst = i
    <2>1. [run[r] EXCEPT !.go = "working"] \in FitRec
      BY <1>2, WorkingIsFit
    <2>2. [run[r] EXCEPT !.go = "working"].go = "working" /\ [run[r] EXCEPT !.go = "working"].inst = i
      BY <1>2 DEF FitRec, RunRec
    <2> QED
      BY <1>2, <2>1, <2>2, BlockedIsFit
  <1> HIDE DEF i
  <1>5. CASE used[i] < Slots
    <2>1. run' = [run EXCEPT ![r] = [run[r] EXCEPT !.go = "working"]]
      BY <1>4, <1>5
    <2>2. /\ RunInv'
          /\ Cardinality(Exec(run', i)) = Cardinality(Exec(run, i)) + 1
          /\ \A j \in Instances \ {i} : Exec(run', j) = Exec(run, j)
          /\ \A j \in Instances : Queued(queue[j], run', j)
      BY <1>2, <1>r, <2>1, Starting
    <2>3. used' = [used EXCEPT ![i] = used[i] + 1] /\ queue' = queue
      BY <1>4, <1>5
    <2>4. used[i] + 1 \in 0..Slots
      BY <1>3, <1>5
    <2>5. Place(sched[i].pc) \in {0, 1}
      BY DEF Place
    <2>6. used[i] + 1 = Cardinality(Exec(run', i)) + Place(sched'[i].pc)
      BY <1>1, <1>2, <1>3, <2>2, <2>5 DEF IInv, SlotInv
    <2>7. SlotInv'
      BY <1>1, <1>2, <2>2, <2>3, <2>4, <2>6 DEF SlotInv, IInv
    <2>8. queue[i] = <<>>
      BY <1>2, <1>3, <1>5 DEF QueueInv, IInv
    <2>9. \A j \in Instances \ {i} : used'[j] = used[j]
      BY <1>2, <2>3 DEF IInv, SlotInv
    <2>10. QueueInv'
      BY <1>2, <2>2, <2>3, <2>8, <2>9 DEF QueueInv, IInv
    <2> QED
      BY <1>1, <2>2, <2>7, <2>10 DEF IInv
  <1>6. CASE ~(used[i] < Slots)
    <2> DEFINE x == Blocked(run[r])
    <2>1. x \in FitRec /\ x.go = "queued" /\ x.inst = i
      BY <1>r
    <2>2. run' = [run EXCEPT ![r] = x] /\ used' = used /\ queue' = [queue EXCEPT ![i] = Append(queue[i], r)]
      BY <1>4, <1>6
    <2> HIDE DEF x
    <2>3. run[r].go = "starting" /\ run \in [Runs -> FitRec]
      BY <1>2
    <2>4. run' \in [Runs -> FitRec] /\ run'[r] = x /\ \A q \in Runs \ {r} : run'[q] = run[q]
      BY <2>1, <2>2, <2>3
    <2>5. \A j : Exec(run', j) = Exec(run, j)
      BY <2>1, <2>3, <2>4 DEF Exec
    <2>6. SlotInv'
      BY <1>1, <2>2, <2>5 DEF SlotInv, IInv
    <2>7. used[i] = Slots
      BY <1>3, <1>6
    <2>8. i \in Instances /\ \A j \in Instances : queue[j] \in Seq(Runs) /\ Queued(queue[j], run, j) /\ (queue[j] # <<>> => used[j] = Slots)
      BY <1>2 DEF IInv, QueueInv
    <2>9. ASSUME NEW j \in Instances, NEW k \in 1..Len(queue[j]) PROVE queue[j][k] \in Runs /\ queue[j][k] # r
      BY <2>3, <2>8 DEF Queued
    <2>10. ASSUME NEW j \in Instances PROVE Queued(queue[j], run', j)
      BY <2>4, <2>8, <2>9 DEF Queued
    <2>11. /\ Append(queue[i], r) \in Seq(Runs) /\ Len(Append(queue[i], r)) = Len(queue[i]) + 1
           /\ Len(queue[i]) \in Nat
           /\ \A k \in 1..Len(queue[i]) : Append(queue[i], r)[k] = queue[i][k]
           /\ Append(queue[i], r)[Len(queue[i]) + 1] = r
      BY <2>8
    <2>12. ASSUME NEW k \in 1..Len(Append(queue[i], r))
           PROVE  IF k = Len(queue[i]) + 1 THEN Append(queue[i], r)[k] = r
                  ELSE k \in 1..Len(queue[i]) /\ Append(queue[i], r)[k] = queue[i][k]
      BY <2>11
    <2>13. Queued(Append(queue[i], r), run', i)
      <3>1. \A k \in 1..Len(Append(queue[i], r)) :
               run'[Append(queue[i], r)[k]].go = "queued" /\ run'[Append(queue[i], r)[k]].inst = i
        BY <1>2, <2>1, <2>4, <2>10, <2>12 DEF Queued
      <3>2. \A k, l \in 1..Len(Append(queue[i], r)) : Append(queue[i], r)[k] = Append(queue[i], r)[l] => k = l
        BY <1>2, <2>9, <2>10, <2>12 DEF Queued
      <3> QED
        BY <3>1, <3>2 DEF Queued
    <2>14. queue' \in [Instances -> Seq(Runs)] /\ queue'[i] = Append(queue[i], r)
           /\ \A j \in Instances \ {i} : queue'[j] = queue[j]
      BY <2>2, <2>8, <2>11 DEF IInv, QueueInv
    <2>15. QueueInv'
      BY <2>2, <2>7, <2>8, <2>10, <2>13, <2>14 DEF QueueInv
    <2> QED
      BY <1>1, <2>4, <2>6, <2>15 DEF IInv, RunInv
  <1> QED
    BY <1>5, <1>6

(* The goroutine of a run ends, and its place goes to the next in line. *)
LEMMA Ending ==
    ASSUME IInv, NEW r \in Runs, Returns(r) PROVE IInv'
  <1> DEFINE i == run[r].inst
             x == Tidy([run[r] EXCEPT !.go = "gone"])
             f == [run EXCEPT ![r] = x]
  <1>1. run \in [Runs -> FitRec] /\ run[r].go = "closing"
    BY DEF IInv, RunInv, Returns
  <1>2. i \in Instances
    BY <1>1 DEF FitRec, Fit
  <1>3. x \in FitRec
    BY <1>1, GoneIsFit
  <1>4. x.go = "gone"
    BY <1>1 DEF Tidy, Free, FitRec, RunRec
  <1>5. Release(i) /\ run' = Handed(i, f)
    BY DEF Returns
  <1>6. UNCHANGED <<profileVars, counters>> /\ UNCHANGED <<sched, process>>
    BY DEF Returns
  <1> HIDE DEF i, x
  <1>7. f \in [Runs -> FitRec] /\ f[r] = x /\ \A q \in Runs \ {r} : f[q] = run[q]
    BY <1>1, <1>3
  <1> HIDE DEF f
  <1>8. r \in Exec(run, i) /\ Exec(f, i) = Exec(run, i) \ {r}
    BY <1>1, <1>4, <1>7 DEF Exec, i
  <1>9. \A j \in Instances \ {i} : Exec(f, j) = Exec(run, j)
    BY <1>1, <1>4, <1>7 DEF Exec, i
  <1>10. Cardinality(Exec(f, i)) = Cardinality(Exec(run, i)) - 1
    BY <1>8, OneLess
  <1>11. Cardinality(Exec(run, i)) \in Nat /\ Cardinality(Exec(f, i)) \in Nat /\ Place(sched[i].pc) \in Nat
    BY ExecIsFinite DEF Place
  <1>12. used[i] = Cardinality(Exec(f, i)) + Place(sched[i].pc) + 1
    BY <1>2, <1>10, <1>11 DEF IInv, SlotInv
  <1>13. ASSUME NEW j \in Instances PROVE Queued(queue[j], f, j)
    <2>1. ASSUME NEW k \in 1..Len(queue[j]) PROVE queue[j][k] \in Runs /\ queue[j][k] # r
      BY <1>1 DEF Queued, QueueInv, IInv
    <2>2. Queued(queue[j], run, j)
      BY DEF QueueInv, IInv
    <2> QED
      BY <1>7, <2>1, <2>2 DEF Queued
  <1>14. QueueInv /\ used \in [Instances -> 0..Slots]
    BY DEF IInv, SlotInv
  <1>15. /\ run' \in [Runs -> FitRec]
         /\ used' \in [Instances -> 0..Slots]
         /\ used'[i] = Cardinality(Exec(run', i)) + Place(sched[i].pc)
         /\ \A j \in Instances \ {i} : used'[j] = used[j] /\ Exec(run', j) = Exec(f, j)
         /\ queue' \in [Instances -> Seq(Runs)]
         /\ \A j \in Instances : Queued(queue'[j], run', j) /\ (queue'[j] # <<>> => used'[j] = Slots)
    BY <1>2, <1>5, <1>7, <1>11, <1>12, <1>13, <1>14, Releasing
  <1>16. SlotInv'
    BY <1>6, <1>9, <1>15 DEF SlotInv, IInv
  <1>17. RunInv'
    BY <1>15 DEF RunInv
  <1>19. QueueInv'
    BY <1>15 DEF QueueInv
  <1>18. ProfileInv' /\ ProcessInv'
    BY <1>6, Profiles DEF IInv, ProcessInv
  <1> QED
    BY <1>16, <1>17, <1>18, <1>19 DEF IInv


(* Nothing is left of a process that ends. *)
LEMMA Dying ==
    ASSUME IInv, NEW i \in Instances, Dies(i), ProfileInv' PROVE IInv'
  <1>1. ASSUME NEW r \in Runs
        PROVE  Tidy([run[r] EXCEPT !.go = "gone"]) \in FitRec /\ Tidy([run[r] EXCEPT !.go = "gone"]).go = "gone"
    <2>1. run[r] \in FitRec
      BY DEF IInv, RunInv
    <2> QED
      BY <2>1, GoneIsFit DEF Tidy, Free, FitRec, RunRec
  <1>2. run' = [r \in Runs |-> IF run[r].inst = i THEN Tidy([run[r] EXCEPT !.go = "gone"]) ELSE run[r]]
    BY DEF Dies
  <1>3. run' \in [Runs -> FitRec]
    BY <1>1, <1>2 DEF IInv, RunInv
  <1>4. \A r \in Runs : IF run[r].inst = i THEN run'[r].go = "gone" ELSE run'[r] = run[r]
    BY <1>1, <1>2
  <1>5. Exec(run', i) = {}
    BY <1>4 DEF Exec
  <1>6. \A j \in Instances \ {i} : Exec(run', j) = Exec(run, j)
    BY <1>4 DEF Exec
  <1>7. ProcessInv' /\ sched'[i].pc = "stopped" /\ \A j \in Instances \ {i} : sched'[j] = sched[j]
    BY DEF Dies, Go, IInv, ProcessInv, SchedStates
  <1>8. Slots \in Nat /\ used' = [used EXCEPT ![i] = 0] /\ queue' = [queue EXCEPT ![i] = <<>>]
    BY TimesAssumption DEF Dies
  <1>9. SlotInv'
    <2>1. Cardinality(Exec(run', i)) + Place(sched'[i].pc) = 0
      BY <1>5, <1>7, NoneLeft DEF Place
    <2>2. used' \in [Instances -> 0..Slots] /\ used'[i] = 0 /\ \A j \in Instances \ {i} : used'[j] = used[j]
      BY <1>8 DEF SlotInv, IInv
    <2> QED
      BY <1>6, <1>7, <2>1, <2>2 DEF SlotInv, IInv
  <1>10. ASSUME NEW j \in Instances \ {i} PROVE Queued(queue[j], run', j)
    BY <1>4 DEF IInv, QueueInv, Queued
  <1>11. Queued(<<>>, run', i)
    BY DEF Queued
  <1>12. \A j \in Instances \ {i} : queue'[j] = queue[j] /\ used'[j] = used[j]
    BY <1>8 DEF IInv, QueueInv, SlotInv
  <1>13. queue' \in [Instances -> Seq(Runs)] /\ queue'[i] = <<>>
    BY <1>8 DEF IInv, QueueInv
  <1>14. QueueInv'
    BY <1>10, <1>11, <1>12, <1>13 DEF QueueInv, IInv
  <1> QED
    BY <1>3, <1>7, <1>9, <1>14 DEF IInv, RunInv

(* What leaves rows, goroutines, places and the loops alone. *)
LEMMA StillRuns ==
    ASSUME IInv, UNCHANGED <<run, slotVars>>, ProfileInv', ProcessInv',
           \A i \in Instances : Place(sched'[i].pc) = Place(sched[i].pc)
    PROVE  IInv'
  BY Quietly DEF IInv, RunInv

LEMMA Finishing ==
    ASSUME IInv, NEW r \in Runs, FinishRun(r) \/ FinishRunFails(r) PROVE IInv'
  <1>1. run \in [Runs -> FitRec] /\ run[r].go = "working"
    BY DEF IInv, RunInv, FinishRun, FinishRunFails
  <1>2. PICK s \in {"running", "none", "completed", "failed"} : run' = [run EXCEPT ![r] = [@ EXCEPT !.row = s, !.go = "closing"]]
    <2>1. ASSUME FinishRun(r) PROVE \E s \in {"completed", "failed"} : run' = [run EXCEPT ![r] = [@ EXCEPT !.row = s, !.go = "closing"]]
      BY <2>1 DEF FinishRun
    <2>2. ASSUME FinishRunFails(r) PROVE run' = [run EXCEPT ![r] = [@ EXCEPT !.row = run[r].row, !.go = "closing"]]
      <3>1. run[r] \in RunRec
        BY <1>1 DEF FitRec
      <3>2. [run[r] EXCEPT !.go = "closing"] = [run[r] EXCEPT !.row = run[r].row, !.go = "closing"]
        BY <3>1 DEF RunRec
      <3> QED
        BY <2>2, <3>2 DEF FinishRunFails
    <2>3. run[r].row \in {"running", "none", "completed", "failed"}
      BY <1>1 DEF FitRec, RunRec
    <2> QED
      BY <2>1, <2>2, <2>3
  <1>3. [run[r] EXCEPT !.row = s, !.go = "closing"] \in FitRec
    BY <1>1, ClosingIsFit
  <1>4. [run[r] EXCEPT !.row = s, !.go = "closing"].go = "closing" /\ [run[r] EXCEPT !.row = s, !.go = "closing"].inst = run[r].inst
    BY <1>1 DEF FitRec, RunRec
  <1>5. RunInv'
    BY <1>1, <1>2, <1>3 DEF RunInv
  <1>6. \A q \in Runs :
           \/ run'[q].inst = run[q].inst /\ run'[q].go = run[q].go
           \/ run'[q].inst = run[q].inst /\ run[q].go = "working" /\ run'[q].go = "closing"
    BY <1>1, <1>2, <1>4
  <1>7. UNCHANGED <<sched, process, slotVars>> /\ ProfileInv'
    BY DEF FinishRun, FinishRunFails, Incident, IInv, ProfileInv, profileVars, counters
  <1>8. ProcessInv'
    BY <1>7 DEF IInv, ProcessInv
  <1> QED
    BY <1>5, <1>6, <1>7, <1>8, Quietly

LEMMA Ticking == ASSUME IInv, Tick PROVE IInv'
  <1>1. ASSUME NEW r \in Runs
        PROVE  Older(run[r]) \in FitRec /\ Older(run[r]).go = run[r].go /\ Older(run[r]).inst = run[r].inst
    BY OlderIsFit DEF IInv, RunInv, Tick
  <1>2. run' = [r \in Runs |-> Older(run[r])]
    BY DEF Tick
  <1>3. RunInv'
    BY <1>1, <1>2 DEF RunInv
  <1>4. UNCHANGED <<sched, process, slotVars>> /\ ProfileInv'
    BY Profiles DEF Tick, IInv
  <1>5. ProcessInv'
    BY <1>4 DEF IInv, ProcessInv
  <1> QED
    BY <1>1, <1>2, <1>3, <1>4, <1>5, Quietly

LEMMA Profiling ==
    ASSUME IInv, NEW u \in Users,
           ReadProfile(u) \/ IntervalPasses(u) \/ (\E on \in BOOLEAN : SaveProfile(u, on))
    PROVE  IInv'
  <1>1. UNCHANGED <<run, slotVars, sched, process>>
    BY DEF ReadProfile, IntervalPasses, SaveProfile
  <1>2. ASSUME ReadProfile(u) PROVE ProfileInv'
    BY <1>2 DEF ReadProfile, Incident, IInv, ProfileInv, Form
  <1>3. ASSUME IntervalPasses(u) PROVE ProfileInv'
    <2>1. form[u] \in Form \cup {NoForm}
      BY DEF IInv, ProfileInv
    <2>2. [form[u] EXCEPT !.next = Passed(@)] \in Form \cup {NoForm}
      <3>1. CASE form[u] \in Form
        BY <3>1 DEF Form, Passed
      <3>2. CASE form[u] = NoForm
        <4>1. [NoForm EXCEPT !.next = Passed(@)] = NoForm
          BY DEF NoForm, Passed
        <4> QED
          BY <3>2, <4>1
      <3> QED
        BY <2>1, <3>1, <3>2
    <2> QED
      BY <1>3, <2>2 DEF IntervalPasses, IInv, ProfileInv, counters
  <1>4. ASSUME NEW on \in BOOLEAN, SaveProfile(u, on) PROVE ProfileInv'
    <2>1. form[u] \in Form
      BY <1>4 DEF SaveProfile, IInv, ProfileInv
    <2>2. (IF on /\ ~form[u].on THEN "due" ELSE form[u].next) \in {"never", "due", "later"}
      BY <2>1 DEF Form
    <2> QED
      BY <1>4, <2>2 DEF SaveProfile, IInv, ProfileInv, counters
  <1>5. ProfileInv'
    BY <1>2, <1>3, <1>4
  <1>6. ProcessInv'
    BY <1>1 DEF IInv, ProcessInv
  <1> QED
    BY <1>1, <1>5, <1>6, StillRuns

LEMMA LoopSteps ==
    ASSUME IInv, NEW i \in Instances, SchedulerStep(i) PROVE IInv'
  <1>1. CASE NothingDue(i) BY <1>1, Releases DEF NothingDue, At
  <1>2. CASE SkipRun(i) BY <1>2, Releases DEF SkipRun, At
  <1>3. CASE NextRound(i)
    <2>1. PICK p \in {"sweep", "stopped"} : Go(i, p)
      BY <1>3 DEF NextRound
    <2>2. ProcessInv' /\ sched'[i].pc = p /\ \A j \in Instances \ {i} : sched'[j] = sched[j]
      BY <1>3, <2>1, Going DEF NextRound, At, Go, IInv, SchedStates
    <2>3. \A j \in Instances : Place(sched'[j].pc) = Place(sched[j].pc)
      BY <1>3, <2>2 DEF NextRound, At, Place
    <2> QED
      BY <1>3, <2>2, <2>3, StillRuns, Profiles DEF NextRound, IInv
  <1> QED
    BY <1>1, <1>2, <1>3, Sweep, Takes, StartsScheduled DEF SchedulerStep

LEMMA Claiming ==
    ASSUME IInv, NEW i \in Instances, NEW u \in Users, ClaimDueProfile(i, u) PROVE IInv'
  <1>1. ProcessInv' /\ sched'[i].pc = "start" /\ \A j \in Instances \ {i} : sched'[j] = sched[j]
    BY Going DEF ClaimDueProfile, At, IInv, SchedStates
  <1>2. \A j \in Instances : Place(sched'[j].pc) = Place(sched[j].pc)
    BY <1>1 DEF ClaimDueProfile, At, Place
  <1>3. ProfileInv'
    BY DEF ClaimDueProfile, IInv, ProfileInv, counters
  <1> QED
    BY <1>1, <1>2, <1>3, StillRuns DEF ClaimDueProfile

LEMMA ProcessSteps ==
    ASSUME IInv, NEW i \in Instances, Shutdown(i) \/ Exit(i) \/ Crash(i) \/ Boot(i) PROVE IInv'
  <1>1. ProfileInv'
    BY DEF Shutdown, Exit, Crash, Boot, Incident, IInv, ProfileInv, profileVars, counters
  <1>2. ASSUME Exit(i) \/ Crash(i) PROVE IInv'
    BY <1>1, <1>2, Dying DEF Exit, Crash
  <1>3. ASSUME Shutdown(i) PROVE IInv'
    <2>1. ProcessInv'
      BY <1>3 DEF Shutdown, IInv, ProcessInv
    <2> QED
      BY <1>1, <1>3, <2>1, StillRuns DEF Shutdown
  <1>4. ASSUME Boot(i) PROVE IInv'
    <2>1. ProcessInv'
      BY <1>4 DEF Boot, Go, IInv, ProcessInv, SchedStates
    <2>2. \A j \in Instances : Place(sched'[j].pc) = Place(sched[j].pc)
      BY <1>4 DEF Boot, Go, IInv, ProcessInv, Place
    <2> QED
      BY <1>1, <1>4, <2>1, <2>2, StillRuns DEF Boot
  <1> QED
    BY <1>2, <1>3, <1>4

-----------------------------------------------------------------------------
(* Theorems.                                                               *)

LEMMA Initially == Init => IInv
  <1> SUFFICES ASSUME Init PROVE IInv
    OBVIOUS
  <1>1. ProfileInv
    BY DEF Init, ProfileInv
  <1>2. ProcessInv
    BY DEF Init, ProcessInv, SchedStates
  <1>3. RunInv
    BY FreeIsFit DEF Init, RunInv
  <1>4. \A i \in Instances : Exec(run, i) = {}
    BY FreeIsFit DEF Init, Exec
  <1>5. SlotInv
    <2>1. \A i \in Instances : Cardinality(Exec(run, i)) + Place(sched[i].pc) = 0
      <3>1. \A i \in Instances : Place(sched[i].pc) = 0
        BY DEF Init, Place
      <3> QED
        BY <1>4, NoneLeft, <3>1
    <2> QED
      BY <2>1, TimesAssumption DEF Init, SlotInv
  <1>6. QueueInv
    BY DEF Init, QueueInv, Queued
  <1> QED
    BY <1>1, <1>2, <1>3, <1>5, <1>6 DEF IInv

LEMMA Steps == IInv /\ [Next]_vars => IInv'
  <1> SUFFICES ASSUME IInv, [Next]_vars PROVE IInv'
    OBVIOUS
  <1>1. CASE UNCHANGED vars
    <2>1. ProfileInv' /\ ProcessInv'
      BY <1>1 DEF vars, profileVars, counters, IInv, ProfileInv, ProcessInv
    <2> QED
      BY <1>1, <2>1, StillRuns DEF vars
  <1>2. CASE Next
    BY <1>2, LoopSteps, Claiming, StartsManual, Taking, ProcessSteps, Finishing, Ending, Profiling, Ticking DEF Next
  <1> QED
    BY <1>1, <1>2

THEOREM Inductive == Spec => []IInv
  BY Initially, Steps, PTL DEF Spec

(* Whatever is skipped, cut short or restarted, every place of a process's  *)
(* runSem is held by one execution or by its scheduler, and goroutines wait *)
(* only while all are taken (runner.go dispatchDue, StartManualRun).        *)
THEOREM SlotsAlwaysAccounted == Spec => []SlotsAccounted
  <1>1. IInv => SlotsAccounted
    BY DEF IInv, SlotInv, QueueInv, SlotsAccounted, Exec, Executing, Place, HeldByLoop
  <1> QED
    BY Inductive, <1>1, PTL

(* With any number of processes on one database, the sweep closes the row of *)
(* a run in progress only if that run had to wait (repository.go             *)
(* FailStaleRuns, runner.go sweepStaleRuns).                                 *)
THEOREM SweepAlwaysSpares == Spec => []SweepSparesRuns
  <1>1. IInv => SweepSparesRuns
    <2>1. ASSUME IInv, NEW r \in Runs, run[r].go = "working", run[r].row # "running" PROVE run[r].waited
      <3>1. run[r] \in FitRec
        BY <2>1 DEF IInv, RunInv
      <3> QED
        BY <2>1, <3>1 DEF FitRec, Fit
    <2> QED
      BY <2>1 DEF SweepSparesRuns
  <1> QED
    BY Inductive, <1>1, PTL

(* Every variable keeps its type; used never leaves 0..Slots.              *)
THEOREM TypeCorrect == Spec => []TypeOK
  <1>1. IInv => TypeOK
    <2>1. FitRec \subseteq RunRec
      BY DEF FitRec
    <2> QED
      BY <2>1 DEF IInv, ProfileInv, ProcessInv, RunInv, SlotInv, QueueInv, TypeOK
  <1> QED
    BY Inductive, <1>1, PTL

-----------------------------------------------------------------------------
(* The scheduler implements RunSlots, for any processes, runs and places:    *)
(* every step of it gives, takes or hands over one place in the order that   *)
(* RunSlots allows, or changes no place.  The counter of the channel and the *)
(* queue are tied to the executions by the invariant above.                  *)

InsideF == [i \in Instances |-> Executing(i)]
LoopF   == [i \in Instances |-> HeldByLoop(i)]

-----------------------------------------------------------------------------
(* What a step does to the abstract state.                                 *)

LEMMA ExecIsExecuting == \A i : Executing(i) = Exec(run, i) /\ Executing(i)' = Exec(run', i)
  BY DEF Executing, Exec

LEMMA InsideMoves ==
    ASSUME NEW i \in Instances, NEW S, Exec(run', i) = S,
           \A j \in Instances \ {i} : Exec(run', j) = Exec(run, j)
    PROVE  InsideF' = [InsideF EXCEPT ![i] = S]
  BY ExecIsExecuting DEF InsideF

LEMMA InsideStays ==
    ASSUME \A j \in Instances : Exec(run', j) = Exec(run, j) PROVE InsideF' = InsideF
  BY ExecIsExecuting DEF InsideF

LEMMA LoopMoves ==
    ASSUME NEW i \in Instances, NEW n, Place(sched'[i].pc) = n,
           \A j \in Instances \ {i} : sched'[j] = sched[j]
    PROVE  LoopF' = [LoopF EXCEPT ![i] = n]
  BY DEF LoopF, HeldByLoop, Place

LEMMA LoopStays ==
    ASSUME \A j \in Instances : Place(sched'[j].pc) = Place(sched[j].pc) PROVE LoopF' = LoopF
  BY DEF LoopF, HeldByLoop, Place

LEMMA Stutters ==
    ASSUME InsideF' = InsideF, LoopF' = LoopF, queue' = queue PROVE UNCHANGED Places!places
  BY DEF Places!places, InsideF, LoopF

(* RunSlots counts as RunScheduler does.                                   *)
LEMMA SameCount == \A S : Places!Cardinality(S) = Cardinality(S)
  BY Zenon DEF Places!Cardinality, Cardinality

(* The places are all taken in RunSlots exactly when the channel is full.  *)
LEMMA FullIsFull ==
    ASSUME IInv, NEW i \in Instances
    PROVE  /\ Places!Full(i) <=> ~(used[i] < Slots)
           /\ used[i] < Slots => queue[i] = <<>>
  <1>1. used[i] \in 0..Slots /\ Slots \in Nat /\ used[i] = Cardinality(Exec(run, i)) + Place(sched[i].pc)
    BY TimesAssumption DEF IInv, SlotInv
  <1>2. Cardinality(Exec(run, i)) \in Nat
    BY ExecIsFinite
  <1>4. Places!Full(i) <=> Cardinality(Exec(run, i)) + Place(sched[i].pc) >= Slots
    <2>1. Places!Full(i) <=> Cardinality(InsideF[i]) + LoopF[i] >= Slots
      BY SameCount DEF Places!Full, InsideF, LoopF
    <2>2. InsideF[i] = Exec(run, i)
      BY ExecIsExecuting DEF InsideF
    <2>3. LoopF[i] = Place(sched[i].pc)
      BY DEF LoopF, HeldByLoop, Place
    <2> QED
      BY <2>1, <2>2, <2>3
  <1>5. used[i] < Slots => queue[i] = <<>>
    BY <1>1 DEF IInv, QueueInv
  <1> QED
    BY <1>1, <1>2, <1>4, <1>5

(* A place given back by i goes to the head of its queue.                  *)
LEMMA HandedOver ==
    ASSUME NEW i \in Instances, NEW f \in [Runs -> FitRec],
           queue \in [Instances -> Seq(Runs)], Queued(queue[i], f, i)
    PROVE  /\ Exec(Handed(i, f), i) =
                 IF queue[i] = <<>> THEN Exec(f, i) ELSE Exec(f, i) \cup {Head(queue[i])}
           /\ \A j \in Instances \ {i} : Exec(Handed(i, f), j) = Exec(f, j)
  <1>1. CASE queue[i] = <<>>
    BY <1>1 DEF Handed
  <1>2. CASE queue[i] # <<>>
    <2> DEFINE h == Head(queue[i])
    <2>1. queue[i] \in Seq(Runs) /\ Len(queue[i]) \in Nat /\ Len(queue[i]) >= 1 /\ h = queue[i][1] /\ h \in Runs
      BY <1>2
    <2>2. f[h].go = "queued" /\ f[h].inst = i /\ f[h] \in FitRec
      BY <2>1 DEF Queued
    <2>3. Handed(i, f) = [f EXCEPT ![h] = [f[h] EXCEPT !.go = "working"]]
      BY <1>2 DEF Handed
    <2>4. [f[h] EXCEPT !.go = "working"].go = "working" /\ [f[h] EXCEPT !.go = "working"].inst = i
      BY <2>2 DEF FitRec, RunRec
    <2> HIDE DEF h
    <2>5. /\ Handed(i, f)[h].go = "working" /\ Handed(i, f)[h].inst = i
          /\ \A r \in Runs \ {h} : Handed(i, f)[r] = f[r]
      BY <2>1, <2>3, <2>4
    <2>6. Exec(Handed(i, f), i) = Exec(f, i) \cup {h}
      BY <2>1, <2>2, <2>5 DEF Exec
    <2>7. \A j \in Instances \ {i} : Exec(Handed(i, f), j) = Exec(f, j)
      BY <2>1, <2>2, <2>5 DEF Exec
    <2> QED
      BY <1>2, <2>6, <2>7 DEF h
  <1> QED
    BY <1>1, <1>2

(* The channel and the queue, as RunSlots gives a place up.                *)
LEMMA GivesUp ==
    ASSUME IInv, NEW i \in Instances, NEW f \in [Runs -> FitRec], Release(i), run' = Handed(i, f),
           Queued(queue[i], f, i), \A j \in Instances \ {i} : Exec(f, j) = Exec(run, j)
    PROVE  Places!GivenUp(i, Exec(f, i))
  <1>1. queue \in [Instances -> Seq(Runs)]
    BY DEF IInv, QueueInv
  <1> DEFINE S == IF queue[i] = <<>> THEN Exec(f, i) ELSE Exec(f, i) \cup {Head(queue[i])}
  <1>2. Exec(run', i) = S /\ \A j \in Instances \ {i} : Exec(run', j) = Exec(run, j)
    BY <1>1, HandedOver
  <1>3. InsideF' = [InsideF EXCEPT ![i] = S]
    BY <1>2, InsideMoves
  <1>4. queue' = [queue EXCEPT ![i] = IF queue[i] = <<>> THEN <<>> ELSE Tail(queue[i])]
    BY <1>1 DEF Release
  <1> QED
    BY <1>3, <1>4 DEF Places!GivenUp, InsideF

-----------------------------------------------------------------------------
(* The steps.                                                              *)

LEMMA Refines_TakeSlot ==
    ASSUME IInv, NEW i \in Instances, TakeSlot(i) PROVE [Places!Next]_(Places!places)
  <1>1. sched[i].pc = "dispatch" /\ run' = run /\ queue' = queue /\ process' = process
    BY DEF TakeSlot, At
  <1>2. InsideF' = InsideF
    BY <1>1, InsideStays
  <1>3. CASE process[i] = "up" /\ used[i] < Slots
    <2>1. sched'[i].pc = "claim" /\ \A j \in Instances \ {i} : sched'[j] = sched[j]
      BY <1>1, <1>3, Going DEF TakeSlot, Go, IInv, SchedStates
    <2>2. LoopF' = [LoopF EXCEPT ![i] = 1]
      BY <2>1, LoopMoves DEF Place
    <2>3. ~Places!Full(i) /\ queue[i] = <<>> /\ HeldByLoop(i) = 0
      BY <1>1, <1>3, FullIsFull DEF HeldByLoop
    <2>4. Places!LoopTakes(i)
      BY <1>1, <1>2, <2>2, <2>3 DEF Places!LoopTakes, InsideF, LoopF
    <2> QED
      BY <2>4 DEF Places!Next
  <1>4. CASE ~(process[i] = "up" /\ used[i] < Slots)
    <2>1. sched'[i].pc = "wait" /\ \A j \in Instances \ {i} : sched'[j] = sched[j]
      BY <1>1, <1>4, Going DEF TakeSlot, Go, IInv, SchedStates
    <2>2. \A j \in Instances : Place(sched'[j].pc) = Place(sched[j].pc)
      BY <1>1, <2>1 DEF Place
    <2> QED
      BY <1>1, <1>2, <2>2, LoopStays, Stutters
  <1> QED
    BY <1>3, <1>4

(* A place that no due user needs, or whose user is skipped.               *)
LEMMA Refines_Leaving ==
    ASSUME IInv, NEW i \in Instances, NothingDue(i) \/ SkipRun(i) PROVE [Places!Next]_(Places!places)
  <1>1. sched[i].pc \in {"claim", "start"} /\ Release(i) /\ run' = Handed(i, run) /\ process' = process
    BY DEF NothingDue, SkipRun, At
  <1>2. PICK p \in {"wait", "dispatch"} : Go(i, p)
    BY DEF NothingDue, SkipRun
  <1>3. sched'[i].pc = p /\ \A j \in Instances \ {i} : sched'[j] = sched[j]
    BY <1>1, <1>2, Going DEF Go, IInv, SchedStates
  <1>4. LoopF' = [LoopF EXCEPT ![i] = 0]
    BY <1>3, LoopMoves DEF Place
  <1>5. run \in [Runs -> FitRec] /\ Queued(queue[i], run, i)
    BY DEF IInv, RunInv, QueueInv
  <1>6. Places!GivenUp(i, Executing(i))
    BY <1>1, <1>5, GivesUp, ExecIsExecuting
  <1>7. Places!LoopLeaves(i)
    BY <1>1, <1>4, <1>6 DEF Places!LoopLeaves, LoopF, HeldByLoop
  <1> QED
    BY <1>7 DEF Places!Next

LEMMA Refines_StartScheduledRun ==
    ASSUME IInv, NEW i \in Instances, StartScheduledRun(i) PROVE [Places!Next]_(Places!places)
  <1>1. PICK r \in Runs : run[r] = Free /\ run' = [run EXCEPT ![r] = NewRun(sched[i].user, "schedule", i, "working")]
    BY DEF StartScheduledRun, Unused
  <1>2. sched[i].user \in Users \cup {NoUser} /\ sched[i].pc = "start"
    BY DEF IInv, ProcessInv, StartScheduledRun, At
  <1>3. /\ NewRun(sched[i].user, "schedule", i, "working").go = "working"
        /\ NewRun(sched[i].user, "schedule", i, "working").inst = i
    BY <1>2, NewRunIsFit
  <1>4. run[r].go = "gone" /\ run \in [Runs -> FitRec]
    BY <1>1, FreeIsFit DEF IInv, RunInv
  <1>5. /\ r \notin Exec(run, i) /\ Exec(run', i) = Exec(run, i) \cup {r}
        /\ \A j \in Instances \ {i} : Exec(run', j) = Exec(run, j)
    BY <1>1, <1>3, <1>4 DEF Exec
  <1>6. InsideF' = [InsideF EXCEPT ![i] = Executing(i) \cup {r}]
    BY <1>5, InsideMoves, ExecIsExecuting
  <1>7. sched'[i].pc = "dispatch" /\ \A j \in Instances \ {i} : sched'[j] = sched[j]
    BY <1>2, Going DEF StartScheduledRun, Go, IInv, SchedStates
  <1>8. LoopF' = [LoopF EXCEPT ![i] = 0]
    BY <1>7, LoopMoves DEF Place
  <1>9. queue' = queue
    BY DEF StartScheduledRun, slotVars
  <1>10. Places!LoopStarts(i, r)
    BY <1>2, <1>5, <1>6, <1>8, <1>9, ExecIsExecuting DEF Places!LoopStarts, InsideF, LoopF, HeldByLoop
  <1> QED
    BY <1>10 DEF Places!Next

LEMMA Refines_TakesOrWaits ==
    ASSUME IInv, NEW r \in Runs, TakesOrWaits(r) PROVE [Places!Next]_(Places!places)
  <1> DEFINE i == run[r].inst
  <1>1. LoopF' = LoopF
    BY LoopStays DEF TakesOrWaits
  <1>2. run \in [Runs -> FitRec] /\ run[r] \in RunRec /\ run[r].go = "starting" /\ i \in Instances
    BY DEF TakesOrWaits, IInv, RunInv, FitRec, Fit
  <1>3. IF used[i] < Slots
        THEN run' = [run EXCEPT ![r] = [run[r] EXCEPT !.go = "working"]] /\ queue' = queue
        ELSE run' = [run EXCEPT ![r] = Blocked(run[r])] /\ queue' = [queue EXCEPT ![i] = Append(@, r)]
    BY DEF TakesOrWaits, Behind, Blocked
  <1>4. /\ [run[r] EXCEPT !.go = "working"].go = "working" /\ [run[r] EXCEPT !.go = "working"].inst = i
        /\ Blocked(run[r]).go = "queued"
    BY <1>2 DEF RunRec, Blocked
  <1> HIDE DEF i
  <1>5. r \notin Exec(run, i)
    BY <1>2 DEF Exec
  <1>6. CASE used[i] < Slots
    <2>1. run'[r].go = "working" /\ run'[r].inst = i /\ \A q \in Runs \ {r} : run'[q] = run[q]
      BY <1>2, <1>3, <1>4, <1>6
    <2>2. Exec(run', i) = Exec(run, i) \cup {r}
      BY <2>1 DEF Exec
    <2>3. \A j \in Instances \ {i} : Exec(run', j) = Exec(run, j)
      BY <1>2, <2>1 DEF Exec
    <2>4. InsideF' = [InsideF EXCEPT ![i] = Executing(i) \cup {r}]
      BY <1>2, <2>2, <2>3, InsideMoves, ExecIsExecuting
    <2>5. ~Places!Full(i) /\ queue[i] = <<>>
      BY <1>2, <1>6, FullIsFull
    <2>6. Places!Enter(i, r)
      BY <1>1, <1>2, <1>3, <1>5, <1>6, <2>4, <2>5, ExecIsExecuting DEF Places!Enter, InsideF, LoopF
    <2> QED
      BY <1>2, <2>6 DEF Places!Next
  <1>7. CASE ~(used[i] < Slots)
    <2>1. run' = [run EXCEPT ![r] = Blocked(run[r])] /\ queue' = [queue EXCEPT ![i] = Append(@, r)]
      BY <1>3, <1>7
    <2>2. run'[r].go = "queued" /\ \A q \in Runs \ {r} : run'[q] = run[q]
      BY <1>2, <1>4, <2>1
    <2>3. InsideF' = InsideF
      BY <1>2, <2>2, InsideStays DEF Exec
    <2>4. Places!Full(i)
      BY <1>2, <1>7, FullIsFull
    <2>5. Places!Wait(i, r)
      BY <1>1, <1>2, <1>5, <2>1, <2>3, <2>4, ExecIsExecuting DEF Places!Wait, InsideF, LoopF
    <2> QED
      BY <1>2, <2>5 DEF Places!Next
  <1> QED
    BY <1>6, <1>7

LEMMA Refines_Returns ==
    ASSUME IInv, NEW r \in Runs, Returns(r) PROVE [Places!Next]_(Places!places)
  <1> DEFINE i == run[r].inst
             x == Tidy([run[r] EXCEPT !.go = "gone"])
             f == [run EXCEPT ![r] = x]
  <1>1. run \in [Runs -> FitRec] /\ run[r].go = "closing"
    BY DEF IInv, RunInv, Returns
  <1>2. i \in Instances
    BY <1>1 DEF FitRec, Fit
  <1>3. x \in FitRec
    BY <1>1, GoneIsFit
  <1>4. x.go = "gone"
    BY <1>1 DEF Tidy, Free, FitRec, RunRec
  <1>5. Release(i) /\ run' = Handed(i, f) /\ sched' = sched
    BY DEF Returns
  <1> HIDE DEF i, x
  <1>6. f \in [Runs -> FitRec] /\ f[r] = x /\ \A q \in Runs \ {r} : f[q] = run[q]
    BY <1>1, <1>3
  <1> HIDE DEF f
  <1>7. r \in Exec(run, i) /\ Exec(f, i) = Exec(run, i) \ {r}
    BY <1>1, <1>4, <1>6 DEF Exec, i
  <1>8. \A j \in Instances \ {i} : Exec(f, j) = Exec(run, j)
    BY <1>1, <1>4, <1>6 DEF Exec, i
  <1>9. Queued(queue[i], f, i)
    <2>1. ASSUME NEW k \in 1..Len(queue[i]) PROVE queue[i][k] \in Runs /\ queue[i][k] # r
      BY <1>1, <1>2 DEF Queued, QueueInv, IInv
    <2> QED
      BY <1>2, <1>6, <2>1 DEF Queued, QueueInv, IInv
  <1>10. Places!GivenUp(i, Exec(f, i))
    BY <1>2, <1>5, <1>6, <1>8, <1>9, GivesUp
  <1>11. LoopF' = LoopF
    BY <1>5, LoopStays
  <1>12. Places!Leave(i, r)
    BY <1>2, <1>7, <1>10, <1>11, ExecIsExecuting DEF Places!Leave, LoopF
  <1> QED
    BY <1>2, <1>12 DEF Places!Next

LEMMA Refines_Dies ==
    ASSUME IInv, NEW i \in Instances, Dies(i) PROVE [Places!Next]_(Places!places)
  <1>1. ASSUME NEW r \in Runs PROVE Tidy([run[r] EXCEPT !.go = "gone"]).go = "gone"
    <2>1. run[r] \in FitRec
      BY DEF IInv, RunInv
    <2> QED
      BY <2>1 DEF Tidy, Free, FitRec, RunRec
  <1>2. \A r \in Runs : IF run[r].inst = i THEN run'[r].go = "gone" ELSE run'[r] = run[r]
    BY <1>1 DEF Dies
  <1>3. Exec(run', i) = {} /\ \A j \in Instances \ {i} : Exec(run', j) = Exec(run, j)
    BY <1>2 DEF Exec
  <1>4. InsideF' = [InsideF EXCEPT ![i] = {}]
    BY <1>3, InsideMoves
  <1>5. sched'[i].pc = "stopped" /\ \A j \in Instances \ {i} : sched'[j] = sched[j]
    BY DEF Dies, Go, IInv, ProcessInv
  <1>6. LoopF' = [LoopF EXCEPT ![i] = 0]
    BY <1>5, LoopMoves DEF Place
  <1>7. Places!End(i)
    BY <1>4, <1>6 DEF Dies, Places!End, InsideF, LoopF
  <1> QED
    BY <1>7 DEF Places!Next

(* Steps that change no place: rows, ages, the profile, the clock.         *)
LEMMA Refines_Quietly ==
    ASSUME UNCHANGED slotVars,
           \A r \in Runs :
               \/ run'[r].inst = run[r].inst /\ run'[r].go = run[r].go
               \/ run'[r].go \in {"gone", "starting"} /\ run[r].go = "gone"
               \/ run'[r].inst = run[r].inst /\ run[r].go = "working" /\ run'[r].go = "closing",
           \A j \in Instances : Place(sched'[j].pc) = Place(sched[j].pc)
    PROVE  [Places!Next]_(Places!places)
  <1>1. \A j : Exec(run', j) = Exec(run, j)
    BY SameExec
  <1> QED
    BY <1>1, InsideStays, LoopStays, Stutters DEF slotVars

(* Steps of a loop that keep the place it has, and of nothing else.        *)
LEMMA Refines_Unmoved ==
    ASSUME UNCHANGED <<run, slotVars>>, \A j \in Instances : Place(sched'[j].pc) = Place(sched[j].pc)
    PROVE  [Places!Next]_(Places!places)
  BY Refines_Quietly

LEMMA Refines_StartManualRun ==
    ASSUME IInv, NEW i \in Instances, NEW u \in Users, StartManualRun(i, u)
    PROVE  [Places!Next]_(Places!places)
  <1>1. PICK r \in Runs : run[r] = Free /\ run' = [run EXCEPT ![r] = NewRun(u, "manual", i, "starting")]
    BY DEF StartManualRun, Unused
  <1>2. run[r].go = "gone" /\ run \in [Runs -> FitRec] /\ NewRun(u, "manual", i, "starting").go = "starting"
    BY <1>1, FreeIsFit, NewRunIsFit DEF IInv, RunInv
  <1>3. run'[r].go = "starting" /\ \A q \in Runs \ {r} : run'[q] = run[q]
    BY <1>1, <1>2
  <1> QED
    BY <1>2, <1>3, Refines_Quietly DEF StartManualRun

LEMMA Refines_SweepStaleRuns ==
    ASSUME IInv, NEW i \in Instances, SweepStaleRuns(i) PROVE [Places!Next]_(Places!places)
  <1>1. sched'[i].pc = "dispatch" /\ \A j \in Instances \ {i} : sched'[j] = sched[j]
    BY Going DEF SweepStaleRuns, At, Go, IInv, SchedStates
  <1>2. \A j \in Instances : Place(sched'[j].pc) = Place(sched[j].pc)
    BY <1>1 DEF Place, SweepStaleRuns, At
  <1>3. UNCHANGED slotVars
    BY DEF SweepStaleRuns
  <1>4. CASE process[i] = "up"
    <2>1. \A r \in Runs : /\ Swept(run[r]).go = run[r].go
                          /\ run[r].go # "gone" => Swept(run[r]).inst = run[r].inst
      BY SweptKeeps DEF IInv, RunInv
    <2>2. run' = [r \in Runs |-> Swept(run[r])]
      BY <1>4 DEF SweepStaleRuns
    <2>3. \A r \in Runs :
               \/ run'[r].inst = run[r].inst /\ run'[r].go = run[r].go
               \/ run'[r].go = "gone" /\ run[r].go = "gone"
      BY <2>1, <2>2
    <2> QED
      BY <1>2, <1>3, <2>3, Refines_Quietly
  <1>5. CASE process[i] # "up"
    BY <1>2, <1>3, <1>5, Refines_Unmoved DEF SweepStaleRuns
  <1> QED
    BY <1>4, <1>5

LEMMA Refines_SchedulerStep ==
    ASSUME IInv, NEW i \in Instances, SchedulerStep(i) PROVE [Places!Next]_(Places!places)
  <1>1. CASE NextRound(i)
    <2>1. PICK p \in {"sweep", "stopped"} : Go(i, p)
      BY <1>1 DEF NextRound
    <2>2. sched'[i].pc = p /\ \A j \in Instances \ {i} : sched'[j] = sched[j]
      BY <1>1, <2>1, Going DEF NextRound, At, Go, IInv, SchedStates
    <2>3. \A j \in Instances : Place(sched'[j].pc) = Place(sched[j].pc)
      BY <1>1, <2>2 DEF NextRound, At, Place
    <2> QED
      BY <1>1, <2>3, Refines_Unmoved DEF NextRound
  <1> QED
    BY <1>1, Refines_SweepStaleRuns, Refines_TakeSlot, Refines_Leaving, Refines_StartScheduledRun
    DEF SchedulerStep

LEMMA Refines_ClaimDueProfile ==
    ASSUME IInv, NEW i \in Instances, NEW u \in Users, ClaimDueProfile(i, u)
    PROVE  [Places!Next]_(Places!places)
  <1>1. sched'[i].pc = "start" /\ \A j \in Instances \ {i} : sched'[j] = sched[j]
    BY Going DEF ClaimDueProfile, At, IInv, SchedStates
  <1>2. \A j \in Instances : Place(sched'[j].pc) = Place(sched[j].pc)
    BY <1>1 DEF ClaimDueProfile, At, Place
  <1> QED
    BY <1>2, Refines_Unmoved DEF ClaimDueProfile

LEMMA Refines_Processes ==
    ASSUME IInv, NEW i \in Instances, Shutdown(i) \/ Exit(i) \/ Crash(i) \/ Boot(i)
    PROVE  [Places!Next]_(Places!places)
  <1>1. ASSUME Exit(i) \/ Crash(i) PROVE Dies(i)
    BY <1>1 DEF Exit, Crash
  <1>2. ASSUME Shutdown(i) \/ Boot(i)
        PROVE  UNCHANGED <<run, slotVars>> /\ \A j \in Instances : Place(sched'[j].pc) = Place(sched[j].pc)
    BY <1>2 DEF Shutdown, Boot, Go, IInv, ProcessInv, Place
  <1> QED
    BY <1>1, <1>2, Refines_Dies, Refines_Unmoved

LEMMA Refines_Finishing ==
    ASSUME IInv, NEW r \in Runs, FinishRun(r) \/ FinishRunFails(r) PROVE [Places!Next]_(Places!places)
  <1>1. run[r] \in RunRec /\ run \in [Runs -> FitRec] /\ run[r].go = "working"
    BY DEF IInv, RunInv, FinishRun, FinishRunFails, FitRec
  <1>2. run'[r].go = "closing" /\ run'[r].inst = run[r].inst /\ \A q \in Runs \ {r} : run'[q] = run[q]
    <2>1. ASSUME NEW x, x.go = "closing", x.inst = run[r].inst, run' = [run EXCEPT ![r] = x]
          PROVE  run'[r].go = "closing" /\ run'[r].inst = run[r].inst /\ \A q \in Runs \ {r} : run'[q] = run[q]
      BY <1>1, <2>1
    <2>2. CASE FinishRun(r)
      <3>1. PICK s \in {"completed", "failed"} : run' = [run EXCEPT ![r] = [@ EXCEPT !.row = s, !.go = "closing"]]
        BY <2>2 DEF FinishRun
      <3>2. [run[r] EXCEPT !.row = s, !.go = "closing"].go = "closing" /\ [run[r] EXCEPT !.row = s, !.go = "closing"].inst = run[r].inst
        BY <1>1 DEF RunRec
      <3> QED
        BY <2>1, <3>1, <3>2
    <2>3. CASE FinishRunFails(r)
      <3>1. run' = [run EXCEPT ![r] = [run[r] EXCEPT !.go = "closing"]]
        BY <2>3 DEF FinishRunFails
      <3> QED
        BY <1>1, <3>1 DEF RunRec
    <2> QED
      BY <2>2, <2>3
  <1>3. UNCHANGED <<slotVars, sched>>
    BY DEF FinishRun, FinishRunFails
  <1> QED
    BY <1>1, <1>2, <1>3, Refines_Quietly

LEMMA Refines_Tick == ASSUME IInv, Tick PROVE [Places!Next]_(Places!places)
  <1>1. \A r \in Runs : Older(run[r]).go = run[r].go /\ Older(run[r]).inst = run[r].inst
    BY OlderIsFit DEF IInv, RunInv, Tick
  <1>2. UNCHANGED <<slotVars, sched>> /\ run' = [r \in Runs |-> Older(run[r])]
    BY DEF Tick
  <1> QED
    BY <1>1, <1>2, Refines_Quietly

LEMMA Refines_Step == IInv /\ [Next]_vars => [Places!Next]_(Places!places)
  <1> SUFFICES ASSUME IInv, [Next]_vars PROVE [Places!Next]_(Places!places)
    OBVIOUS
  <1>1. CASE UNCHANGED vars
    BY <1>1, Refines_Unmoved DEF vars
  <1>2. ASSUME NEW u \in Users, ReadProfile(u) \/ IntervalPasses(u) \/ (\E on \in BOOLEAN : SaveProfile(u, on))
        PROVE  [Places!Next]_(Places!places)
    BY <1>2, Refines_Unmoved DEF ReadProfile, IntervalPasses, SaveProfile
  <1>3. CASE Next
    BY <1>2, <1>3, Refines_SchedulerStep, Refines_ClaimDueProfile, Refines_StartManualRun,
       Refines_TakesOrWaits, Refines_Processes, Refines_Finishing, Refines_Returns, Refines_Tick DEF Next
  <1> QED
    BY <1>1, <1>3

LEMMA Refines_Init == Init => Places!Init
  <1> SUFFICES ASSUME Init PROVE Places!Init
    OBVIOUS
  <1>1. \A i \in Instances : Executing(i) = {}
    BY DEF Init, Executing, Free
  <1>2. \A i \in Instances : HeldByLoop(i) = 0
    BY DEF Init, HeldByLoop
  <1> QED
    BY <1>1, <1>2 DEF Init, Places!Init

(* However processes, loops, runs and the sweep interleave, the places of    *)
(* runSem are given, taken and handed over as RunSlots says: never more runs *)
(* than places, in the order in which they came (runner.go dispatchDue,      *)
(* StartManualRun, executeRun's deferred release).                           *)
THEOREM SchedulerImplementsRunSlots == Spec => PlacesInOrder
  <1>1. IInv /\ [Next]_vars => [Places!Next]_(Places!places)
    BY Refines_Step
  <1>2. Init => Places!Init
    BY Refines_Init
  <1> QED
    BY Inductive, <1>1, <1>2, PTL DEF Spec, PlacesInOrder, Places!Spec

=============================================================================
