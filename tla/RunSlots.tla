------------------------------ MODULE RunSlots ------------------------------
(***************************************************************************)
(* What the processes promise about their places for runs (Service.runSem, *)
(* internal/agent/runner.go), whatever scheduler loop, rows, sweep and     *)
(* shutdown do around it: in each process a bounded number of runs are     *)
(* inside, the loop may hold one place to start a run in, and a manual run *)
(* that finds no place waits for its turn.  Nobody overtakes: a place that *)
(* is given up goes to the run that has waited longest, if there is one.   *)
(***************************************************************************)
EXTENDS Naturals, Sequences, FiniteSets

CONSTANTS Instances, Runs, Slots

VARIABLES
    inside,      \* inside[i]: runs that execute in process i
    loop,        \* loop[i]: places its scheduler loop holds, 0 or 1
    waiting      \* waiting[i]: runs that wait for a place of it, in order

places == <<inside, loop, waiting>>

Full(i) == Cardinality(inside[i]) + loop[i] >= Slots

Init ==
    /\ inside = [i \in Instances |-> {}]
    /\ loop = [i \in Instances |-> 0]
    /\ waiting = [i \in Instances |-> <<>>]

Enter(i, r) ==
    /\ ~Full(i) /\ waiting[i] = <<>> /\ r \notin inside[i]
    /\ inside' = [inside EXCEPT ![i] = @ \cup {r}]
    /\ UNCHANGED <<loop, waiting>>

Wait(i, r) ==
    /\ Full(i) /\ r \notin inside[i]
    /\ waiting' = [waiting EXCEPT ![i] = Append(@, r)]
    /\ UNCHANGED <<inside, loop>>

LoopTakes(i) ==
    /\ ~Full(i) /\ waiting[i] = <<>> /\ loop[i] = 0
    /\ loop' = [loop EXCEPT ![i] = 1]
    /\ UNCHANGED <<inside, waiting>>

LoopStarts(i, r) ==
    /\ loop[i] = 1 /\ r \notin inside[i]
    /\ loop' = [loop EXCEPT ![i] = 0]
    /\ inside' = [inside EXCEPT ![i] = @ \cup {r}]
    /\ UNCHANGED waiting

\* The runs of S stay; the place given up goes to who has waited longest.
GivenUp(i, S) ==
    /\ inside' = [inside EXCEPT ![i] = IF waiting[i] = <<>> THEN S ELSE S \cup {Head(waiting[i])}]
    /\ waiting' = [waiting EXCEPT ![i] = IF @ = <<>> THEN <<>> ELSE Tail(@)]

LoopLeaves(i) ==
    /\ loop[i] = 1
    /\ loop' = [loop EXCEPT ![i] = 0]
    /\ GivenUp(i, inside[i])

Leave(i, r) ==
    /\ r \in inside[i]
    /\ GivenUp(i, inside[i] \ {r})
    /\ UNCHANGED loop

\* The process ends.
End(i) ==
    /\ inside' = [inside EXCEPT ![i] = {}]
    /\ loop' = [loop EXCEPT ![i] = 0]
    /\ waiting' = [waiting EXCEPT ![i] = <<>>]

Next ==
    \E i \in Instances :
        \/ \E r \in Runs : Enter(i, r) \/ Wait(i, r) \/ LoopStarts(i, r) \/ Leave(i, r)
        \/ LoopTakes(i) \/ LoopLeaves(i) \/ End(i)

Spec == Init /\ [][Next]_places
=============================================================================
