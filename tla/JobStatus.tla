----------------------------- MODULE JobStatus -----------------------------
(* The statuses of a tracker job and the ways between them                 *)
(* (internal/job/types.go, internal/job/agent.go).                         *)
EXTENDS Naturals, Sequences

Statuses == {"not_applied", "applied", "interview", "offer", "rejected", "withdrawn"}

allowedTransitions ==
    [s \in Statuses |->
        CASE s = "not_applied" -> {"applied"}
          [] s = "applied"     -> {"interview", "rejected", "withdrawn"}
          [] s = "interview"   -> {"offer", "rejected", "withdrawn"}
          [] s = "offer"       -> {"withdrawn"}
          [] OTHER             -> {}]

IsWay(from, w) ==
    \A n \in 1..Len(w) : w[n] \in allowedTransitions[IF n = 1 THEN from ELSE w[n-1]]

(* The ways of three steps at most: no shortest one is longer. *)
Ways == [from \in Statuses |->
            {w \in UNION {[1..n -> Statuses] : n \in 1..3} : IsWay(from, w)}]

\* Mutant: the target in one step.
PathAtOnce(from, to) == IF \E w \in Ways[from] : w[Len(w)] = to THEN <<to>> ELSE <<>>

\* Mutant: a status that is out of reach is set all the same.
PathAnyway(from, to) ==
    LET ways == {w \in Ways[from] : w[Len(w)] = to}
    IN  IF ways = {} THEN <<to>>
        ELSE CHOOSE w \in ways : \A v \in ways : Len(w) <= Len(v)

(* The shortest chain; <<>> when the target is out of reach. *)
TransitionPath(from, to) ==
    LET ways == {w \in Ways[from] : w[Len(w)] = to}
    IN  IF ways = {} THEN <<>>
        ELSE CHOOSE w \in ways : \A v \in ways : Len(w) <= Len(v)
=============================================================================
