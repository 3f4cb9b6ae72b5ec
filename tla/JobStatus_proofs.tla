-------------------------- MODULE JobStatus_proofs --------------------------
(* What moves the status of a job, for any processes, mails, users, jobs and *)
(* limits.  The inbox: a process alerts about a message once at most, and    *)
(* the tracker follows what the mails say.  The tracker: a job that left     *)
(* "not applied" is dated, and the dashboard shows what the server has.      *)
EXTENDS InboxTriage, JobTracker, FiniteSetTheorems, SequenceTheorems, WellFoundedInduction, TLAPS

-----------------------------------------------------------------------------
(* The ways between the statuses.                                          *)

\* What can still become of a job.
Reach ==
    [s \in Statuses |->
        CASE s = "not_applied" -> {"applied", "interview", "offer", "rejected", "withdrawn"}
          [] s = "applied"     -> {"interview", "offer", "rejected", "withdrawn"}
          [] s = "interview"   -> {"offer", "rejected", "withdrawn"}
          [] s = "offer"       -> {"withdrawn"}
          [] OTHER             -> {}]

\* w leads from one status to another, one transition after the other.
LeadsTo(from, w, to) ==
    /\ w \in Seq(Statuses) /\ w # <<>>
    /\ w[1] \in allowedTransitions[from]
    /\ \A n \in 2..Len(w) : w[n] \in allowedTransitions[w[n-1]]
    /\ w[Len(w)] = to

LEMMA ReachGrows ==
    \A s \in Statuses :
        /\ s \notin Reach[s]
        /\ allowedTransitions[s] \subseteq Statuses
        /\ \A t \in allowedTransitions[s] : t \in Reach[s] /\ Reach[t] \subseteq Reach[s]
  <1>1. \A s \in Statuses : s \notin Reach[s]
    BY DEF Statuses, Reach
  <1>2. \A s \in Statuses : allowedTransitions[s] \subseteq Statuses
    BY DEF Statuses, allowedTransitions
  <1>3. ASSUME NEW s \in Statuses, NEW t \in allowedTransitions[s]
        PROVE  t \in Reach[s] /\ Reach[t] \subseteq Reach[s]
    BY <1>3 DEF Statuses, allowedTransitions, Reach
  <1> QED
    BY <1>1, <1>2, <1>3

LEMMA WaysAre ==
    ASSUME NEW s \in Statuses, NEW w
    PROVE  w \in Ways[s] <=>
              \E n \in 1..3 :
                 /\ w \in [1..n -> Statuses] /\ Len(w) = n
                 /\ w[1] \in allowedTransitions[s]
                 /\ \A k \in 2..n : w[k] \in allowedTransitions[w[k-1]]
  <1>1. ASSUME NEW n \in 1..3, w \in [1..n -> Statuses] PROVE w \in Seq(Statuses) /\ Len(w) = n
    <2>1. w \in Seq(Statuses)
      BY <1>1, SeqDef
    <2>2. Len(w) \in Nat /\ DOMAIN w = 1..Len(w)
      BY <2>1, LenProperties
    <2> QED
      BY <1>1, <2>1, <2>2
  <1>2. ASSUME NEW n \in 1..3, w \in [1..n -> Statuses]
        PROVE  IsWay(s, w) <=> /\ w[1] \in allowedTransitions[s]
                               /\ \A k \in 2..n : w[k] \in allowedTransitions[w[k-1]]
    BY <1>1, <1>2 DEF IsWay
  <1> QED
    BY <1>1, <1>2 DEF Ways

LEMMA WayReaches ==
    ASSUME NEW s \in Statuses, NEW w \in Ways[s]
    PROVE  LeadsTo(s, w, w[Len(w)]) /\ Len(w) \in 1..3 /\ w[Len(w)] \in Reach[s]
  <1>1. PICK n \in 1..3 :
           /\ w \in [1..n -> Statuses] /\ Len(w) = n
           /\ w[1] \in allowedTransitions[s]
           /\ \A k \in 2..n : w[k] \in allowedTransitions[w[k-1]]
    BY WaysAre
  <1>2. w \in Seq(Statuses)
    BY <1>1, SeqDef
  <1>3. w[1] \in Reach[s] /\ Reach[w[1]] \subseteq Reach[s] /\ w[1] \in Statuses
    BY <1>1, ReachGrows
  <1>4. n >= 2 => w[2] \in Reach[s] /\ Reach[w[2]] \subseteq Reach[s] /\ w[2] \in Statuses
    BY <1>1, <1>3, ReachGrows
  <1>5. n >= 3 => w[3] \in Reach[s]
    BY <1>1, <1>4, ReachGrows
  <1> QED
    BY <1>1, <1>2, <1>3, <1>4, <1>5 DEF LeadsTo

LEMMA ReachHasWay ==
    ASSUME NEW s \in Statuses, NEW o \in Reach[s]
    PROVE  \E w \in Ways[s] : w[Len(w)] = o
  <1>1. CASE o \in allowedTransitions[s]
    <2>1. <<o>> \in Ways[s]
      BY <1>1, ReachGrows, WaysAre
    <2> QED
      BY <2>1
  <1>2. ASSUME NEW m \in allowedTransitions[s], o \in allowedTransitions[m]
        PROVE  \E w \in Ways[s] : w[Len(w)] = o
    <2>1. m \in Statuses /\ o \in Statuses
      BY <1>2, ReachGrows
    <2>2. <<m, o>> \in Ways[s]
      BY <1>2, <2>1, WaysAre
    <2> QED
      BY <2>2
  <1>3. ASSUME NEW m \in allowedTransitions[s], NEW q \in allowedTransitions[m],
               o \in allowedTransitions[q]
        PROVE  \E w \in Ways[s] : w[Len(w)] = o
    <2>1. m \in Statuses /\ q \in Statuses /\ o \in Statuses
      BY <1>3, ReachGrows
    <2>2. <<m, q, o>> \in Ways[s]
      BY <1>3, <2>1, WaysAre
    <2> QED
      BY <2>2
  <1>4. \/ o \in allowedTransitions[s]
        \/ \E m \in allowedTransitions[s] : o \in allowedTransitions[m]
        \/ \E m \in allowedTransitions[s] : \E q \in allowedTransitions[m] :
              o \in allowedTransitions[q]
    BY DEF Statuses, allowedTransitions, Reach
  <1> QED
    BY <1>1, <1>2, <1>3, <1>4

\* The search of the code finds a way whenever there is one.
LEMMA PathLeads ==
    ASSUME NEW s \in Statuses, NEW o \in Statuses
    PROVE  /\ TransitionPath(s, o) = <<>> <=> o \notin Reach[s]
           /\ TransitionPath(s, o) # <<>> => LeadsTo(s, TransitionPath(s, o), o)
           /\ TransitionPath(s, o) \in Seq(Statuses)
  <1> DEFINE ways == {w \in Ways[s] : w[Len(w)] = o}
  <1>1. ways = {} <=> o \notin Reach[s]
    BY WayReaches, ReachHasWay
  <1>2. ASSUME ways # {} PROVE \E w \in ways : \A v \in ways : Len(w) <= Len(v)
    <2>1. \A w \in ways : Len(w) \in 1..3
      BY WayReaches
    <2> HIDE DEF ways
    <2> QED
      BY <1>2, <2>1
  <1>3. CASE ways = {}
    BY <1>1, <1>3 DEF TransitionPath
  <1>4. CASE ways # {}
    <2>1. TransitionPath(s, o) \in ways
      BY <1>2, <1>4 DEF TransitionPath
    <2>2. LeadsTo(s, TransitionPath(s, o), o)
      BY <2>1, WayReaches
    <2> QED
      BY <1>1, <1>4, <2>2 DEF LeadsTo
  <1> QED
    BY <1>3, <1>4

\* A job that has arrived is not behind, and none falls behind by moving on.
LEMMA BehindStays ==
    ASSUME NEW o \in Statuses
    PROVE  /\ ~Behind(o, o)
           /\ \A s \in Statuses : \A t \in allowedTransitions[s] : Behind(t, o) => Behind(s, o)
  BY PathLeads, ReachGrows DEF Behind

-----------------------------------------------------------------------------
(* The invariant.                                                          *)

Applying(i) == work[i].pc \in {"apply", "advance"}
Marked(i)   == work[i].pc \in {"apply", "advance", "alert"}

\* Where a loop stands tells what it holds; a way that is being walked leads
\* from the status that was seen to the outcome.
FitWork(w) ==
    /\ w.pc # "idle" => w.list # {}
    /\ w.pc \in {"apply", "advance"} => w.outcome \in Statuses
    /\ w.pc = "advance" => w.seen \in Statuses /\ LeadsTo(w.seen, w.path, w.outcome)

WorkInv == \A i \in Instances : FitWork(work[i])

\* A message that is still to be marked has no alert, and none is under way.
Unmarked(r) ==
    /\ \A i \in Instances : alerts[i][r] = 0
    /\ \A i \in Instances : Marked(i) => Row(i) # r

Open == {"absent", "pending"}

MarkInv == \A r \in Rows : row[r].status \in Open => Unmarked(r)

\* A process that still holds a message has not alerted about it.
CountInv ==
    \A i \in Instances, r \in Rows :
        alerts[i][r] \in {0, 1} /\ (r \in work[i].list => alerts[i][r] = 0)

\* A move that is under way was allowed.
MoveInv ==
    \A u \in Users : move[u] # None =>
        /\ move[u] \in [seen : Statuses, to : Statuses]
        /\ move[u].to \in allowedTransitions[move[u].seen]

\* What a mail says is excused, is being carried out, or the job is not behind it.
Excused(r) == EmailOf[r] \in Spoofed \/ r \in cut \/ UserOf[r] \in crossed

Carried(r) == \E i \in Instances :
                  Applying(i) /\ Row(i) = r /\ work[i].outcome = row[r].outcome

KeptInv ==
    \A r \in Rows :
        \/ row[r].outcome = None \/ Excused(r) \/ Carried(r)
        \/ ~Behind(job[UserOf[r]], row[r].outcome)

Inv == TypeOK /\ WorkInv /\ MarkInv /\ CountInv /\ MoveInv /\ KeptInv

-----------------------------------------------------------------------------
(* The steps of a loop.                                                    *)

LEMMA FirstOfList ==
    ASSUME NEW S, S \subseteq Rows, S # {}
    PROVE  Min(S) \in S /\ Min(S) \in Rows /\ \A q \in S : Min(S) <= q
  <1> DEFINE Less == {ss \in Nat \X Nat : ss[1] < ss[2]}
  <1>1. IsWellFoundedOn(Less, Nat)
    BY NatLessThanWellFounded, Zenon DEF OpToRel
  <1>2. S \subseteq Nat
    BY DEF Rows
  <1>3. \E x \in S : \A y \in S : <<y, x>> \notin Less
    <2> HIDE DEF Less
    <2> QED
      BY <1>1, <1>2, WFMin
  <1>4. PICK x \in S : \A y \in S : <<y, x>> \notin Less
    BY <1>3
  <1>5. \A y \in S : x <= y
    <2>1. \A n, m \in Nat : n < m => <<n, m>> \in Less
      OBVIOUS
    <2>2. ASSUME NEW y \in S PROVE ~(y < x)
      <3>1. y \in Nat /\ x \in Nat /\ <<y, x>> \notin Less
        BY <1>2, <1>4
      <3> HIDE DEF Less
      <3> QED
        BY <2>1, <3>1
    <2>3. \A y \in S : y \in Nat /\ x \in Nat
      BY <1>2, <1>4
    <2> QED
      BY <2>2, <2>3
  <1> QED
    BY <1>5 DEF Min

LEMMA RowIs ==
    ASSUME TypeOK, NEW i \in Instances, work[i].list # {}
    PROVE  /\ Row(i) \in work[i].list /\ Row(i) \in Rows
           /\ User(i) \in Users /\ EmailOf[Row(i)] \in Emails
  <1>1. work[i].list \subseteq Rows
    BY DEF TypeOK, WorkRec
  <1>2. Row(i) \in work[i].list /\ Row(i) \in Rows
    BY <1>1, FirstOfList DEF Row
  <1> QED
    BY <1>2, InboxAssumption DEF InboxAssumption, User

\* A loop holds the same message while its list stays.
LEMMA RowStays ==
    ASSUME NEW i \in Instances, work'[i].list = work[i].list
    PROVE  Row(i)' = Row(i) /\ User(i)' = User(i)
  BY DEF Row, User

LEMMA NoWorkIs == NoWork \in WorkRec /\ NoWork.pc = "idle" /\ NoWork.list = {}
  <1>1. <<>> \in Seq(Statuses)
    OBVIOUS
  <1> QED
    BY <1>1 DEF NoWork, WorkRec

\* w leaves the loop at no message, or at another one.
Left(i, w) ==
    /\ w \in WorkRec /\ FitWork(w)
    /\ w.pc \in {"idle", "next"}
    /\ w.list \subseteq work[i].list \ {Row(i)}

LEMMA RestIs ==
    ASSUME TypeOK, NEW i \in Instances
    PROVE  Left(i, Rest(i))
  <1> DEFINE list == work[i].list \ {Row(i)}
             w == [NoWork EXCEPT !.pc = "next", !.list = list]
  <1>1. list \subseteq Rows
    BY DEF TypeOK, WorkRec
  <1>2. w \in WorkRec /\ w.pc = "next" /\ w.list = list
    BY <1>1, NoWorkIs DEF WorkRec, NoWork
  <1> QED
    BY <1>2, NoWorkIs DEF Rest, Left, FitWork

LEMMA OnwardIs ==
    ASSUME TypeOK, NEW i \in Instances, NEW w \in WorkRec, w.list = work[i].list, w.list # {}
    PROVE  \/ Left(i, Onward(i, w))
           \/ /\ Onward(i, w) \in WorkRec /\ FitWork(Onward(i, w))
              /\ Onward(i, w).pc = "alert" /\ Onward(i, w).list = work[i].list
  <1> DEFINE a == [w EXCEPT !.pc = "alert", !.path = <<>>, !.seen = None]
  <1>1. <<>> \in Seq(Statuses)
    OBVIOUS
  <1>2. a \in WorkRec /\ a.pc = "alert" /\ a.list = w.list
    BY <1>1 DEF WorkRec
  <1>3. FitWork(a)
    BY <1>2 DEF FitWork
  <1> QED
    BY <1>2, <1>3, RestIs DEF Onward

\* One loop moves: the others hold what they held.
LEMMA LoopMoves ==
    ASSUME TypeOK, NEW i \in Instances, NEW w \in WorkRec, work' = [work EXCEPT ![i] = w]
    PROVE  /\ work' \in [Instances -> WorkRec]
           /\ work'[i] = w
           /\ \A j \in Instances : j # i => work'[j] = work[j] /\ Row(j)' = Row(j) /\ User(j)' = User(j)
           /\ w.list = work[i].list => Row(i)' = Row(i) /\ User(i)' = User(i)
  <1>1. work \in [Instances -> WorkRec]
    BY DEF TypeOK
  <1>2. work'[i] = w /\ \A j \in Instances : j # i => work'[j] = work[j]
    BY <1>1
  <1> QED
    BY <1>1, <1>2, RowStays

LEMMA WorkMoves ==
    ASSUME TypeOK, WorkInv, NEW i \in Instances, NEW w \in WorkRec, FitWork(w),
           work' = [work EXCEPT ![i] = w]
    PROVE  WorkInv'
  <1>1. \A j \in Instances : FitWork(work'[j])
    BY LoopMoves DEF WorkInv
  <1> QED
    BY <1>1 DEF WorkInv, FitWork, LeadsTo

LEMMA CountMoves ==
    ASSUME CountInv, UNCHANGED alerts,
           \A j \in Instances : work'[j].list \subseteq work[j].list
    PROVE  CountInv'
  BY DEF CountInv

\* A message stays marked, and none is taken up for an alert before it is.
LEMMA MarkMoves ==
    ASSUME TypeOK, MarkInv, NEW i \in Instances, NEW w \in WorkRec, work' = [work EXCEPT ![i] = w],
           \A r \in Rows : row'[r].status \in Open =>
                 /\ row[r].status \in Open
                 /\ \A j \in Instances : alerts'[j][r] = alerts[j][r],
           \/ w.pc \in {"idle", "next"}
           \/ /\ w.list = work[i].list /\ work[i].list # {}
              /\ Marked(i) \/ row'[Row(i)].status \notin Open
    PROVE  MarkInv'
  <1>1. ASSUME NEW r \in Rows, row'[r].status \in Open
        PROVE  \A j \in Instances : alerts'[j][r] = 0
    BY <1>1 DEF MarkInv, Unmarked
  <1>2. ASSUME NEW r \in Rows, row'[r].status \in Open, NEW j \in Instances,
               work'[j].pc \in {"apply", "advance", "alert"}
        PROVE  Row(j)' # r
    <2>1. row[r].status \in Open /\ \A k \in Instances : Marked(k) => Row(k) # r
      BY <1>2 DEF MarkInv, Unmarked
    <2>2. CASE j # i
      <3>1. work'[j] = work[j] /\ Row(j)' = Row(j)
        BY <2>2, LoopMoves
      <3> QED
        BY <1>2, <2>1, <3>1 DEF Marked
    <2>3. CASE j = i
      <3>1. work'[i] = w /\ w.list = work[i].list /\ Row(i)' = Row(i)
        BY <1>2, <2>3, LoopMoves
      <3>2. Marked(i) \/ row'[Row(i)].status \notin Open
        BY <1>2, <2>3, <3>1
      <3> QED
        BY <1>2, <2>1, <2>3, <3>1, <3>2
    <2> QED
      BY <2>2, <2>3
  <1> QED
    BY <1>1, <1>2 DEF MarkInv, Unmarked, Marked

\* What a step may do to excuses, jobs, outcomes and loops that carry them out.
ExcusesStay == cut \subseteq cut' /\ crossed \subseteq crossed'

JobsMoveOn ==
    \A u \in Users :
        \/ job'[u] = job[u] \/ job'[u] \notin Statuses \/ u \in crossed'
        \/ job[u] \in Statuses /\ job'[u] \in allowedTransitions[job[u]]

OutcomesAreCarried ==
    \A r \in Rows :
        \/ row'[r].outcome = row[r].outcome \/ row'[r].outcome = None
        \/ EmailOf[r] \in Spoofed \/ Carried(r)'

GoesOn(i) == Applying(i)' /\ Row(i)' = Row(i) /\ work'[i].outcome = work[i].outcome

LoopsFinish ==
    \A i \in Instances : Applying(i) =>
        \/ GoesOn(i) \/ Row(i) \in cut' \/ User(i) \in crossed'
        \/ ~Behind(job'[User(i)], work[i].outcome)

LEMMA KeptMoves ==
    ASSUME TypeOK, KeptInv, TypeOK', ExcusesStay, JobsMoveOn, OutcomesAreCarried, LoopsFinish
    PROVE  KeptInv'
  <1> SUFFICES ASSUME NEW r \in Rows,
                      row'[r].outcome # None, ~Excused(r)', ~Carried(r)'
               PROVE  ~Behind(job'[UserOf[r]], row'[r].outcome)
    BY DEF KeptInv, Behind
  <1>1. /\ row'[r].outcome = row[r].outcome /\ row[r].outcome \in Statuses
        /\ EmailOf[r] \notin Spoofed /\ r \notin cut' /\ UserOf[r] \notin crossed' /\ ~Excused(r)
        /\ UserOf[r] \in Users
    <2>1. row'[r].outcome \in Statuses
      BY DEF TypeOK, RowRec
    <2>2. EmailOf[r] \notin Spoofed /\ r \notin cut' /\ UserOf[r] \notin crossed'
      BY DEF Excused
    <2>3. row'[r].outcome = row[r].outcome
      BY <2>2 DEF OutcomesAreCarried
    <2> QED
      BY <2>1, <2>2, <2>3, InboxAssumption DEF Excused, InboxAssumption, ExcusesStay
  <1>2. CASE Carried(r)
    <2>1. PICK i \in Instances : Applying(i) /\ Row(i) = r /\ work[i].outcome = row[r].outcome
      BY <1>2 DEF Carried
    <2>2. User(i) = UserOf[r]
      BY <2>1 DEF User
    <2>3. ~GoesOn(i)
      BY <1>1, <2>1 DEF Carried, GoesOn
    <2> QED
      BY <1>1, <2>1, <2>2, <2>3 DEF LoopsFinish
  <1>3. CASE ~Behind(job[UserOf[r]], row[r].outcome)
    BY <1>1, <1>3, BehindStays DEF Behind, JobsMoveOn
  <1> QED
    BY <1>1, <1>2, <1>3 DEF KeptInv

-----------------------------------------------------------------------------
(* The actions.                                                            *)

\* Neither loops nor jobs are touched, and no message is alerted about.
LEMMA Untouched ==
    ASSUME Inv, TypeOK', UNCHANGED <<triage, job, crossed, alerts, cut>>,
           \A r \in Rows :
               /\ row'[r].status \in Open => row[r].status \in Open
               /\ row'[r].outcome \in {row[r].outcome, None}
    PROVE  WorkInv' /\ MarkInv' /\ CountInv' /\ KeptInv'
  <1>1. /\ work' = work /\ job' = job /\ crossed' = crossed /\ alerts' = alerts /\ cut' = cut
        /\ \A i \in Instances : Row(i)' = Row(i) /\ User(i)' = User(i)
    BY RowStays DEF triage
  <1>2. WorkInv'
    BY <1>1 DEF Inv, WorkInv, FitWork, LeadsTo
  <1>3. MarkInv'
    BY <1>1 DEF Inv, MarkInv, Unmarked, Marked
  <1>4. CountInv'
    BY <1>1, CountMoves DEF Inv
  <1>5. KeptInv'
    <2>1. LoopsFinish
      BY <1>1 DEF LoopsFinish, GoesOn, Applying
    <2>2. OutcomesAreCarried
      BY DEF OutcomesAreCarried
    <2>3. ExcusesStay /\ JobsMoveOn
      BY <1>1 DEF ExcusesStay, JobsMoveOn
    <2> QED
      BY <2>1, <2>2, <2>3, KeptMoves DEF Inv
  <1> QED
    BY <1>2, <1>3, <1>4, <1>5

LEMMA NoRowIs == NoRow \in RowRec /\ NoRow.status = "absent" /\ NoRow.outcome = None
  BY DEF NoRow, RowRec

LEMMA InsertStep ==
    ASSUME Inv, NEW e \in Emails, NEW d \in Deliveries, InsertMessage(e, d)
    PROVE  Inv'
  <1> DEFINE todo == IF hook[e][d] = {} THEN For(e) ELSE hook[e][d]
  <1>1. PICK r \in todo :
           /\ row' = [row EXCEPT ![r] = IF @ = NoRow THEN [NoRow EXCEPT !.status = "pending"] ELSE @]
           /\ hook' = [hook EXCEPT ![e][d] = LeftAfter(todo, r)]
           /\ \/ /\ event' = [event EXCEPT ![e] = IF LeftAfter(todo, r) = {} THEN "accepted" ELSE @]
                 /\ UNCHANGED incidents
              \/ UNCHANGED event /\ Incident
    BY DEF InsertMessage
  <1>2. UNCHANGED <<triage, jobs, alerts, cut>>
    BY DEF InsertMessage
  <1>3. todo \subseteq Rows
    BY DEF Inv, TypeOK, For
  <1>4. hook' \in [Emails -> [Deliveries -> SUBSET Rows]]
    BY <1>1, <1>3 DEF Inv, TypeOK, LeftAfter
  <1>5. /\ [NoRow EXCEPT !.status = "pending"] \in RowRec
        /\ [NoRow EXCEPT !.status = "pending"].outcome = None
    BY DEF NoRow, RowRec
  <1>6. row' \in [Rows -> RowRec]
    BY <1>1, <1>5 DEF Inv, TypeOK
  <1>7. event' \in [Emails -> {"due", "accepted"}] /\ incidents' \in 0..MaxIncidents
    <2>1. /\ event \in [Emails -> {"due", "accepted"}] /\ incidents \in 0..MaxIncidents
          /\ MaxIncidents \in Nat
      BY InboxAssumption DEF Inv, TypeOK, InboxAssumption
    <2> QED
      BY <1>1, <2>1 DEF Incident
  <1>8. TypeOK'
    BY <1>2, <1>4, <1>6, <1>7 DEF Inv, TypeOK, triage, jobs
  <1>9. ASSUME NEW q \in Rows
        PROVE  /\ row'[q].status \in Open => row[q].status \in Open
               /\ row'[q].outcome \in {row[q].outcome, None}
    BY <1>1, <1>3, <1>5, NoRowIs DEF Inv, TypeOK, Open
  <1>10. MoveInv'
    BY <1>2 DEF Inv, MoveInv, jobs
  <1> QED
    BY <1>2, <1>8, <1>9, <1>10, Untouched DEF Inv, jobs

LEMMA WebhookFailsStep ==
    ASSUME Inv, NEW e \in Emails, NEW d \in Deliveries, WebhookFails(e, d)
    PROVE  Inv'
  <1>1. TypeOK'
    BY InboxAssumption DEF Inv, TypeOK, WebhookFails, Incident, InboxAssumption, triage, jobs
  <1>2. MoveInv'
    BY DEF Inv, MoveInv, WebhookFails, jobs
  <1> QED
    BY <1>1, <1>2, Untouched DEF Inv, WebhookFails, jobs

LEMMA PendingTriageStep ==
    ASSUME Inv, NEW i \in Instances, PendingTriage(i)
    PROVE  Inv'
  <1> DEFINE list == Oldest(Pending, BatchSize)
             w == [NoWork EXCEPT !.pc = "next", !.list = list]
  <1>1. /\ work' = [work EXCEPT ![i] = w] /\ work[i].pc = "idle" /\ Pending # {}
        /\ UNCHANGED <<mail, up, jobs, alerts, cut, incidents>>
    BY DEF PendingTriage, At
  <1>2. list \subseteq Pending /\ Pending \subseteq Rows
    BY DEF Oldest, Pending
  <1>3. list # {}
    <2>1. PICK m \in Pending : \A q \in Pending : m <= q
      BY <1>1, <1>2, FirstOfList
    <2>2. \A q \in Pending : ~(q < m)
      BY <1>2, <2>1 DEF Rows
    <2>3. {q \in Pending : q < m} = {}
      BY <2>2
    <2>4. Cardinality({q \in Pending : q < m}) = 0
      BY <2>3, FS_EmptySet
    <2>5. Cardinality({q \in Pending : q < m}) < BatchSize
      BY <2>4, InboxAssumption DEF InboxAssumption
    <2> QED
      BY <2>1, <2>5 DEF Oldest
  <1>4. w \in WorkRec /\ w.pc = "next" /\ w.list = list
    BY <1>2, NoWorkIs DEF NoWork, WorkRec
  <1>5. FitWork(w)
    BY <1>3, <1>4 DEF FitWork
  <1>6. TypeOK'
    BY <1>1, <1>4 DEF Inv, TypeOK, mail, jobs
  <1>7. WorkInv'
    BY <1>1, <1>4, <1>5, WorkMoves DEF Inv
  <1>8. MarkInv'
    BY <1>1, <1>4, MarkMoves DEF Inv, mail
  <1>9. CountInv'
    <2>1. ASSUME NEW j \in Instances, NEW r \in Rows, r \in work'[j].list
          PROVE  alerts[j][r] = 0
      <3>1. CASE j = i
        <4>1. r \in list
          BY <1>1, <1>4, <2>1, <3>1, LoopMoves DEF Inv
        <4>2. row[r].status \in Open
          BY <1>2, <4>1 DEF Pending, Open
        <4> QED
          BY <4>2 DEF Inv, MarkInv, Unmarked
      <3>2. CASE j # i
        BY <1>1, <1>4, <2>1, <3>2, LoopMoves DEF Inv, CountInv
      <3> QED
        BY <3>1, <3>2
    <2> QED
      BY <1>1, <2>1 DEF Inv, CountInv
  <1>10. MoveInv'
    BY <1>1 DEF Inv, MoveInv, jobs
  <1>11. KeptInv'
    <2>1. LoopsFinish
      BY <1>1, <1>4, LoopMoves DEF Inv, LoopsFinish, GoesOn, Applying
    <2>2. ExcusesStay /\ JobsMoveOn /\ OutcomesAreCarried
      BY <1>1 DEF ExcusesStay, JobsMoveOn, OutcomesAreCarried, mail, jobs
    <2> QED
      BY <1>6, <2>1, <2>2, KeptMoves DEF Inv
  <1> QED
    BY <1>6, <1>7, <1>8, <1>9, <1>10, <1>11 DEF Inv

\* A loop moves, and alerts about nothing.
LEMMA LoopStep ==
    ASSUME Inv, TypeOK', NEW i \in Instances, NEW w \in WorkRec, FitWork(w),
           work' = [work EXCEPT ![i] = w], w.list \subseteq work[i].list, UNCHANGED <<alerts, move>>,
           \A r \in Rows : row'[r].status \in Open => row[r].status \in Open,
           \/ w.pc \in {"idle", "next"}
           \/ /\ w.list = work[i].list /\ work[i].list # {}
              /\ Marked(i) \/ row'[Row(i)].status \notin Open,
           ExcusesStay, JobsMoveOn, OutcomesAreCarried,
           Applying(i) => \/ w.pc = "advance" /\ w.list = work[i].list /\ w.outcome = work[i].outcome
                          \/ Row(i) \in cut' \/ User(i) \in crossed'
                          \/ ~Behind(job'[User(i)], work[i].outcome)
    PROVE  Inv'
  <1>1. WorkInv'
    BY WorkMoves DEF Inv
  <1>2. MarkInv'
    BY MarkMoves DEF Inv
  <1>3. CountInv'
    <2>1. \A j \in Instances : work'[j].list \subseteq work[j].list
      BY LoopMoves DEF Inv
    <2> QED
      BY <2>1, CountMoves DEF Inv
  <1>4. MoveInv'
    BY DEF Inv, MoveInv
  <1>5. LoopsFinish
    <2>1. ASSUME NEW j \in Instances, Applying(j), j # i PROVE GoesOn(j)
      BY <2>1, LoopMoves DEF Inv, GoesOn, Applying
    <2>2. w.pc = "advance" /\ w.list = work[i].list /\ w.outcome = work[i].outcome => GoesOn(i)
      BY LoopMoves DEF Inv, GoesOn, Applying
    <2> QED
      BY <2>1, <2>2 DEF LoopsFinish
  <1>6. KeptInv'
    BY <1>5, KeptMoves DEF Inv
  <1> QED
    BY <1>1, <1>2, <1>3, <1>4, <1>6 DEF Inv

\* Where a loop is.
LEMMA Busy ==
    ASSUME Inv, NEW i \in Instances, work[i].pc # "idle"
    PROVE  /\ work[i] \in WorkRec /\ work[i].list # {}
           /\ Row(i) \in work[i].list /\ Row(i) \in Rows
           /\ User(i) \in Users /\ EmailOf[Row(i)] \in Emails
  BY RowIs DEF Inv, TypeOK, WorkInv, FitWork

\* The message of a loop is written: its status is none of Open, or as it was.
LEMMA RowWritten ==
    ASSUME Inv, NEW i \in Instances, work[i].pc # "idle", NEW m \in RowRec,
           row' = [row EXCEPT ![Row(i)] = m],
           m.status \in Open => row[Row(i)].status \in Open
    PROVE  /\ row' \in [Rows -> RowRec]
           /\ row'[Row(i)] = m
           /\ \A r \in Rows : r # Row(i) => row'[r] = row[r]
           /\ \A r \in Rows : row'[r].status \in Open => row[r].status \in Open
  BY Busy DEF Inv, TypeOK

LEMMA SkipStep ==
    ASSUME Inv, NEW i \in Instances, Skip(i)
    PROVE  Inv'
  <1> DEFINE m == [status |-> "skipped", attempts |-> row[Row(i)].attempts + 1, outcome |-> None]
  <1>1. /\ work[i].pc = "next" /\ work' = [work EXCEPT ![i] = Rest(i)]
        /\ row' = [row EXCEPT ![Row(i)] = m]
        /\ UNCHANGED <<event, hook, up, jobs, alerts, cut, incidents>>
    BY DEF Skip, At, NextMessage
  <1>2. m \in RowRec /\ m.status \notin Open /\ m.outcome = None
    BY <1>1, Busy DEF Inv, TypeOK, RowRec, Open
  <1>3. Left(i, Rest(i))
    BY RestIs DEF Inv
  <1> HIDE DEF m
  <1>4. TypeOK'
    BY <1>1, <1>2, <1>3, RowWritten DEF Inv, TypeOK, jobs, Left
  <1>5. OutcomesAreCarried
    BY <1>1, <1>2, RowWritten DEF OutcomesAreCarried
  <1>6. ExcusesStay /\ JobsMoveOn /\ UNCHANGED <<alerts, move>> /\ ~Applying(i)
    BY <1>1 DEF ExcusesStay, JobsMoveOn, Applying, jobs
  <1>7. \A r \in Rows : row'[r].status \in Open => row[r].status \in Open
    BY <1>1, <1>2, RowWritten
  <1> QED
    BY <1>1, <1>3, <1>4, <1>5, <1>6, <1>7, LoopStep DEF Left

LEMMA BumpedIs ==
    ASSUME NEW m \in RowRec
    PROVE  /\ Bumped(m) \in RowRec /\ Bumped(m).outcome = m.outcome
           /\ Bumped(m).status \in Open => m.status \in Open
  <1> DEFINE b(n, s) == [m EXCEPT !.attempts = n, !.status = s]
  <1>1. ASSUME NEW n \in Nat, NEW s \in {"absent", "pending", "done", "failed", "skipped"}
        PROVE  b(n, s) \in RowRec /\ b(n, s).outcome = m.outcome /\ b(n, s).status = s
    BY DEF RowRec
  <1>2. m.attempts + 1 \in Nat /\ m.status \in {"absent", "pending", "done", "failed", "skipped"}
    BY DEF RowRec
  <1>3. CASE m.attempts + 1 >= MaxTriageAttempts
    <2>1. Bumped(m) = b(m.attempts + 1, "failed")
      BY <1>3 DEF Bumped
    <2> HIDE DEF b
    <2> QED
      BY <1>1, <1>2, <2>1 DEF Open
  <1>4. CASE ~(m.attempts + 1 >= MaxTriageAttempts)
    <2>1. Bumped(m) = b(m.attempts + 1, m.status)
      BY <1>4 DEF Bumped
    <2> HIDE DEF b
    <2> QED
      BY <1>1, <1>2, <2>1
  <1> QED
    BY <1>3, <1>4

LEMMA BumpStep ==
    ASSUME Inv, NEW i \in Instances, BumpTriageAttempt(i)
    PROVE  Inv'
  <1> DEFINE m == Bumped(row[Row(i)])
  <1>1. /\ work[i].pc = "next" /\ work' = [work EXCEPT ![i] = Rest(i)]
        /\ row' = [row EXCEPT ![Row(i)] = m]
        /\ UNCHANGED <<event, hook, up, jobs, alerts, cut, incidents>>
    BY DEF BumpTriageAttempt, At, NextMessage
  <1>2. row[Row(i)] \in RowRec
    BY <1>1, Busy DEF Inv, TypeOK
  <1>3. /\ m \in RowRec /\ m.outcome = row[Row(i)].outcome
        /\ m.status \in Open => row[Row(i)].status \in Open
    BY <1>2, BumpedIs
  <1>4. Left(i, Rest(i))
    BY RestIs DEF Inv
  <1> HIDE DEF m
  <1>5. TypeOK'
    BY <1>1, <1>3, <1>4, RowWritten DEF Inv, TypeOK, jobs, Left
  <1>6. OutcomesAreCarried
    BY <1>1, <1>3, RowWritten DEF OutcomesAreCarried
  <1>7. ExcusesStay /\ JobsMoveOn /\ UNCHANGED <<alerts, move>> /\ ~Applying(i)
    BY <1>1 DEF ExcusesStay, JobsMoveOn, Applying, jobs
  <1>8. \A r \in Rows : row'[r].status \in Open => row[r].status \in Open
    BY <1>1, <1>3, RowWritten
  <1> QED
    BY <1>1, <1>4, <1>5, <1>6, <1>7, <1>8, LoopStep DEF Left

LEMMA SaveTriageFailsStep ==
    ASSUME Inv, NEW i \in Instances, SaveTriageFails(i)
    PROVE  Inv'
  <1>1. /\ work[i].pc = "next" /\ work' = [work EXCEPT ![i] = Rest(i)] /\ Incident
        /\ UNCHANGED <<mail, up, jobs, alerts, cut>>
    BY DEF SaveTriageFails, At, NextMessage
  <1>2. Left(i, Rest(i))
    BY RestIs DEF Inv
  <1>3. TypeOK'
    BY <1>1, <1>2, InboxAssumption DEF Inv, TypeOK, mail, jobs, Left, Incident, InboxAssumption
  <1>4. /\ ExcusesStay /\ JobsMoveOn /\ OutcomesAreCarried /\ ~Applying(i)
        /\ UNCHANGED <<alerts, move>> /\ row' = row
    BY <1>1 DEF ExcusesStay, JobsMoveOn, OutcomesAreCarried, Applying, jobs, mail
  <1> QED
    BY <1>1, <1>2, <1>3, <1>4, LoopStep DEF Left

LEMMA SetMessageTriageStep ==
    ASSUME Inv, NEW i \in Instances, NEW k \in Kinds, NEW matched \in BOOLEAN, NEW action \in BOOLEAN,
           SetMessageTriage(i, k, matched, action)
    PROVE  Inv'
  <1> DEFINE outcome == IF matched THEN Target(k) ELSE None
             important == Important(k, action)
             said == [work[i] EXCEPT !.outcome = outcome, !.important = important]
             applies == [said EXCEPT !.pc = "apply"]
             m == [status |-> "done", attempts |-> row[Row(i)].attempts + 1, outcome |-> outcome]
             w == IF EmailOf[Row(i)] \in Spoofed THEN Rest(i)
                  ELSE IF outcome = None THEN Onward(i, said) ELSE applies
  <1>1. /\ work[i].pc = "next" /\ work' = [work EXCEPT ![i] = w]
        /\ row' = [row EXCEPT ![Row(i)] = m]
        /\ UNCHANGED <<event, hook, up, jobs, alerts, cut, incidents>>
    BY DEF SetMessageTriage, At
  <1>2. outcome \in Statuses \cup {None} /\ important \in BOOLEAN
    BY DEF Target, Statuses, Important
  <1>3. work[i] \in WorkRec /\ work[i].list # {} /\ Row(i) \in Rows
    BY <1>1, Busy
  <1> HIDE DEF outcome, important
  <1>4. m \in RowRec /\ m.status \notin Open /\ m.outcome = outcome
    BY <1>2, <1>3 DEF Inv, TypeOK, RowRec, Open
  <1>5. /\ said \in WorkRec /\ said.list = work[i].list
        /\ applies \in WorkRec /\ applies.list = work[i].list
        /\ applies.pc = "apply" /\ applies.outcome = outcome
    BY <1>2, <1>3 DEF WorkRec
  <1>6. Left(i, Rest(i))
    BY RestIs DEF Inv
  <1> HIDE DEF m, said, applies
  <1>7. \/ Left(i, Onward(i, said))
        \/ /\ Onward(i, said) \in WorkRec /\ FitWork(Onward(i, said))
           /\ Onward(i, said).pc = "alert" /\ Onward(i, said).list = work[i].list
    BY <1>3, <1>5, OnwardIs DEF Inv
  <1>8. outcome # None => FitWork(applies)
    BY <1>2, <1>3, <1>5 DEF FitWork
  <1>9. w \in WorkRec /\ FitWork(w) /\ w.list \subseteq work[i].list
    BY <1>5, <1>6, <1>7, <1>8 DEF Left
  <1>10. w.pc \in {"idle", "next"} \/ w.list = work[i].list
    BY <1>5, <1>6, <1>7 DEF Left
  <1>11. outcome = None \/ EmailOf[Row(i)] \in Spoofed \/ w = applies
    OBVIOUS
  <1> HIDE DEF w
  <1>12. TypeOK'
    BY <1>1, <1>4, <1>9, RowWritten DEF Inv, TypeOK, jobs
  <1>13. row'[Row(i)].status \notin Open /\ row'[Row(i)].outcome = outcome
         /\ \A r \in Rows : row'[r].status \in Open => row[r].status \in Open
    BY <1>1, <1>4, RowWritten
  <1>14. OutcomesAreCarried
    <2>1. ASSUME NEW r \in Rows, r # Row(i) PROVE row'[r].outcome = row[r].outcome
      BY <1>1, <1>4, <2>1, RowWritten
    <2>2. ASSUME NEW r \in Rows, r = Row(i), w = applies PROVE Carried(r)'
      <3>1. work'[i] = applies /\ Row(i)' = Row(i)
        BY <1>1, <1>5, <1>9, <2>2, LoopMoves DEF Inv
      <3> QED
        BY <1>5, <1>13, <2>2, <3>1 DEF Carried, Applying
    <2> QED
      BY <1>11, <1>13, <2>1, <2>2 DEF OutcomesAreCarried
  <1>15. ExcusesStay /\ JobsMoveOn /\ UNCHANGED <<alerts, move>> /\ ~Applying(i)
    BY <1>1 DEF ExcusesStay, JobsMoveOn, Applying, jobs
  <1> QED
    BY <1>1, <1>3, <1>9, <1>10, <1>12, <1>13, <1>14, <1>15, LoopStep

LEMMA BeginAdvanceStep ==
    ASSUME Inv, NEW i \in Instances, BeginAdvance(i)
    PROVE  Inv'
  <1> DEFINE s == job[User(i)]
             o == work[i].outcome
             way == IF s \in Statuses THEN TransitionPath(s, o) ELSE <<>>
             walks == [work[i] EXCEPT !.pc = "advance", !.path = way, !.seen = s]
             w == IF way = <<>> THEN Onward(i, work[i]) ELSE walks
  <1>1. /\ work[i].pc = "apply" /\ work' = [work EXCEPT ![i] = w]
        /\ UNCHANGED <<mail, up, jobs, alerts, cut, incidents>>
    BY DEF BeginAdvance, At
  <1>2. work[i] \in WorkRec /\ work[i].list # {} /\ Row(i) \in Rows
    BY <1>1, Busy
  <1>3. o \in Statuses
    BY <1>1 DEF Inv, WorkInv, FitWork
  <1>4. way # <<>> => way \in Seq(Statuses) /\ s \in Statuses /\ LeadsTo(s, way, o)
    BY <1>3, PathLeads
  <1>5. way = <<>> => ~Behind(s, o)
    BY <1>3 DEF Behind
  <1> HIDE DEF s, o, way
  <1>6. way # <<>> => /\ walks \in WorkRec /\ walks.list = work[i].list /\ walks.pc = "advance"
                      /\ walks.outcome = o /\ walks.path = way /\ walks.seen = s
    BY <1>2, <1>4 DEF WorkRec, o
  <1> HIDE DEF walks
  <1>7. way # <<>> => FitWork(walks)
    BY <1>2, <1>3, <1>4, <1>6 DEF FitWork
  <1>8. \/ Left(i, Onward(i, work[i]))
        \/ /\ Onward(i, work[i]) \in WorkRec /\ FitWork(Onward(i, work[i]))
           /\ Onward(i, work[i]).pc = "alert" /\ Onward(i, work[i]).list = work[i].list
    BY <1>2, OnwardIs DEF Inv
  <1>9. w \in WorkRec /\ FitWork(w) /\ w.list \subseteq work[i].list
    BY <1>6, <1>7, <1>8 DEF Left
  <1>10. w.pc \in {"idle", "next"} \/ w.list = work[i].list
    BY <1>6, <1>8 DEF Left
  <1>11. \/ w.pc = "advance" /\ w.list = work[i].list /\ w.outcome = work[i].outcome
         \/ ~Behind(job[User(i)], work[i].outcome)
    BY <1>5, <1>6 DEF s, o
  <1> HIDE DEF w
  <1>12. TypeOK'
    BY <1>1, <1>9 DEF Inv, TypeOK, jobs, mail
  <1>13. /\ ExcusesStay /\ JobsMoveOn /\ OutcomesAreCarried /\ Marked(i)
         /\ UNCHANGED <<alerts, move, row, job>>
    BY <1>1 DEF ExcusesStay, JobsMoveOn, OutcomesAreCarried, Marked, jobs, mail
  <1>14. \A r \in Rows : row'[r].status \in Open => row[r].status \in Open
    BY <1>13
  <1>15. ~Behind(job[User(i)], work[i].outcome) => ~Behind(job'[User(i)], work[i].outcome)
    BY <1>13
  <1> QED
    BY <1>1, <1>2, <1>9, <1>10, <1>11, <1>12, <1>13, <1>14, <1>15, LoopStep

\* The first step of a way was allowed, and the rest is a way from there.
LEMMA WaySteps ==
    ASSUME NEW s \in Statuses, NEW w, NEW o, LeadsTo(s, w, o)
    PROVE  /\ Head(w) \in allowedTransitions[s] /\ Head(w) \in Statuses
           /\ Len(w) = 1 => Head(w) = o
           /\ Len(w) # 1 => Tail(w) \in Seq(Statuses) /\ LeadsTo(Head(w), Tail(w), o)
  <1>1. /\ w \in Seq(Statuses) /\ w # <<>> /\ w[1] \in allowedTransitions[s] /\ w[Len(w)] = o
        /\ \A n \in 2..Len(w) : w[n] \in allowedTransitions[w[n-1]]
    BY DEF LeadsTo
  <1>2. Head(w) = w[1] /\ Len(w) \in Nat \ {0}
    BY <1>1, EmptySeq
  <1>3. Head(w) \in allowedTransitions[s] /\ Head(w) \in Statuses
    BY <1>1, <1>2, ReachGrows
  <1>4. ASSUME Len(w) # 1
        PROVE  LeadsTo(Head(w), Tail(w), o)
    <2> DEFINE t == Tail(w)
    <2>1. /\ t \in Seq(Statuses) /\ Len(t) = Len(w) - 1 /\ Len(t) \in Nat \ {0}
          /\ \A n \in 1..Len(t) : t[n] = w[n+1]
      BY <1>1, <1>2, <1>4, HeadTailProperties
    <2>2. t # <<>> /\ t[1] \in allowedTransitions[Head(w)] /\ t[Len(t)] = o
      <3>1. t # <<>>
        <4> HIDE DEF t
        <4> QED
          BY <2>1, EmptySeq
      <3>2. t[1] = w[2] /\ 2 \in 2..Len(w) /\ 2 - 1 = 1
        BY <1>2, <2>1
      <3>3. t[Len(t)] = w[Len(w)]
        BY <1>2, <2>1
      <3> QED
        BY <1>1, <1>2, <3>1, <3>2, <3>3
    <2>3. ASSUME NEW n \in 2..Len(t) PROVE t[n] \in allowedTransitions[t[n-1]]
      <3>1. t[n] = w[n+1] /\ t[n-1] = w[n] /\ n + 1 \in 2..Len(w) /\ (n + 1) - 1 = n
        BY <1>2, <2>1
      <3> QED
        BY <1>1, <3>1
    <2> HIDE DEF t
    <2> QED
      BY <2>1, <2>2, <2>3 DEF LeadsTo
  <1> QED
    BY <1>1, <1>2, <1>3, <1>4 DEF LeadsTo

\* A job that is written by id moves on, or is crossed.
LEMMA WrittenIs ==
    ASSUME Inv, NEW u \in Users, NEW s \in Statuses, NEW t \in allowedTransitions[s], t \in Statuses,
           Written(u, t, s)
    PROVE  /\ job' \in [Users -> Statuses \cup {None, "deleted"}] /\ crossed' \subseteq Users
           /\ crossed \subseteq crossed' /\ JobsMoveOn
           /\ job'[u] = t \/ job'[u] \notin Statuses
  <1>1. CASE job[u] \in Statuses
    <2>1. job' = [job EXCEPT ![u] = t] /\ crossed' = IF job[u] = s THEN crossed ELSE crossed \cup {u}
      BY <1>1 DEF Written
    <2>2. job \in [Users -> Statuses \cup {None, "deleted"}] /\ crossed \subseteq Users
      BY DEF Inv, TypeOK
    <2> QED
      BY <1>1, <2>1, <2>2 DEF JobsMoveOn
  <1>2. CASE job[u] \notin Statuses
    BY <1>2 DEF Written, Inv, TypeOK, JobsMoveOn
  <1> QED
    BY <1>1, <1>2

LEMMA AdvanceStepStep ==
    ASSUME Inv, NEW i \in Instances, AdvanceStep(i)
    PROVE  Inv'
  <1> DEFINE o == work[i].outcome
             way == work[i].path
             ends == Len(way) = 1 \/ job[User(i)] \notin Statuses
             walks == [work[i] EXCEPT !.path = Tail(way), !.seen = Head(way)]
             w == IF ends THEN Onward(i, work[i]) ELSE walks
  <1>1. /\ work[i].pc = "advance" /\ work' = [work EXCEPT ![i] = w]
        /\ Written(User(i), Head(way), work[i].seen)
        /\ UNCHANGED <<mail, up, move, alerts, cut, incidents>>
    BY DEF AdvanceStep, At
  <1>2. work[i] \in WorkRec /\ work[i].list # {} /\ Row(i) \in Rows /\ User(i) \in Users
    BY <1>1, Busy
  <1>3. o \in Statuses /\ work[i].seen \in Statuses /\ LeadsTo(work[i].seen, way, o)
    BY <1>1 DEF Inv, WorkInv, FitWork
  <1>4. /\ Head(way) \in allowedTransitions[work[i].seen] /\ Head(way) \in Statuses
        /\ Len(way) = 1 => Head(way) = o
        /\ Len(way) # 1 => Tail(way) \in Seq(Statuses) /\ LeadsTo(Head(way), Tail(way), o)
    BY <1>3, WaySteps
  <1>5. /\ job' \in [Users -> Statuses \cup {None, "deleted"}] /\ crossed' \subseteq Users
        /\ crossed \subseteq crossed' /\ JobsMoveOn
        /\ job'[User(i)] = Head(way) \/ job'[User(i)] \notin Statuses
    BY <1>1, <1>2, <1>3, <1>4, WrittenIs
  <1>6. job[User(i)] \notin Statuses => job'[User(i)] = job[User(i)]
    BY <1>1 DEF Written
  <1>7. ends => ~Behind(job'[User(i)], o)
    BY <1>3, <1>4, <1>5, <1>6, BehindStays DEF Behind
  <1>8. Len(way) # 1 => /\ walks \in WorkRec /\ walks.list = work[i].list /\ walks.pc = "advance"
                        /\ walks.outcome = o /\ walks.path = Tail(way) /\ walks.seen = Head(way)
    BY <1>1, <1>2, <1>4 DEF WorkRec
  <1> HIDE DEF walks
  <1>9. Len(way) # 1 => FitWork(walks)
    BY <1>2, <1>3, <1>4, <1>8 DEF FitWork
  <1>10. \/ Left(i, Onward(i, work[i]))
         \/ /\ Onward(i, work[i]) \in WorkRec /\ FitWork(Onward(i, work[i]))
            /\ Onward(i, work[i]).pc = "alert" /\ Onward(i, work[i]).list = work[i].list
    BY <1>2, OnwardIs DEF Inv
  <1>11. w \in WorkRec /\ FitWork(w) /\ w.list \subseteq work[i].list
    BY <1>8, <1>9, <1>10 DEF Left
  <1>12. w.pc \in {"idle", "next"} \/ w.list = work[i].list
    BY <1>8, <1>10 DEF Left
  <1>13. \/ w.pc = "advance" /\ w.list = work[i].list /\ w.outcome = work[i].outcome
         \/ ~Behind(job'[User(i)], work[i].outcome)
    BY <1>7, <1>8
  <1> HIDE DEF w
  <1>14. TypeOK'
    BY <1>1, <1>5, <1>11 DEF Inv, TypeOK, mail
  <1>15. ExcusesStay /\ OutcomesAreCarried /\ Marked(i) /\ UNCHANGED <<alerts, move, row>>
    BY <1>1, <1>5 DEF ExcusesStay, OutcomesAreCarried, Marked, mail
  <1>16. \A r \in Rows : row'[r].status \in Open => row[r].status \in Open
    BY <1>15
  <1> QED
    BY <1>1, <1>2, <1>5, <1>11, <1>12, <1>13, <1>14, <1>15, <1>16, LoopStep

LEMMA AdvanceFailsStep ==
    ASSUME Inv, NEW i \in Instances, AdvanceFails(i)
    PROVE  Inv'
  <1> DEFINE w == Onward(i, work[i])
  <1>1. /\ Applying(i) /\ work' = [work EXCEPT ![i] = w] /\ Incident /\ cut' = cut \cup {Row(i)}
        /\ UNCHANGED <<mail, up, jobs, alerts>>
    BY DEF AdvanceFails, Applying
  <1>2. work[i] \in WorkRec /\ work[i].list # {} /\ Row(i) \in Rows
    BY <1>1, Busy DEF Applying
  <1>3. \/ Left(i, w)
        \/ w \in WorkRec /\ FitWork(w) /\ w.pc = "alert" /\ w.list = work[i].list
    BY <1>2, OnwardIs DEF Inv
  <1> HIDE DEF w
  <1>4. /\ w \in WorkRec /\ FitWork(w) /\ w.list \subseteq work[i].list
        /\ w.pc \in {"idle", "next"} \/ w.list = work[i].list
    BY <1>3 DEF Left
  <1>5. TypeOK'
    BY <1>1, <1>2, <1>4, InboxAssumption
       DEF Inv, TypeOK, jobs, mail, Incident, InboxAssumption
  <1>6. /\ ExcusesStay /\ JobsMoveOn /\ OutcomesAreCarried /\ Marked(i)
        /\ UNCHANGED <<alerts, move, row>>
    BY <1>1 DEF ExcusesStay, JobsMoveOn, OutcomesAreCarried, Marked, Applying, jobs, mail
  <1>7. Row(i) \in cut' /\ \A r \in Rows : row'[r].status \in Open => row[r].status \in Open
    BY <1>1, <1>6
  <1> QED
    BY <1>1, <1>2, <1>4, <1>5, <1>6, <1>7, LoopStep

LEMMA AlertImportantStep ==
    ASSUME Inv, NEW i \in Instances, AlertImportant(i)
    PROVE  Inv'
  <1> DEFINE w == Rest(i)
             q == Row(i)
  <1>1. /\ work[i].pc = "alert" /\ work' = [work EXCEPT ![i] = w]
        /\ alerts' = [alerts EXCEPT ![i][q] = @ + 1]
        /\ UNCHANGED <<mail, up, jobs, cut, incidents>>
    BY DEF AlertImportant, NextMessage, At
  <1>2. q \in Rows /\ q \in work[i].list
    BY <1>1, Busy
  <1>3. Left(i, w)
    BY RestIs DEF Inv
  <1>4. w \in WorkRec /\ FitWork(w) /\ w.pc \in {"idle", "next"} /\ w.list \subseteq work[i].list \ {q}
    BY <1>3 DEF Left
  <1> HIDE DEF w
  <1>5. /\ alerts' \in [Instances -> [Rows -> Nat]]
        /\ alerts'[i][q] = alerts[i][q] + 1
        /\ \A j \in Instances, r \in Rows : j # i \/ r # q => alerts'[j][r] = alerts[j][r]
    BY <1>1, <1>2 DEF Inv, TypeOK
  <1>6. TypeOK'
    BY <1>1, <1>4, <1>5 DEF Inv, TypeOK, mail, jobs
  <1>7. WorkInv'
    BY <1>1, <1>4, WorkMoves DEF Inv
  <1>8. MarkInv'
    <2>1. ASSUME NEW r \in Rows, row'[r].status \in Open
          PROVE  row[r].status \in Open /\ \A j \in Instances : alerts'[j][r] = alerts[j][r]
      <3>1. row[r].status \in Open
        BY <1>1, <2>1 DEF mail
      <3>2. r # q
        BY <1>1, <3>1 DEF Inv, MarkInv, Unmarked, Marked
      <3> QED
        BY <1>5, <3>1, <3>2
    <2> QED
      BY <1>1, <1>4, <2>1, MarkMoves DEF Inv
  <1>9. CountInv'
    <2>1. alerts[i][q] = 0 /\ q \notin work'[i].list
      BY <1>1, <1>2, <1>4, LoopMoves DEF Inv, CountInv
    <2>2. \A j \in Instances : work'[j].list \subseteq work[j].list
      BY <1>1, <1>4, LoopMoves DEF Inv
    <2>3. ASSUME NEW j \in Instances, NEW r \in Rows
          PROVE  alerts'[j][r] \in {0, 1} /\ (r \in work'[j].list => alerts'[j][r] = 0)
      <3>1. CASE j = i /\ r = q
        BY <1>5, <2>1, <3>1
      <3>2. CASE j # i \/ r # q
        BY <1>5, <2>2, <3>2 DEF Inv, CountInv
      <3> QED
        BY <3>1, <3>2
    <2> QED
      BY <2>3 DEF CountInv
  <1>10. MoveInv'
    BY <1>1 DEF Inv, MoveInv, jobs
  <1>11. KeptInv'
    <2>1. LoopsFinish
      BY <1>1, <1>4, LoopMoves DEF Inv, LoopsFinish, GoesOn, Applying
    <2>2. ExcusesStay /\ JobsMoveOn /\ OutcomesAreCarried
      BY <1>1 DEF ExcusesStay, JobsMoveOn, OutcomesAreCarried, mail, jobs
    <2> QED
      BY <1>6, <2>1, <2>2, KeptMoves DEF Inv
  <1> QED
    BY <1>6, <1>7, <1>8, <1>9, <1>10, <1>11 DEF Inv

LEMMA EndStep ==
    ASSUME Inv, NEW i \in Instances, End(i)
    PROVE  Inv'
  <1>1. /\ up' = [up EXCEPT ![i] = FALSE] /\ work' = [work EXCEPT ![i] = NoWork] /\ Incident
        /\ cut' = IF Applying(i) THEN cut \cup {Row(i)} ELSE cut
        /\ UNCHANGED <<mail, jobs, alerts>>
    BY DEF End, Applying
  <1>2. Applying(i) => Row(i) \in Rows
    BY Busy DEF Applying
  <1>3. NoWork \in WorkRec /\ FitWork(NoWork)
    BY NoWorkIs DEF FitWork
  <1>4. TypeOK'
    BY <1>1, <1>2, <1>3, InboxAssumption
       DEF Inv, TypeOK, jobs, mail, Incident, InboxAssumption
  <1>5. /\ ExcusesStay /\ JobsMoveOn /\ OutcomesAreCarried /\ UNCHANGED <<alerts, move, row>>
    BY <1>1 DEF ExcusesStay, JobsMoveOn, OutcomesAreCarried, jobs, mail
  <1>6. /\ Applying(i) => Row(i) \in cut'
        /\ \A r \in Rows : row'[r].status \in Open => row[r].status \in Open
    BY <1>1, <1>5
  <1> QED
    BY <1>1, <1>3, <1>4, <1>5, <1>6, NoWorkIs, LoopStep

LEMMA BootStep ==
    ASSUME Inv, NEW i \in Instances, Boot(i)
    PROVE  Inv'
  <1>1. TypeOK' /\ UNCHANGED <<row, work, job, move, crossed, alerts, cut>>
    BY DEF Inv, TypeOK, Boot, mail, jobs
  <1>2. \A j \in Instances : Row(j)' = Row(j) /\ User(j)' = User(j)
    BY <1>1, RowStays
  <1>3. WorkInv' /\ MoveInv'
    BY <1>1 DEF Inv, WorkInv, MoveInv, FitWork, LeadsTo
  <1>4. MarkInv'
    BY <1>1, <1>2 DEF Inv, MarkInv, Unmarked, Marked
  <1>5. CountInv'
    BY <1>1, CountMoves DEF Inv
  <1>6. KeptInv'
    <2>1. LoopsFinish
      BY <1>1, <1>2 DEF LoopsFinish, GoesOn, Applying
    <2>2. ExcusesStay /\ JobsMoveOn /\ OutcomesAreCarried
      BY <1>1 DEF ExcusesStay, JobsMoveOn, OutcomesAreCarried
    <2> QED
      BY <1>1, <2>1, <2>2, KeptMoves DEF Inv
  <1> QED
    BY <1>1, <1>3, <1>4, <1>5, <1>6 DEF Inv

\* Users and runs touch jobs, and move them on.
LEMMA JobStep ==
    ASSUME Inv, TypeOK', UNCHANGED <<mail, triage, alerts, cut>>,
           crossed \subseteq crossed', JobsMoveOn, MoveInv'
    PROVE  Inv'
  <1>1. UNCHANGED <<row, work, alerts, cut>>
    BY DEF mail, triage
  <1>2. \A j \in Instances : Row(j)' = Row(j) /\ User(j)' = User(j)
    BY <1>1, RowStays
  <1>3. WorkInv'
    BY <1>1 DEF Inv, WorkInv, FitWork, LeadsTo
  <1>4. MarkInv'
    BY <1>1, <1>2 DEF Inv, MarkInv, Unmarked, Marked
  <1>5. CountInv'
    BY <1>1, CountMoves DEF Inv
  <1>6. KeptInv'
    <2>1. LoopsFinish
      BY <1>1, <1>2 DEF LoopsFinish, GoesOn, Applying
    <2>2. ExcusesStay /\ OutcomesAreCarried
      BY <1>1 DEF ExcusesStay, OutcomesAreCarried
    <2> QED
      BY <2>1, <2>2, KeptMoves DEF Inv
  <1> QED
    BY <1>3, <1>4, <1>5, <1>6 DEF Inv

LEMMA BeginMoveStep ==
    ASSUME Inv, NEW u \in Users, BeginMove(u)
    PROVE  Inv'
  <1>1. PICK s \in allowedTransitions[job[u]] : move' = [move EXCEPT ![u] = [seen |-> job[u], to |-> s]]
    BY DEF BeginMove
  <1>2. /\ Incident /\ job[u] \in Statuses
        /\ UNCHANGED <<mail, triage, job, crossed, alerts, cut>>
    BY DEF BeginMove
  <1>3. s \in Statuses
    BY <1>1, <1>2, ReachGrows
  <1>4. TypeOK'
    BY <1>1, <1>2, <1>3, InboxAssumption
       DEF Inv, TypeOK, mail, triage, Incident, InboxAssumption
  <1>5. MoveInv'
    BY <1>1, <1>2, <1>3 DEF Inv, MoveInv, TypeOK
  <1>6. JobsMoveOn
    BY <1>2 DEF JobsMoveOn
  <1> QED
    BY <1>2, <1>4, <1>5, <1>6, JobStep

LEMMA EndMoveStep ==
    ASSUME Inv, NEW u \in Users, EndMove(u)
    PROVE  Inv'
  <1>1. /\ Written(u, move[u].to, move[u].seen) /\ move' = [move EXCEPT ![u] = None]
        /\ UNCHANGED <<mail, triage, alerts, cut, incidents>>
    BY DEF EndMove
  <1>2. /\ move[u].seen \in Statuses /\ move[u].to \in Statuses
        /\ move[u].to \in allowedTransitions[move[u].seen]
    BY DEF EndMove, Inv, MoveInv
  <1>3. /\ job' \in [Users -> Statuses \cup {None, "deleted"}] /\ crossed' \subseteq Users
        /\ crossed \subseteq crossed' /\ JobsMoveOn
    BY <1>1, <1>2, WrittenIs
  <1>4. TypeOK'
    BY <1>1, <1>3 DEF Inv, TypeOK, mail, triage
  <1>5. MoveInv'
    BY <1>1 DEF Inv, MoveInv, TypeOK
  <1> QED
    BY <1>1, <1>3, <1>4, <1>5, JobStep

LEMMA SoftDeleteStep ==
    ASSUME Inv, NEW u \in Users, SoftDelete(u)
    PROVE  Inv'
  <1>1. /\ Incident /\ job' = [job EXCEPT ![u] = "deleted"]
        /\ UNCHANGED <<mail, triage, move, crossed, alerts, cut>>
    BY DEF SoftDelete
  <1>2. TypeOK'
    BY <1>1, InboxAssumption DEF Inv, TypeOK, mail, triage, Incident, InboxAssumption
  <1>3. MoveInv'
    BY <1>1 DEF Inv, MoveInv
  <1>4. JobsMoveOn
    BY <1>1 DEF Inv, TypeOK, JobsMoveOn, Statuses
  <1> QED
    BY <1>1, <1>2, <1>3, <1>4, JobStep

-----------------------------------------------------------------------------
(* The theorems.                                                           *)

LEMMA InitHolds == Init => Inv
  <1> SUFFICES ASSUME Init PROVE Inv
    OBVIOUS
  <1>1. \A i \in Instances : work[i] = NoWork
    BY DEF Init
  <1>2. TypeOK
    BY NoWorkIs, NoRowIs, InboxAssumption DEF Init, TypeOK, InboxAssumption, Statuses
  <1>3. WorkInv
    BY <1>1, NoWorkIs DEF WorkInv, FitWork
  <1>4. MarkInv
    BY <1>1, NoWorkIs DEF Init, MarkInv, Unmarked, Marked
  <1>5. CountInv
    BY NoWorkIs DEF Init, CountInv
  <1>6. MoveInv
    BY DEF Init, MoveInv
  <1>7. KeptInv
    BY NoRowIs DEF Init, KeptInv
  <1> QED
    BY <1>2, <1>3, <1>4, <1>5, <1>6, <1>7 DEF Inv

LEMMA StutterStep ==
    ASSUME Inv, UNCHANGED vars
    PROVE  Inv'
  <1>1. UNCHANGED <<mail, triage, jobs, alerts, cut, incidents>>
    BY DEF vars
  <1>2. TypeOK'
    BY <1>1 DEF Inv, TypeOK, mail, triage, jobs
  <1>3. MoveInv' /\ JobsMoveOn
    BY <1>1 DEF Inv, MoveInv, JobsMoveOn, jobs
  <1> QED
    BY <1>1, <1>2, <1>3, JobStep DEF jobs

\* Every step of a post, a loop, a process, a user or a run keeps the invariant.
LEMMA NextHolds == Inv /\ [Next]_vars => Inv'
  <1> SUFFICES ASSUME Inv, [Next]_vars PROVE Inv'
    OBVIOUS
  <1>1. ASSUME NEW e \in Emails, NEW d \in Deliveries, InsertMessage(e, d) \/ WebhookFails(e, d)
        PROVE  Inv'
    BY <1>1, InsertStep, WebhookFailsStep
  <1>2. ASSUME NEW i \in Instances, Triage(i)
        PROVE  Inv'
    BY <1>2, SkipStep, BumpStep, SetMessageTriageStep, BeginAdvanceStep, AdvanceStepStep,
       AlertImportantStep DEF Triage
  <1>3. ASSUME NEW i \in Instances,
               PendingTriage(i) \/ SaveTriageFails(i) \/ AdvanceFails(i) \/ End(i) \/ Boot(i)
        PROVE  Inv'
    BY <1>3, PendingTriageStep, SaveTriageFailsStep, AdvanceFailsStep, EndStep, BootStep
  <1>4. ASSUME NEW u \in Users, BeginMove(u) \/ EndMove(u) \/ SoftDelete(u)
        PROVE  Inv'
    BY <1>4, BeginMoveStep, EndMoveStep, SoftDeleteStep
  <1> QED
    BY <1>1, <1>2, <1>3, <1>4, StutterStep DEF Next

LEMMA InvAlways == Spec => []Inv
  BY InitHolds, NextHolds, PTL DEF Spec

(* The tables, the loops and the moves under way hold what the model says, *)
(* and a loop that walks a job walks along transitions the tracker allows  *)
(* from the status it saw to the outcome of the mail (AdvanceStatus).      *)
THEOREM InboxTypeCorrect == Spec => [](TypeOK /\ WorkInv)
  <1>1. Inv => TypeOK /\ WorkInv
    BY DEF Inv
  <1> QED
    BY <1>1, InvAlways, PTL

(* A process alerts about a message once at most (alertImportant after     *)
(* SetMessageTriage), with any processes and incidents.                    *)
THEOREM AlertsOnce == Spec => []AlertedOnce
  <1>1. Inv => AlertedOnce
    BY DEF Inv, CountInv, AlertedOnce
  <1> QED
    BY <1>1, InvAlways, PTL

(* The tracker is not behind a mail that was dealt with, in whatever order *)
(* mails, users and runs move the job, unless the move was cut short or    *)
(* somebody wrote a status over one he had not seen (applyMailOutcome).    *)
THEOREM OutcomesKept == Spec => []OutcomeKept
  <1>1. ASSUME Inv PROVE OutcomeKept
    <2> SUFFICES ASSUME NEW r \in Rows, row[r].outcome # None, ~Excused(r),
                        \A i \in Instances : Applying(i) => Row(i) # r
                 PROVE  ~Behind(job[UserOf[r]], row[r].outcome)
      BY DEF OutcomeKept, Excused, Applying
    <2>1. ~Carried(r)
      BY DEF Carried
    <2> QED
      BY <1>1, <2>1 DEF Inv, KeptInv
  <1> QED
    BY <1>1, InvAlways, PTL

-----------------------------------------------------------------------------
(* The tracker: statuses and their dates, and what the dashboard shows.      *)

QueryData(q)  == {Nil} \cup [JobsOf(q) -> Statuses \cup {"absent"}]
QueryState(q) == [data : QueryData(q), invalid : BOOLEAN, behind : BOOLEAN, fetch : Fetches(q)]

RowsInv == rows \in [Jobs -> [status : Statuses, dated : BOOLEAN, gone : BOOLEAN]]

\* What a mutation puts back if it fails.
UndoFits(r) ==
    /\ r.kind = "status" => r.undo \in QueryData(r.job)
    /\ r.kind = "delete" => r.undo \in QueryData(List)

Mutation == [kind : {"none", "status", "delete"},
             pc : {"idle", "sent", "checked", "ok", "refused"},
             job : Jobs \cup {Nil}, to : Statuses \cup {Nil},
             dated : BOOLEAN, heard : {"nobody", "board", "drawer", "left"},
             undo : {Nil} \cup UNION {[JobsOf(q) -> Statuses \cup {"absent"}] : q \in Queries}]

RequestFits(r) ==
    /\ r \in Mutation /\ UndoFits(r)
    /\ r.kind = "none" => r.heard = "nobody" /\ r.pc = "idle"
    /\ r.kind # "none" => r.job \in Jobs
    /\ r.kind = "status" => r.to \in Statuses
    /\ r.pc = "checked" => r.kind = "status"

RequestsInv == req = [i \in Requests |-> req[i]] /\ \A i \in Requests : RequestFits(req[i])

AdvanceInv ==
    /\ adv \in [Agents -> [job : Jobs \cup {Nil}, path : Seq(Statuses), dated : BOOLEAN]]
    /\ \A a \in Agents : adv[a].path # <<>> => adv[a].job \in Jobs

PageInv == shown \in BOOLEAN /\ drawer \in Jobs \cup {Nil} /\ (drawer # Nil => shown)

CacheInv == cache = [q \in Queries |-> cache[q]] /\ \A q \in Queries : cache[q] \in QueryState(q)

\* A row has its date, or the write that is due will set it.
Dates(r, to, sets) == r.dated \/ (to = "applied" /\ sets)

DatedInv ==
    /\ AppliedDated
    /\ \A i \in Requests : req[i].pc = "checked" => Dates(rows[req[i].job], req[i].to, req[i].dated)
    /\ \A a \in Agents : adv[a].path # <<>> => Dates(rows[adv[a].job], adv[a].path[1], ~adv[a].dated)

\* A query with this state shows ans, will show it, or is known not to.
Sound(c, ans) ==
    /\ c.data # Nil /\ ~c.invalid /\ ~c.behind => c.data = ans
    /\ c.fetch.pc = "read" /\ ~c.fetch.late => c.fetch.got = ans

\* A mutation the client waits for may have changed what the query shows.
Touches(r, q) == r.heard # "nobody" /\ q \in {List, r.job}
Touched(q) == \E i \in Requests : Touches(req[i], q)

ViewInv == \A q \in Queries : ~Touched(q) => Sound(cache[q], Answer(q))

TrackerInv ==
    /\ RowsInv /\ RequestsInv /\ AdvanceInv /\ PageInv /\ CacheInv
    /\ DatedInv /\ ViewInv

-----------------------------------------------------------------------------
(* Operations on a query.                                                    *)

LEMMA QueryParts ==
    ASSUME NEW q, NEW c \in QueryState(q)
    PROVE  /\ c.data \in QueryData(q) /\ c.invalid \in BOOLEAN /\ c.behind \in BOOLEAN
           /\ c.fetch \in Fetches(q) /\ c.fetch.pc \in {"idle", "sent", "read"}
           /\ c.fetch.got \in QueryData(q) /\ c.fetch.late \in BOOLEAN
           /\ c.fetch.backTo \in QueryData(q) /\ c.fetch.backInvalid \in BOOLEAN
           /\ Nil \in QueryData(q) /\ NoFetch \in Fetches(q) /\ Fresh \in QueryState(q)
  BY DEF QueryState, QueryData, Fetches, NoFetch, Fresh

LEMMA StartedIs ==
    ASSUME NEW q, NEW c \in QueryState(q)
    PROVE  /\ Started(c) \in QueryState(q)
           /\ Started(c).data = c.data /\ Started(c).invalid = c.invalid
           /\ Started(c).behind = c.behind /\ Started(c).fetch.pc = "sent"
           /\ \A ans : Sound(c, ans) => Sound(Started(c), ans)
  <1> DEFINE f == [NoFetch EXCEPT !.pc = "sent", !.backTo = c.data, !.backInvalid = c.invalid]
  <1>1. f \in Fetches(q) /\ f.pc = "sent"
    BY QueryParts DEF Fetches, NoFetch, QueryData
  <1>2. Started(c) = [c EXCEPT !.fetch = f]
    BY DEF Started
  <1> HIDE DEF f
  <1>3. /\ Started(c) \in QueryState(q)
        /\ Started(c).data = c.data /\ Started(c).invalid = c.invalid
        /\ Started(c).behind = c.behind /\ Started(c).fetch = f
    BY <1>1, <1>2 DEF QueryState
  <1> QED
    BY <1>1, <1>3 DEF Sound

LEMMA CancelledTyped ==
    ASSUME NEW q, NEW c \in QueryState(q)
    PROVE  Cancelled(c) \in QueryState(q)
  <1>1. c.fetch.backTo \in QueryData(q) /\ c.fetch.backInvalid \in BOOLEAN /\ NoFetch \in Fetches(q)
    BY QueryParts
  <1> QED
    BY <1>1 DEF Cancelled, QueryState

LEMMA SetDataTyped ==
    ASSUME NEW q, NEW c \in QueryState(q), NEW d \in QueryData(q)
    PROVE  SetData(c, d) \in QueryState(q)
  BY DEF SetData, QueryState

LEMMA EditedTyped ==
    ASSUME NEW q, NEW c \in QueryState(q), NEW j \in JobsOf(q), NEW s \in Statuses \cup {"absent"}
    PROVE  Edited(c, j, s) \in QueryState(q)
  <1>1. CASE c.data = Nil
    BY <1>1 DEF Edited
  <1>2. CASE c.data # Nil
    <2>1. c.data \in [JobsOf(q) -> Statuses \cup {"absent"}]
      BY <1>2, QueryParts DEF QueryData
    <2>2. [c.data EXCEPT ![j] = s] \in QueryData(q)
      BY <2>1 DEF QueryData
    <2> QED
      BY <1>2, <2>2, SetDataTyped DEF Edited
  <1> QED
    BY <1>1, <1>2

(* Whatever the server has: an invalidated query does not claim to show it.  *)
LEMMA InvalidatedIs ==
    ASSUME NEW q, NEW c \in QueryState(q), NEW observed \in BOOLEAN
    PROVE  /\ Invalidated(c, observed) \in QueryState(q)
           /\ \A ans : Sound(Invalidated(c, observed), ans)
  <1>1. CASE c.fetch.pc # "idle" /\ (c.data = Nil \/ ~observed)
    <2> DEFINE f == [c.fetch EXCEPT !.late = c.fetch.pc = "read"]
    <2>1. f \in Fetches(q) /\ (f.pc = "read" => f.late)
      BY QueryParts DEF Fetches
    <2>2. Invalidated(c, observed) = [c EXCEPT !.invalid = TRUE, !.fetch = f]
      BY <1>1 DEF Invalidated, QueryState
    <2> HIDE DEF f
    <2>3. Invalidated(c, observed) \in QueryState(q) /\ Invalidated(c, observed).invalid
          /\ Invalidated(c, observed).fetch = f
      BY <2>1, <2>2 DEF QueryState
    <2> QED
      BY <2>1, <2>3 DEF Sound
  <1>2. CASE ~(c.fetch.pc # "idle" /\ (c.data = Nil \/ ~observed)) /\ observed
    <2> DEFINE d == [c EXCEPT !.invalid = TRUE]
    <2>1. d \in QueryState(q) /\ d.invalid
      BY DEF QueryState
    <2>2. Invalidated(c, observed) = Started(d)
      BY <1>2 DEF Invalidated
    <2> HIDE DEF d
    <2>3. Started(d).invalid /\ Started(d).fetch.pc = "sent" /\ Started(d) \in QueryState(q)
      BY <2>1, StartedIs
    <2> QED
      BY <2>2, <2>3 DEF Sound
  <1>3. CASE ~(c.fetch.pc # "idle" /\ (c.data = Nil \/ ~observed)) /\ ~observed
    <2>1. Invalidated(c, observed) = [c EXCEPT !.invalid = c.data # Nil] /\ c.fetch.pc = "idle"
      BY <1>3 DEF Invalidated
    <2>2. Invalidated(c, observed) \in QueryState(q)
          /\ Invalidated(c, observed).data = c.data
          /\ Invalidated(c, observed).invalid = (c.data # Nil)
          /\ Invalidated(c, observed).fetch = c.fetch
      BY <2>1 DEF QueryState
    <2> QED
      BY <2>1, <2>2 DEF Sound
  <1> QED
    BY <1>1, <1>2, <1>3

LEMMA MissedIs ==
    ASSUME CacheInv
    PROVE  /\ Missed = [q \in Queries |-> Missed[q]]
           /\ \A q \in Queries : Missed[q] \in QueryState(q) /\ \A ans : Sound(Missed[q], ans)
  <1>1. Missed = [q \in Queries |-> Missed[q]]
    BY DEF Missed
  <1>2. ASSUME NEW q \in Queries
        PROVE  Missed[q] \in QueryState(q) /\ \A ans : Sound(Missed[q], ans)
    <2> DEFINE c == cache[q]
               f == [c.fetch EXCEPT !.late = c.fetch.pc = "read"]
    <2>1. c \in QueryState(q)
      BY DEF CacheInv
    <2>2. f \in Fetches(q) /\ (f.pc = "read" => f.late)
      <3>1. c.fetch \in Fetches(q)
        BY <2>1, QueryParts
      <3> QED
        BY <3>1 DEF Fetches
    <2>3. Missed[q] = [c EXCEPT !.behind = TRUE, !.fetch = f]
      BY <2>1 DEF Missed, QueryState
    <2> HIDE DEF c, f
    <2>4. Missed[q] \in QueryState(q) /\ Missed[q].behind /\ Missed[q].fetch = f
      BY <2>1, <2>2, <2>3 DEF QueryState
    <2> QED
      BY <2>2, <2>4 DEF Sound
  <1> QED
    BY <1>1, <1>2

LEMMA MountedIs ==
    ASSUME NEW q, NEW c \in QueryState(q), NEW old \in BOOLEAN
    PROVE  /\ Mounted(c, old) \in QueryState(q)
           /\ \A ans : Sound(c, ans) => Sound(Mounted(c, old), ans)
  BY StartedIs DEF Mounted

-----------------------------------------------------------------------------
(* The server's steps.                                                       *)

\* What the properties read of the requests is as it was.
SameWaits ==
    \A i \in Requests : /\ req'[i].heard # "nobody" => req[i].heard # "nobody"
                        /\ req[i].heard # "nobody" /\ req'[i].heard = "nobody" => FALSE
                        /\ req[i].heard # "nobody" => req'[i].job = req[i].job

LEMMA SameTouched ==
    ASSUME SameWaits
    PROVE  \A q : Touched(q)' <=> Touched(q)
  BY DEF SameWaits, Touched, Touches

LEMMA SameAnswer ==
    ASSUME NEW q \in Queries, \A k \in JobsOf(q) : rows'[k] = rows[k]
    PROVE  Answer(q)' = Answer(q)
  BY DEF Answer

LEMMA SameViews ==
    ASSUME ViewInv, cache' = cache, rows' = rows, SameWaits
    PROVE  ViewInv'
  <1>1. \A q \in Queries : Answer(q)' = Answer(q)
    BY SameAnswer
  <1> QED
    BY <1>1, SameTouched DEF ViewInv

LEMMA MissedViews ==
    ASSUME CacheInv, cache' = Missed
    PROVE  CacheInv' /\ ViewInv'
  BY MissedIs DEF CacheInv, ViewInv

LEMMA RequestParts ==
    ASSUME NEW r, RequestFits(r)
    PROVE  /\ r \in Mutation
           /\ r.kind \in {"none", "status", "delete"}
           /\ r.pc \in {"idle", "sent", "checked", "ok", "refused"}
           /\ r.job \in Jobs \cup {Nil} /\ r.to \in Statuses \cup {Nil} /\ r.dated \in BOOLEAN
           /\ r.heard \in {"nobody", "board", "drawer", "left"}
  BY DEF RequestFits, Mutation

LEMMA NoRequestFits == RequestFits(NoRequest)
  BY DEF RequestFits, NoRequest, UndoFits, Mutation

(* The request is answered, or nobody waits for the answer.                  *)
LEMMA FinishIs ==
    ASSUME RequestsInv, NEW i \in Requests, NEW pc \in {"ok", "refused"},
           req[i].kind # "none", Finish(i, pc)
    PROVE  /\ RequestsInv'
           /\ \A k \in Requests \ {i} : req'[k] = req[k]
           /\ req'[i].pc # "checked"
           /\ SameWaits
  <1>1. RequestFits(req[i]) /\ \A k \in Requests : RequestFits(req[k])
    BY DEF RequestsInv
  <1>2. CASE Waiting(i)
    <2> DEFINE r == [req[i] EXCEPT !.pc = pc]
    <2>1. req' = [req EXCEPT ![i] = r]
      BY <1>2 DEF Finish
    <2>2. /\ r \in Mutation /\ r.kind = req[i].kind /\ r.job = req[i].job /\ r.to = req[i].to
          /\ r.undo = req[i].undo /\ r.heard = req[i].heard /\ r.pc = pc
      BY <1>1 DEF RequestFits, Mutation
    <2> HIDE DEF r
    <2>3. RequestFits(r)
      BY <1>1, <2>2 DEF RequestFits, UndoFits
    <2>4. req'[i] = r /\ \A k \in Requests \ {i} : req'[k] = req[k]
      BY <2>1 DEF RequestsInv
    <2>5. req' = [k \in Requests |-> req'[k]]
      BY <2>1 DEF RequestsInv
    <2>6. RequestsInv'
      BY <1>1, <2>3, <2>4, <2>5 DEF RequestsInv
    <2> QED
      BY <2>2, <2>4, <2>6 DEF SameWaits
  <1>3. CASE ~Waiting(i)
    <2>1. req' = [req EXCEPT ![i] = NoRequest]
      BY <1>3 DEF Finish
    <2>4. req'[i] = NoRequest /\ \A k \in Requests \ {i} : req'[k] = req[k]
      BY <2>1 DEF RequestsInv
    <2>5. req' = [k \in Requests |-> req'[k]]
      BY <2>1 DEF RequestsInv
    <2>6. RequestsInv'
      BY <1>1, <2>4, <2>5, NoRequestFits DEF RequestsInv
    <2>7. req'[i].pc = "idle" /\ req'[i].heard = "nobody" /\ req[i].heard = "nobody"
      BY <1>3, <2>4 DEF NoRequest, Waiting
    <2> QED
      BY <2>4, <2>6, <2>7 DEF SameWaits
  <1> QED
    BY <1>2, <1>3

LEMMA CheckTransitionKeeps ==
    ASSUME TrackerInv, NEW i \in Requests, CheckTransition(i)
    PROVE  TrackerInv'
  <1> DEFINE j == req[i].job
  <1>1. /\ req[i].kind = "status" /\ req[i].pc = "sent"
        /\ rows' = rows /\ adv' = adv /\ cache' = cache /\ shown' = shown /\ drawer' = drawer
    BY DEF CheckTransition
  <1>2. RequestFits(req[i]) /\ (\A k \in Requests : RequestFits(req[k])) /\ j \in Jobs /\ req[i].to \in Statuses
    BY <1>1 DEF TrackerInv, RequestsInv, RequestFits
  <1>3. rows[j] \in [status : Statuses, dated : BOOLEAN, gone : BOOLEAN]
    BY <1>2 DEF TrackerInv, RowsInv
  <1>4. RequestsInv' /\ SameWaits
        /\ \A k \in Requests : req'[k].pc = "checked" => Dates(rows[req'[k].job], req'[k].to, req'[k].dated)
    <2>1. CASE ~rows[j].gone /\ req[i].to \in allowedTransitions[rows[j].status]
      <3> DEFINE dates == req[i].to = "applied" /\ ~rows[j].dated
                 r == [req[i] EXCEPT !.pc = "checked", !.dated = dates]
      <3>1. req' = [req EXCEPT ![i] = r]
        BY <2>1 DEF CheckTransition, TrackerInv, RequestsInv
      <3>2. /\ r \in Mutation /\ r.kind = req[i].kind /\ r.job = req[i].job /\ r.to = req[i].to
            /\ r.undo = req[i].undo /\ r.heard = req[i].heard /\ r.pc = "checked" /\ r.dated = dates
        <4>1. dates \in BOOLEAN
          OBVIOUS
        <4> HIDE DEF dates
        <4> QED
          BY <1>2, <4>1 DEF RequestFits, Mutation
      <3> HIDE DEF r
      <3>3. RequestFits(r)
        BY <1>1, <1>2, <3>2 DEF RequestFits, UndoFits
      <3>4. req'[i] = r /\ \A k \in Requests \ {i} : req'[k] = req[k]
        BY <3>1 DEF TrackerInv, RequestsInv
      <3>5. req' = [k \in Requests |-> req'[k]]
        BY <3>1 DEF TrackerInv, RequestsInv
      <3>6. RequestsInv'
        BY <1>2, <3>3, <3>4, <3>5 DEF RequestsInv
      <3>7. SameWaits
        BY <3>2, <3>4 DEF SameWaits
      <3>8. rows[j].status = "not_applied" => req[i].to = "applied"
        BY <2>1, <1>3 DEF allowedTransitions, Statuses
      <3>9. Dates(rows[j], req[i].to, dates)
        BY <3>8, <1>2 DEF TrackerInv, DatedInv, AppliedDated, Dates
      <3>10. \A k \in Requests \ {i} : req'[k].pc = "checked" => Dates(rows[req'[k].job], req'[k].to, req'[k].dated)
        BY <3>4 DEF TrackerInv, DatedInv
      <3> QED
        BY <3>2, <3>4, <3>6, <3>7, <3>9, <3>10
    <2>2. CASE ~(~rows[j].gone /\ req[i].to \in allowedTransitions[rows[j].status])
      <3>1. Finish(i, "refused")
        BY <2>2 DEF CheckTransition
      <3>2. RequestsInv' /\ SameWaits /\ req'[i].pc # "checked" /\ \A k \in Requests \ {i} : req'[k] = req[k]
        BY <1>1, <3>1, FinishIs DEF TrackerInv
      <3> QED
        BY <3>2 DEF TrackerInv, DatedInv
    <2> QED
      BY <2>1, <2>2
  <1>5. ViewInv'
    BY <1>1, <1>4, SameViews DEF TrackerInv
  <1>6. RowsInv' /\ AdvanceInv' /\ PageInv' /\ CacheInv'
    BY <1>1 DEF TrackerInv, RowsInv, AdvanceInv, PageInv, CacheInv
  <1>7. DatedInv'
    BY <1>1, <1>4 DEF TrackerInv, DatedInv, AppliedDated
  <1> QED
    BY <1>4, <1>5, <1>6, <1>7 DEF TrackerInv

(* A row is written: what it owes the other writers is kept.                 *)
LEMMA WriteKeeps ==
    ASSUME RowsInv, DatedInv, NEW j \in Jobs, NEW s \in Statuses, NEW sets \in BOOLEAN,
           Write(j, s, sets), s # "applied" => rows[j].dated, s = "applied" => rows[j].dated \/ sets
    PROVE  /\ RowsInv' /\ AppliedDated'
           /\ \A k \in Jobs : rows[k].dated => rows'[k].dated
           /\ \A k \in Jobs \ {j} : rows'[k] = rows[k]
           /\ rows'[j].dated = (rows[j].dated \/ sets)
  <1> DEFINE r == [status |-> s, dated |-> rows[j].dated \/ sets, gone |-> rows[j].gone]
  <1>1. rows' = [rows EXCEPT ![j] = r] /\ rows[j].dated \in BOOLEAN /\ rows[j].gone \in BOOLEAN
    BY DEF Write, RowsInv
  <1>2. rows'[j] = r /\ \A k \in Jobs \ {j} : rows'[k] = rows[k]
    BY <1>1 DEF RowsInv
  <1>3. r \in [status : Statuses, dated : BOOLEAN, gone : BOOLEAN]
    BY <1>1
  <1>4. RowsInv'
    BY <1>1, <1>3 DEF RowsInv
  <1>5. rows'[j].dated
    BY <1>1, <1>2
  <1>6. AppliedDated'
    BY <1>2, <1>5 DEF DatedInv, AppliedDated
  <1> QED
    BY <1>1, <1>2, <1>4, <1>6

\* Every date there is stays, so what is owed stays paid.
LEMMA StillDated ==
    ASSUME TrackerInv, \A k \in Jobs : rows[k].dated => rows'[k].dated
    PROVE  /\ \A k \in Requests : req[k].pc = "checked" => Dates(rows'[req[k].job], req[k].to, req[k].dated)
           /\ \A a \in Agents : adv[a].path # <<>> => Dates(rows'[adv[a].job], adv[a].path[1], ~adv[a].dated)
  <1>1. ASSUME NEW k \in Requests, req[k].pc = "checked"
        PROVE  Dates(rows'[req[k].job], req[k].to, req[k].dated)
    <2>1. req[k].job \in Jobs
      BY <1>1 DEF TrackerInv, RequestsInv, RequestFits
    <2>2. Dates(rows[req[k].job], req[k].to, req[k].dated)
      BY <1>1 DEF TrackerInv, DatedInv
    <2> QED
      BY <2>1, <2>2 DEF Dates
  <1>2. ASSUME NEW a \in Agents, adv[a].path # <<>>
        PROVE  Dates(rows'[adv[a].job], adv[a].path[1], ~adv[a].dated)
    <2>1. adv[a].job \in Jobs
      BY <1>2 DEF TrackerInv, AdvanceInv
    <2>2. Dates(rows[adv[a].job], adv[a].path[1], ~adv[a].dated)
      BY <1>2 DEF TrackerInv, DatedInv
    <2> QED
      BY <2>1, <2>2 DEF Dates
  <1> QED
    BY <1>1, <1>2

(* A row changes for a request: the queries that show it are its own, or all *)
(* are known to be behind.                                                   *)
LEMMA NoticedViews ==
    ASSUME TrackerInv, NEW i \in Requests, SameWaits, cache' = Noticed(i),
           \A k \in Jobs \ {req[i].job} : rows'[k] = rows[k]
    PROVE  CacheInv' /\ ViewInv'
  <1>1. CASE ~Waiting(i)
    BY <1>1, MissedViews DEF Noticed, TrackerInv
  <1>2. CASE Waiting(i)
    <2>1. cache' = cache
      BY <1>2 DEF Noticed
    <2>2. ASSUME NEW q \in Queries, ~Touched(q)'
          PROVE  Sound(cache'[q], Answer(q)')
      <3>1. ~Touched(q)
        BY <2>2, SameTouched
      <3>2. q # List /\ q # req[i].job
        BY <1>2, <3>1 DEF Touched, Touches, Waiting
      <3>3. \A k \in JobsOf(q) : rows'[k] = rows[k]
        BY <3>2 DEF JobsOf, Queries
      <3> QED
        BY <2>1, <3>1, <3>3, SameAnswer DEF TrackerInv, ViewInv
    <2> QED
      BY <2>1, <2>2 DEF TrackerInv, CacheInv, ViewInv
  <1> QED
    BY <1>1, <1>2

LEMMA WriteStatusKeeps ==
    ASSUME TrackerInv, NEW i \in Requests, WriteStatus(i)
    PROVE  TrackerInv'
  <1> DEFINE j == req[i].job
  <1>1. req[i].pc = "checked" /\ adv' = adv /\ shown' = shown /\ drawer' = drawer
    BY DEF WriteStatus
  <1>2. RequestFits(req[i]) /\ req[i].kind = "status" /\ j \in Jobs /\ req[i].to \in Statuses
        /\ req[i].dated \in BOOLEAN
    BY <1>1, RequestParts DEF TrackerInv, RequestsInv, RequestFits
  <1>3. AdvanceInv' /\ PageInv'
    BY <1>1 DEF TrackerInv, AdvanceInv, PageInv
  <1>4. CASE rows[j].gone
    <2>1. Finish(i, "refused") /\ rows' = rows /\ cache' = cache
      BY <1>4 DEF WriteStatus
    <2>2. RequestsInv' /\ SameWaits /\ req'[i].pc # "checked" /\ \A k \in Requests \ {i} : req'[k] = req[k]
      BY <1>2, <2>1, FinishIs DEF TrackerInv
    <2>3. ViewInv'
      BY <2>1, <2>2, SameViews DEF TrackerInv
    <2>4. DatedInv'
      BY <1>1, <2>1, <2>2 DEF TrackerInv, DatedInv, AppliedDated
    <2> QED
      BY <1>3, <2>1, <2>2, <2>3, <2>4 DEF TrackerInv, RowsInv, CacheInv
  <1>5. CASE ~rows[j].gone
    <2>1. Write(j, req[i].to, req[i].dated) /\ Finish(i, "ok") /\ cache' = Noticed(i)
      BY <1>5 DEF WriteStatus
    <2>2. RequestsInv' /\ SameWaits /\ req'[i].pc # "checked" /\ \A k \in Requests \ {i} : req'[k] = req[k]
      BY <1>2, <2>1, FinishIs DEF TrackerInv
    <2>3. Dates(rows[j], req[i].to, req[i].dated)
      BY <1>1 DEF TrackerInv, DatedInv
    <2>4. /\ RowsInv' /\ AppliedDated'
          /\ \A k \in Jobs : rows[k].dated => rows'[k].dated
          /\ \A k \in Jobs \ {j} : rows'[k] = rows[k]
      <3>1. (req[i].to # "applied" => rows[j].dated) /\ (req[i].to = "applied" => rows[j].dated \/ req[i].dated)
        BY <2>3 DEF Dates
      <3>2. Write(j, req[i].to, req[i].dated) /\ RowsInv /\ DatedInv
        BY <2>1 DEF TrackerInv
      <3> QED
        BY <1>2, <3>1, <3>2, WriteKeeps
    <2>5. DatedInv'
      BY <1>1, <2>2, <2>4, StillDated DEF DatedInv
    <2>6. CacheInv' /\ ViewInv'
      BY <2>1, <2>2, <2>4, NoticedViews
    <2> QED
      BY <1>3, <2>2, <2>4, <2>5, <2>6 DEF TrackerInv
  <1> QED
    BY <1>4, <1>5

LEMMA SoftDeleteJobKeeps ==
    ASSUME TrackerInv, NEW i \in Requests, SoftDeleteJob(i)
    PROVE  TrackerInv'
  <1> DEFINE j == req[i].job
             pc == IF rows[j].gone THEN "refused" ELSE "ok"
  <1>1. /\ req[i].kind = "delete" /\ rows' = [rows EXCEPT ![j].gone = TRUE] /\ Finish(i, pc)
        /\ cache' = IF rows[j].gone THEN cache ELSE Noticed(i)
        /\ adv' = adv /\ shown' = shown /\ drawer' = drawer
    BY DEF SoftDeleteJob
  <1>2. j \in Jobs /\ pc \in {"ok", "refused"}
    BY <1>1 DEF TrackerInv, RequestsInv, RequestFits
  <1>3. RequestsInv' /\ SameWaits /\ req'[i].pc # "checked" /\ \A k \in Requests \ {i} : req'[k] = req[k]
    BY <1>1, <1>2, FinishIs DEF TrackerInv
  <1>4. /\ RowsInv' /\ \A k \in Jobs : rows'[k].dated = rows[k].dated /\ rows'[k].status = rows[k].status
        /\ \A k \in Jobs \ {j} : rows'[k] = rows[k]
        /\ rows[j].gone => rows' = rows
    BY <1>1, <1>2 DEF TrackerInv, RowsInv
  <1>5. DatedInv'
    <2>1. AppliedDated'
      BY <1>4 DEF TrackerInv, DatedInv, AppliedDated
    <2> QED
      BY <1>1, <1>3, <1>4, <2>1, StillDated DEF DatedInv
  <1>6. CacheInv' /\ ViewInv'
    <2>1. CASE rows[j].gone
      <3>1. rows' = rows /\ cache' = cache
        BY <1>1, <1>4, <2>1
      <3> QED
        BY <1>3, <3>1, SameViews DEF TrackerInv, CacheInv
    <2>2. CASE ~rows[j].gone
      BY <1>1, <1>3, <1>4, <2>2, NoticedViews
    <2> QED
      BY <2>1, <2>2
  <1>7. AdvanceInv' /\ PageInv'
    BY <1>1 DEF TrackerInv, AdvanceInv, PageInv
  <1> QED
    BY <1>3, <1>4, <1>5, <1>6, <1>7 DEF TrackerInv

LEMMA QueryFailsKeeps ==
    ASSUME TrackerInv, NEW i \in Requests, QueryFails(i)
    PROVE  TrackerInv'
  <1>1. /\ req[i].pc \in {"sent", "checked"} /\ Finish(i, "refused")
        /\ rows' = rows /\ adv' = adv /\ cache' = cache /\ shown' = shown /\ drawer' = drawer
    BY DEF QueryFails
  <1>2. req[i].kind # "none"
    BY <1>1 DEF TrackerInv, RequestsInv, RequestFits
  <1>3. RequestsInv' /\ SameWaits /\ req'[i].pc # "checked" /\ \A k \in Requests \ {i} : req'[k] = req[k]
    BY <1>1, <1>2, FinishIs DEF TrackerInv
  <1>4. ViewInv'
    BY <1>1, <1>3, SameViews DEF TrackerInv
  <1>5. DatedInv'
    BY <1>1, <1>3 DEF TrackerInv, DatedInv, AppliedDated
  <1> QED
    BY <1>1, <1>3, <1>4, <1>5 DEF TrackerInv, RowsInv, AdvanceInv, PageInv, CacheInv

LEMMA BeginAdvanceKeeps ==
    ASSUME TrackerInv, NEW a \in Agents, NEW j \in Jobs,
           NEW target \in {"applied", "interview", "offer", "rejected"},
           BeginAdvanceStatus(a, j, target)
    PROVE  TrackerInv'
  <1> DEFINE path == TransitionPath(rows[j].status, target)
             r == [job |-> j, path |-> path, dated |-> rows[j].dated]
  <1>1. /\ path # <<>> /\ adv' = [adv EXCEPT ![a] = r]
        /\ rows' = rows /\ req' = req /\ cache' = cache /\ shown' = shown /\ drawer' = drawer
    BY DEF BeginAdvanceStatus
  <1>2. rows[j].status \in Statuses /\ rows[j].dated \in BOOLEAN /\ target \in Statuses
    BY DEF TrackerInv, RowsInv, Statuses
  <1>3. path \in Seq(Statuses) /\ path[1] \in allowedTransitions[rows[j].status]
    BY <1>1, <1>2, PathLeads DEF LeadsTo
  <1> HIDE DEF path
  <1>4. adv'[a] = r /\ r.job = j /\ r.path = path /\ r.dated = rows[j].dated
        /\ \A b \in Agents \ {a} : adv'[b] = adv[b]
    BY <1>1 DEF TrackerInv, AdvanceInv
  <1>5. AdvanceInv'
    BY <1>1, <1>2, <1>3, <1>4 DEF TrackerInv, AdvanceInv
  <1>6. Dates(rows[j], path[1], ~rows[j].dated)
    <2>1. rows[j].status = "not_applied" => path[1] = "applied"
      BY <1>3 DEF allowedTransitions, Statuses
    <2> QED
      BY <1>2, <2>1 DEF TrackerInv, DatedInv, AppliedDated, Dates
  <1>7. DatedInv'
    BY <1>1, <1>4, <1>6 DEF TrackerInv, DatedInv, AppliedDated
  <1>8. SameWaits
    BY <1>1 DEF SameWaits
  <1> QED
    BY <1>1, <1>5, <1>7, <1>8, SameViews DEF TrackerInv, RowsInv, RequestsInv, PageInv, CacheInv

LEMMA AdvanceStepKeeps ==
    ASSUME TrackerInv, NEW a \in Agents, AdvanceStatusStep(a)
    PROVE  TrackerInv'
  <1> DEFINE j == adv[a].job
             step == Head(adv[a].path)
             dates == step = "applied" /\ ~adv[a].dated
             r == [job |-> j, path |-> Tail(adv[a].path), dated |-> rows[j].dated \/ dates]
  <1>1. adv[a].path # <<>> /\ req' = req /\ shown' = shown /\ drawer' = drawer
    BY DEF AdvanceStatusStep
  <1>2. j \in Jobs /\ adv[a].path \in Seq(Statuses) /\ adv[a].dated \in BOOLEAN
    BY <1>1 DEF TrackerInv, AdvanceInv
  <1>3. step = adv[a].path[1] /\ step \in Statuses /\ Tail(adv[a].path) \in Seq(Statuses)
    BY <1>1, <1>2
  <1>4. SameWaits /\ RequestsInv' /\ PageInv'
    BY <1>1 DEF SameWaits, TrackerInv, RequestsInv, PageInv
  <1>5. CASE rows[j].gone
    <2>1. adv' = [adv EXCEPT ![a].path = <<>>] /\ rows' = rows /\ cache' = cache
      BY <1>5 DEF AdvanceStatusStep
    <2>2. adv'[a].path = <<>> /\ \A b \in Agents \ {a} : adv'[b] = adv[b]
      BY <2>1 DEF TrackerInv, AdvanceInv
    <2>3. AdvanceInv'
      BY <2>1, EmptySeq DEF TrackerInv, AdvanceInv
    <2>4. DatedInv'
      BY <1>1, <2>1, <2>2 DEF TrackerInv, DatedInv, AppliedDated
    <2> QED
      BY <1>4, <2>1, <2>3, <2>4, SameViews DEF TrackerInv, RowsInv, CacheInv
  <1>6. CASE ~rows[j].gone
    <2>1. Write(j, step, dates) /\ adv' = [adv EXCEPT ![a] = r] /\ cache' = Missed
      BY <1>6 DEF AdvanceStatusStep
    <2>2. adv'[a] = r /\ \A b \in Agents \ {a} : adv'[b] = adv[b]
      BY <2>1 DEF TrackerInv, AdvanceInv
    <2>3. Dates(rows[j], step, ~adv[a].dated)
      BY <1>1, <1>3 DEF TrackerInv, DatedInv
    <2>4. dates \in BOOLEAN /\ (rows[j].dated \/ dates) \in BOOLEAN
      OBVIOUS
    <2>5. (step # "applied" => rows[j].dated) /\ (step = "applied" => rows[j].dated \/ dates)
      BY <2>3 DEF Dates
    <2>6. /\ r.job = j /\ r.path = Tail(adv[a].path)
          /\ r \in [job : Jobs \cup {Nil}, path : Seq(Statuses), dated : BOOLEAN]
      BY <1>2, <1>3, <2>4
    <2> HIDE DEF r, step, dates
    <2>7. /\ RowsInv' /\ AppliedDated'
          /\ \A k \in Jobs : rows[k].dated => rows'[k].dated
          /\ rows'[j].dated
      <3>1. RowsInv /\ DatedInv
        BY DEF TrackerInv
      <3>2. /\ RowsInv' /\ AppliedDated'
            /\ \A k \in Jobs : rows[k].dated => rows'[k].dated
            /\ rows'[j].dated = (rows[j].dated \/ dates)
        BY <1>2, <1>3, <2>1, <2>4, <2>5, <3>1, WriteKeeps
      <3> QED
        BY <2>5, <3>2
    <2>8. AdvanceInv'
      BY <1>2, <2>1, <2>2, <2>6 DEF TrackerInv, AdvanceInv
    <2>9. DatedInv'
      <3>1. /\ \A k \in Requests : req[k].pc = "checked" => Dates(rows'[req[k].job], req[k].to, req[k].dated)
            /\ \A b \in Agents : adv[b].path # <<>> => Dates(rows'[adv[b].job], adv[b].path[1], ~adv[b].dated)
        BY <2>7, StillDated
      <3>2. Dates(rows'[adv'[a].job], adv'[a].path[1], ~adv'[a].dated)
        BY <2>2, <2>6, <2>7 DEF Dates
      <3> QED
        BY <1>1, <2>2, <2>7, <3>1, <3>2 DEF DatedInv
    <2>10. CacheInv' /\ ViewInv'
      BY <2>1, MissedViews DEF TrackerInv
    <2> QED
      BY <1>4, <2>7, <2>8, <2>9, <2>10 DEF TrackerInv
  <1> QED
    BY <1>5, <1>6

LEMMA AdvanceFailsKeeps ==
    ASSUME TrackerInv, NEW a \in Agents, AdvanceStatusFails(a)
    PROVE  TrackerInv'
  <1>1. /\ adv' = [adv EXCEPT ![a].path = <<>>]
        /\ rows' = rows /\ req' = req /\ cache' = cache /\ shown' = shown /\ drawer' = drawer
    BY DEF AdvanceStatusFails
  <1>2. adv'[a].path = <<>> /\ \A b \in Agents \ {a} : adv'[b] = adv[b]
    BY <1>1 DEF TrackerInv, AdvanceInv
  <1>3. AdvanceInv'
    BY <1>1, EmptySeq DEF TrackerInv, AdvanceInv
  <1>4. DatedInv'
    BY <1>1, <1>2 DEF TrackerInv, DatedInv, AppliedDated
  <1>5. SameWaits
    BY <1>1 DEF SameWaits
  <1> QED
    BY <1>1, <1>3, <1>4, <1>5, SameViews DEF TrackerInv, RowsInv, RequestsInv, PageInv, CacheInv

-----------------------------------------------------------------------------
(* Reading, and the pages.                                                   *)

\* One query changes, soundly.
LEMMA OneQuery ==
    ASSUME CacheInv, ViewInv, NEW q \in Queries, NEW c \in QueryState(q),
           Sound(cache[q], Answer(q)) => Sound(c, Answer(q)),
           cache' = [cache EXCEPT ![q] = c], rows' = rows, SameWaits
    PROVE  CacheInv' /\ ViewInv'
  <1>1. cache'[q] = c /\ \A p \in Queries \ {q} : cache'[p] = cache[p]
    BY DEF CacheInv
  <1>2. cache' = [p \in Queries |-> cache'[p]]
    BY DEF CacheInv
  <1>3. \A p \in Queries : Answer(p)' = Answer(p)
    BY SameAnswer
  <1>4. CacheInv'
    BY <1>1, <1>2 DEF CacheInv
  <1> QED
    BY <1>1, <1>3, <1>4, SameTouched DEF ViewInv

\* Nothing of the server changes, nor does anyone stop waiting.
LEMMA PagesKeep ==
    ASSUME TrackerInv, rows' = rows, req' = req, adv' = adv, PageInv', CacheInv', ViewInv'
    PROVE  TrackerInv'
  BY DEF TrackerInv, RowsInv, RequestsInv, AdvanceInv, DatedInv, AppliedDated

LEMMA AnswerTyped ==
    ASSUME TrackerAssumption, RowsInv, NEW q \in Queries
    PROVE  Answer(q) \in QueryData(q) /\ Answer(q) \in [JobsOf(q) -> Statuses \cup {"absent"}]
  <1>1. JobsOf(q) \subseteq Jobs
    BY DEF JobsOf, Queries
  <1> QED
    BY <1>1 DEF Answer, QueryData, RowsInv

LEMMA FetchReadKeeps ==
    ASSUME TrackerAssumption, TrackerInv, NEW q \in Queries, FetchRead(q)
    PROVE  TrackerInv'
  <1> DEFINE c == cache[q]
             f == [c.fetch EXCEPT !.pc = "read", !.got = Answer(q)]
             d == [c EXCEPT !.fetch = f]
  <1>1. c \in QueryState(q) /\ c.fetch \in Fetches(q)
    BY QueryParts DEF TrackerInv, CacheInv
  <1>2. /\ cache' = [cache EXCEPT ![q] = d] /\ c.fetch.pc = "sent"
        /\ rows' = rows /\ req' = req /\ adv' = adv /\ shown' = shown /\ drawer' = drawer
    <2>1. /\ cache' = [cache EXCEPT ![q].fetch = f] /\ c.fetch.pc = "sent"
          /\ rows' = rows /\ req' = req /\ adv' = adv /\ shown' = shown /\ drawer' = drawer
      BY DEF FetchRead
    <2>2. [cache EXCEPT ![q].fetch = f]
             = [cache EXCEPT ![q] = d]
      BY <1>1 DEF TrackerInv, CacheInv, QueryState, Fetches
    <2> QED
      BY <2>1, <2>2
  <1>3. f \in Fetches(q) /\ f.got = Answer(q)
    <2>1. Answer(q) \in QueryData(q)
      BY AnswerTyped DEF TrackerInv
    <2> QED
      BY <1>1, <2>1 DEF Fetches, QueryData
  <1> HIDE DEF f
  <1>4. d \in QueryState(q) /\ d.data = c.data /\ d.invalid = c.invalid /\ d.behind = c.behind /\ d.fetch = f
    BY <1>1, <1>3 DEF QueryState
  <1>5. Sound(c, Answer(q)) => Sound(d, Answer(q))
    BY <1>3, <1>4 DEF Sound
  <1> HIDE DEF c, d
  <1>6. SameWaits
    BY <1>2 DEF SameWaits
  <1>7. CacheInv' /\ ViewInv'
    BY <1>2, <1>4, <1>5, <1>6, OneQuery DEF TrackerInv, c
  <1> QED
    BY <1>2, <1>7, PagesKeep DEF TrackerInv, PageInv

LEMMA FetchDoneKeeps ==
    ASSUME TrackerInv, NEW q \in Queries, FetchDone(q)
    PROVE  TrackerInv'
  <1> DEFINE c == cache[q]
             s == SetData(c, c.fetch.got)
             d == [s EXCEPT !.behind = c.fetch.late, !.fetch = NoFetch]
  <1>1. c \in QueryState(q) /\ c.fetch.got \in QueryData(q) /\ c.fetch.late \in BOOLEAN
        /\ NoFetch \in Fetches(q)
    BY QueryParts DEF TrackerInv, CacheInv
  <1>2. /\ cache' = [cache EXCEPT ![q] = d] /\ c.fetch.pc = "read"
        /\ rows' = rows /\ req' = req /\ adv' = adv /\ shown' = shown /\ drawer' = drawer
    BY DEF FetchDone, TrackerInv, CacheInv
  <1>3. s \in QueryState(q) /\ s.data = c.fetch.got /\ ~s.invalid
    <2>1. s \in QueryState(q)
      BY <1>1, SetDataTyped
    <2>2. s.data = c.fetch.got /\ s.invalid = FALSE
      BY <1>1 DEF SetData, QueryState
    <2> QED
      BY <2>1, <2>2
  <1> HIDE DEF s
  <1>4. d \in QueryState(q) /\ d.data = c.fetch.got /\ d.behind = c.fetch.late /\ d.fetch = NoFetch
    BY <1>1, <1>3 DEF QueryState
  <1>5. Sound(c, Answer(q)) => Sound(d, Answer(q))
    BY <1>2, <1>4 DEF Sound, NoFetch
  <1> HIDE DEF c, d
  <1>6. SameWaits
    BY <1>2 DEF SameWaits
  <1>7. CacheInv' /\ ViewInv'
    BY <1>2, <1>4, <1>5, <1>6, OneQuery DEF TrackerInv, c
  <1> QED
    BY <1>2, <1>7, PagesKeep DEF TrackerInv, PageInv

LEMMA FetchFailsKeeps ==
    ASSUME TrackerInv, NEW q \in Queries, FetchFails(q)
    PROVE  TrackerInv'
  <1> DEFINE c == cache[q]
             d == [c EXCEPT !.fetch = NoFetch]
  <1>1. c \in QueryState(q) /\ NoFetch \in Fetches(q)
    BY QueryParts DEF TrackerInv, CacheInv
  <1>2. /\ cache' = [cache EXCEPT ![q] = d]
        /\ rows' = rows /\ req' = req /\ adv' = adv /\ shown' = shown /\ drawer' = drawer
    BY DEF FetchFails, TrackerInv, CacheInv
  <1>3. d \in QueryState(q) /\ d.data = c.data /\ d.invalid = c.invalid /\ d.behind = c.behind
        /\ d.fetch = NoFetch
    BY <1>1 DEF QueryState
  <1>4. Sound(c, Answer(q)) => Sound(d, Answer(q))
    BY <1>3 DEF Sound, NoFetch
  <1> HIDE DEF c, d
  <1>5. SameWaits
    BY <1>2 DEF SameWaits
  <1>6. CacheInv' /\ ViewInv'
    BY <1>2, <1>3, <1>4, <1>5, OneQuery DEF TrackerInv, c
  <1> QED
    BY <1>2, <1>6, PagesKeep DEF TrackerInv, PageInv

LEMMA OpenPageKeeps ==
    ASSUME TrackerInv, OpenPage
    PROVE  TrackerInv'
  <1>1. PICK old \in BOOLEAN : cache' = [cache EXCEPT ![List] = Mounted(@, old)]
    BY DEF OpenPage
  <1>2. /\ shown' = TRUE /\ drawer' = drawer
        /\ rows' = rows /\ req' = req /\ adv' = adv
    BY DEF OpenPage
  <1>3. PICK c : c = Mounted(cache[List], old)
    OBVIOUS
  <1>4. List \in Queries /\ cache[List] \in QueryState(List)
    BY DEF Queries, TrackerInv, CacheInv
  <1>5. c \in QueryState(List) /\ (Sound(cache[List], Answer(List)) => Sound(c, Answer(List)))
    BY <1>3, <1>4, MountedIs
  <1>6. cache' = [cache EXCEPT ![List] = c] /\ SameWaits
    BY <1>1, <1>2, <1>3 DEF SameWaits
  <1>7. CacheInv' /\ ViewInv'
    BY <1>2, <1>4, <1>5, <1>6, OneQuery DEF TrackerInv
  <1> QED
    BY <1>2, <1>7, PagesKeep DEF TrackerInv, PageInv

LEMMA OpenDrawerKeeps ==
    ASSUME TrackerInv, NEW j \in Jobs, OpenDrawer(j)
    PROVE  TrackerInv'
  <1>1. PICK old \in BOOLEAN : cache' = [cache EXCEPT ![j] = Mounted(@, old)]
    BY DEF OpenDrawer
  <1>2. /\ shown /\ shown' = shown /\ drawer' = j
        /\ rows' = rows /\ req' = req /\ adv' = adv
    BY DEF OpenDrawer
  <1>3. PICK c : c = Mounted(cache[j], old)
    OBVIOUS
  <1>4. j \in Queries /\ cache[j] \in QueryState(j)
    BY DEF Queries, TrackerInv, CacheInv
  <1>5. c \in QueryState(j) /\ (Sound(cache[j], Answer(j)) => Sound(c, Answer(j)))
    BY <1>3, <1>4, MountedIs
  <1>6. cache' = [cache EXCEPT ![j] = c] /\ SameWaits
    BY <1>1, <1>2, <1>3 DEF SameWaits
  <1>7. CacheInv' /\ ViewInv'
    BY <1>2, <1>4, <1>5, <1>6, OneQuery DEF TrackerInv
  <1> QED
    BY <1>2, <1>7, PagesKeep DEF TrackerInv, PageInv

LEMMA CloseDrawerKeeps ==
    ASSUME TrackerInv, CloseDrawer
    PROVE  TrackerInv'
  <1>1. /\ drawer' = Nil /\ shown' = shown
        /\ rows' = rows /\ req' = req /\ adv' = adv /\ cache' = cache
    BY DEF CloseDrawer
  <1>2. SameWaits
    BY <1>1 DEF SameWaits
  <1> QED
    BY <1>1, <1>2, SameViews, PagesKeep DEF TrackerInv, PageInv, CacheInv

LEMMA LeavePageKeeps ==
    ASSUME TrackerInv, LeavePage
    PROVE  TrackerInv'
  <1>1. /\ shown' = FALSE /\ drawer' = Nil
        /\ rows' = rows /\ adv' = adv /\ cache' = cache
        /\ req' = [i \in Requests |-> IF Waiting(i) THEN [req[i] EXCEPT !.heard = "left"] ELSE req[i]]
    BY DEF LeavePage
  <1>2. ASSUME NEW i \in Requests
        PROVE  /\ RequestFits(req'[i]) /\ (req'[i].heard = "nobody" <=> req[i].heard = "nobody")
               /\ req'[i].job = req[i].job /\ req'[i].pc = req[i].pc /\ req'[i].to = req[i].to
               /\ req'[i].dated = req[i].dated
    <2>1. RequestFits(req[i]) /\ req[i] \in Mutation
      BY DEF TrackerInv, RequestsInv, RequestFits
    <2>2. CASE Waiting(i)
      <3> DEFINE r == [req[i] EXCEPT !.heard = "left"]
      <3>1. req'[i] = r
        BY <1>1, <2>2
      <3>2. /\ r \in Mutation /\ r.kind = req[i].kind /\ r.job = req[i].job /\ r.to = req[i].to
            /\ r.undo = req[i].undo /\ r.heard = "left" /\ r.pc = req[i].pc /\ r.dated = req[i].dated
        BY <2>1 DEF Mutation
      <3> HIDE DEF r
      <3>3. RequestFits(r)
        BY <2>1, <2>2, <3>2 DEF RequestFits, UndoFits, Waiting
      <3> QED
        BY <2>2, <3>1, <3>2, <3>3 DEF Waiting
    <2>3. CASE ~Waiting(i)
      BY <1>1, <2>1, <2>3
    <2> QED
      BY <2>2, <2>3
  <1>3. req' = [i \in Requests |-> req'[i]]
    BY <1>1
  <1>4. RequestsInv' /\ SameWaits
    BY <1>2, <1>3 DEF RequestsInv, SameWaits
  <1>5. ViewInv'
    BY <1>1, <1>4, SameViews DEF TrackerInv
  <1>6. DatedInv'
    BY <1>1, <1>2 DEF TrackerInv, DatedInv, AppliedDated
  <1> QED
    BY <1>1, <1>4, <1>5, <1>6 DEF TrackerInv, RowsInv, AdvanceInv, PageInv, CacheInv

-----------------------------------------------------------------------------
(* What the user does, and the answers.                                      *)

LEMMA JobQueries ==
    ASSUME TrackerAssumption, NEW j \in Jobs
    PROVE  j \in Queries /\ List \in Queries /\ j # List /\ j \in JobsOf(j) /\ j \in JobsOf(List)
  BY DEF TrackerAssumption, Queries, JobsOf

\* One request is replaced.
LEMMA OneRequest ==
    ASSUME RequestsInv, NEW i \in Requests, NEW r, RequestFits(r), req' = [req EXCEPT ![i] = r]
    PROVE  RequestsInv' /\ req'[i] = r /\ \A k \in Requests \ {i} : req'[k] = req[k]
  <1>1. req'[i] = r /\ \A k \in Requests \ {i} : req'[k] = req[k]
    BY DEF RequestsInv
  <1>2. req' = [k \in Requests |-> req'[k]]
    BY DEF RequestsInv
  <1> QED
    BY <1>1, <1>2 DEF RequestsInv

\* A request begins or ends, and with it what it has changed of the list and
\* of its job's detail.
LEMMA RequestChanges ==
    ASSUME TrackerInv, NEW i \in Requests, NEW r, NEW j \in Jobs,
           RequestFits(r), req' = [req EXCEPT ![i] = r],
           r.pc = "checked" => /\ req[i].pc = "checked" /\ r.job = req[i].job
                               /\ r.to = req[i].to /\ r.dated = req[i].dated,
           req[i].heard = "nobody" \/ req[i].job = j,
           cache' = [q \in Queries |-> cache'[q]],
           \A q \in Queries : cache'[q] \in QueryState(q),
           \A q \in Queries \ {List, j} : cache'[q] = cache[q],
           \/ r.heard # "nobody" /\ r.job = j
           \/ \A q \in {List, j} : \A ans : Sound(cache'[q], ans),
           rows' = rows, adv' = adv, PageInv'
    PROVE  TrackerInv'
  <1>1. RequestsInv' /\ req'[i] = r /\ \A k \in Requests \ {i} : req'[k] = req[k]
    BY OneRequest DEF TrackerInv
  <1>2. CacheInv'
    BY DEF CacheInv
  <1>3. ASSUME NEW q \in Queries, ~Touched(q)'
        PROVE  Sound(cache'[q], Answer(q)')
    <2>1. CASE q \in {List, j}
      <3>1. ~Touches(r, q)
        BY <1>1, <1>3 DEF Touched
      <3> QED
        BY <2>1, <3>1 DEF Touches
    <2>2. CASE q \notin {List, j}
      <3>1. ~Touches(req[i], q)
        BY <2>2 DEF Touches
      <3>2. \A k \in Requests \ {i} : ~Touches(req[k], q)
        BY <1>1, <1>3 DEF Touched
      <3>3. ~Touched(q)
        BY <3>1, <3>2 DEF Touched
      <3>4. Answer(q)' = Answer(q)
        BY SameAnswer
      <3> QED
        BY <2>2, <3>3, <3>4 DEF TrackerInv, ViewInv
    <2> QED
      BY <2>1, <2>2
  <1>4. ViewInv'
    BY <1>3 DEF ViewInv
  <1>5. DatedInv'
    <2>1. \A k \in Requests : req'[k].pc = "checked" => Dates(rows[req'[k].job], req'[k].to, req'[k].dated)
      BY <1>1 DEF TrackerInv, DatedInv
    <2> QED
      BY <2>1 DEF TrackerInv, DatedInv, AppliedDated
  <1> QED
    BY <1>1, <1>2, <1>4, <1>5 DEF TrackerInv, RowsInv, AdvanceInv

LEMMA UpdateStatusKeeps ==
    ASSUME TrackerAssumption, TrackerInv, NEW j \in Jobs, NEW to \in Statuses, NEW by \in {"board", "drawer"},
           UpdateStatus(j, to, by)
    PROVE  TrackerInv'
  <1> DEFINE c == [q \in Queries |-> IF q \in {List, j} THEN Cancelled(cache[q]) ELSE cache[q]]
  <1>1. PICK i \in Requests :
           /\ req[i] = NoRequest
           /\ req' = [req EXCEPT ![i] = [kind |-> "status", pc |-> "sent", job |-> j, to |-> to,
                                         dated |-> FALSE, heard |-> by, undo |-> c[j].data]]
           /\ cache' = [c EXCEPT ![j] = Edited(@, j, to), ![List] = Edited(@, j, to)]
           /\ rows' = rows /\ adv' = adv /\ shown' = shown /\ drawer' = drawer
    BY DEF UpdateStatus
  <1>2. j \in Queries /\ List \in Queries /\ j # List /\ j \in JobsOf(j) /\ j \in JobsOf(List)
    BY JobQueries
  <1>3. /\ c = [q \in Queries |-> c[q]] /\ \A q \in Queries : c[q] \in QueryState(q)
        /\ \A q \in Queries \ {List, j} : c[q] = cache[q]
    BY CancelledTyped DEF TrackerInv, CacheInv
  <1> HIDE DEF c
  <1>4. PICK e : e = Edited(c[j], j, to)
    OBVIOUS
  <1>5. PICK l : l = Edited(c[List], j, to)
    OBVIOUS
  <1>6. e \in QueryState(j) /\ l \in QueryState(List)
    <2>1. c[j] \in QueryState(j) /\ c[List] \in QueryState(List) /\ to \in Statuses \cup {"absent"}
      BY <1>2, <1>3
    <2> QED
      BY <1>2, <1>4, <1>5, <2>1, EditedTyped
  <1>7. cache' = [c EXCEPT ![j] = e, ![List] = l]
    BY <1>1, <1>2, <1>3, <1>4, <1>5
  <1>8. /\ cache' = [q \in Queries |-> cache'[q]]
        /\ cache'[j] = e /\ cache'[List] = l /\ \A q \in Queries \ {List, j} : cache'[q] = cache[q]
    BY <1>2, <1>3, <1>7
  <1>9. \A q \in Queries : cache'[q] \in QueryState(q)
    <2>1. \A q \in Queries \ {List, j} : cache[q] \in QueryState(q)
      BY DEF TrackerInv, CacheInv
    <2> QED
      BY <1>6, <1>8, <2>1
  <1>10. PICK u : u = c[j].data
    OBVIOUS
  <1>11. u \in QueryData(j)
    BY <1>2, <1>3, <1>10, QueryParts
  <1> DEFINE r == [kind |-> "status", pc |-> "sent", job |-> j, to |-> to,
                   dated |-> FALSE, heard |-> by, undo |-> u]
  <1>12. RequestFits(r)
    <2>1. r \in Mutation
      BY <1>2, <1>11 DEF Mutation, QueryData
    <2> QED
      BY <1>11, <2>1 DEF RequestFits, UndoFits
  <1>13. r.heard # "nobody" /\ r.job = j /\ r.pc # "checked"
    OBVIOUS
  <1>14. req' = [req EXCEPT ![i] = r]
    BY <1>1, <1>10
  <1> HIDE DEF r
  <1>15. req[i].heard = "nobody"
    BY <1>1 DEF NoRequest
  <1>16. PageInv'
    BY <1>1 DEF TrackerInv, PageInv
  <1> QED
    BY <1>1, <1>8, <1>9, <1>12, <1>13, <1>14, <1>15, <1>16, RequestChanges

LEMMA MoveCardKeeps ==
    ASSUME TrackerAssumption, TrackerInv, MoveCard
    PROVE  TrackerInv'
  <1>1. PICK m \in BoardMoves : UpdateStatus(m[1], m[2], "board")
    BY DEF MoveCard
  <1>2. m[1] \in Jobs /\ m[2] \in Statuses
    BY DEF BoardMoves, BOARD_COLS, Statuses
  <1> QED
    BY <1>1, <1>2, UpdateStatusKeeps

\* The drawer shows a job of the list.
LEMMA DrawerJob ==
    ASSUME TrackerAssumption, TrackerInv, InDrawer # "absent"
    PROVE  drawer \in Jobs /\ InDrawer \in Statuses
  <1>1. drawer # Nil /\ cache[drawer].data # Nil /\ InDrawer = cache[drawer].data[drawer]
    BY DEF InDrawer
  <1>2. drawer \in Jobs
    BY <1>1 DEF TrackerInv, PageInv
  <1>3. drawer \in Queries /\ drawer \in JobsOf(drawer)
    BY <1>2, JobQueries
  <1>4. cache[drawer] \in QueryState(drawer)
    BY <1>3 DEF TrackerInv, CacheInv
  <1>5. cache[drawer].data \in [JobsOf(drawer) -> Statuses \cup {"absent"}]
    BY <1>1, <1>4, QueryParts DEF QueryData
  <1> QED
    BY <1>1, <1>2, <1>3, <1>5

LEMMA HandleStatusChangeKeeps ==
    ASSUME TrackerAssumption, TrackerInv, HandleStatusChange
    PROVE  TrackerInv'
  <1>1. PICK m \in DrawerMoves : UpdateStatus(m[1], m[2], "drawer")
    BY DEF HandleStatusChange
  <1>2. InDrawer # "absent" /\ m \in {drawer} \X allowedTransitions[InDrawer]
    BY DEF DrawerMoves
  <1>3. drawer \in Jobs /\ InDrawer \in Statuses
    BY <1>2, DrawerJob
  <1>4. allowedTransitions[InDrawer] \subseteq Statuses
    BY <1>3 DEF allowedTransitions, Statuses
  <1>5. m[1] \in Jobs /\ m[2] \in Statuses
    BY <1>2, <1>3, <1>4
  <1> QED
    BY <1>1, <1>5, UpdateStatusKeeps

LEMMA HandleDeleteKeeps ==
    ASSUME TrackerAssumption, TrackerInv, HandleDelete
    PROVE  TrackerInv'
  <1>1. PICK list : list = Cancelled(cache[List])
    OBVIOUS
  <1>2. PICK i \in Requests :
           /\ req[i] = NoRequest
           /\ req' = [req EXCEPT ![i] = [NoRequest EXCEPT !.kind = "delete", !.pc = "sent", !.job = drawer,
                                                          !.heard = "drawer", !.undo = list.data]]
           /\ cache' = [cache EXCEPT ![List] = Edited(list, drawer, "absent")]
           /\ rows' = rows /\ adv' = adv /\ shown' = shown /\ drawer' = drawer
    BY <1>1 DEF HandleDelete
  <1>3. PICK j : j = drawer
    OBVIOUS
  <1>4. j \in Jobs
    BY <1>3, DrawerJob DEF HandleDelete
  <1>5. j \in Queries /\ List \in Queries /\ j # List /\ j \in JobsOf(List)
    BY <1>4, JobQueries
  <1>6. list \in QueryState(List)
    BY <1>1, <1>5, CancelledTyped DEF TrackerInv, CacheInv
  <1>7. PICK l : l = Edited(list, j, "absent")
    OBVIOUS
  <1>8. l \in QueryState(List)
    BY <1>5, <1>6, <1>7, EditedTyped
  <1>9. cache' = [cache EXCEPT ![List] = l]
    BY <1>2, <1>3, <1>7
  <1>10. /\ cache' = [q \in Queries |-> cache'[q]]
         /\ cache'[List] = l /\ \A q \in Queries \ {List, j} : cache'[q] = cache[q]
         /\ cache'[j] = cache[j]
    BY <1>5, <1>9 DEF TrackerInv, CacheInv
  <1>11. \A q \in Queries : cache'[q] \in QueryState(q)
    <2>1. \A q \in Queries : cache[q] \in QueryState(q)
      BY DEF TrackerInv, CacheInv
    <2> QED
      BY <1>8, <1>10, <2>1
  <1>12. PICK u : u = list.data
    OBVIOUS
  <1>13. u \in QueryData(List)
    BY <1>6, <1>12, QueryParts
  <1>14. PICK r : r = [NoRequest EXCEPT !.kind = "delete", !.pc = "sent", !.job = j,
                                        !.heard = "drawer", !.undo = u]
    OBVIOUS
  <1>15. /\ r \in Mutation /\ r.kind = "delete" /\ r.job = j /\ r.heard = "drawer" /\ r.pc = "sent"
         /\ r.undo = u
    BY <1>4, <1>5, <1>13, <1>14 DEF NoRequest, Mutation, QueryData
  <1>16. RequestFits(r)
    BY <1>4, <1>13, <1>15 DEF RequestFits, UndoFits
  <1>17. req' = [req EXCEPT ![i] = r]
    BY <1>2, <1>3, <1>12, <1>14
  <1>18. req[i].heard = "nobody"
    BY <1>2 DEF NoRequest
  <1>19. PageInv'
    BY <1>2 DEF TrackerInv, PageInv
  <1> QED
    BY <1>2, <1>4, <1>10, <1>11, <1>15, <1>16, <1>17, <1>18, <1>19, RequestChanges

\* Whoever asks, and whatever the answer: the list and the detail are fetched
\* again or known to be old; other queries are left alone.
LEMMA SettledIs ==
    ASSUME TrackerAssumption, CacheInv, NEW i \in Requests, RequestFits(req[i]), req[i].kind # "none",
           NEW ok \in BOOLEAN, NEW open, shown \in BOOLEAN, NEW d, d = Settled(i, ok, open)
    PROVE  /\ d = [q \in Queries |-> d[q]]
           /\ \A q \in Queries : d[q] \in QueryState(q)
           /\ \A q \in {List, req[i].job} : \A ans : Sound(d[q], ans)
           /\ \A q \in Queries \ {List, req[i].job} : d[q] = cache[q]
  <1> DEFINE j == req[i].job
             rolled == RolledBack(i, ok)
  <1>1. j \in Jobs /\ req[i].kind \in {"status", "delete"}
    BY RequestParts DEF RequestFits
  <1>2. j \in Queries /\ List \in Queries /\ j # List
    BY <1>1, JobQueries
  <1>3. /\ rolled = [q \in Queries |-> rolled[q]]
        /\ \A q \in Queries : rolled[q] \in QueryState(q)
        /\ \A q \in Queries \ {List, j} : rolled[q] = cache[q]
    <2>1. \A q \in Queries : cache[q] \in QueryState(q)
      BY DEF CacheInv
    <2>2. CASE ok \/ req[i].undo = Nil
      <3>1. rolled = cache
        BY <2>2 DEF RolledBack
      <3> QED
        BY <2>1, <3>1 DEF CacheInv
    <2>3. CASE ~(ok \/ req[i].undo = Nil) /\ req[i].kind = "status"
      <3>1. req[i].undo \in QueryData(j) /\ cache[j] \in QueryState(j)
        BY <1>2, <2>1, <2>3 DEF RequestFits, UndoFits
      <3>2. PICK c : c = SetData(cache[j], req[i].undo)
        OBVIOUS
      <3>3. c \in QueryState(j)
        BY <3>1, <3>2, SetDataTyped
      <3>4. rolled = [cache EXCEPT ![j] = c]
        BY <2>3, <3>2 DEF RolledBack
      <3> QED
        BY <1>2, <2>1, <3>3, <3>4 DEF CacheInv
    <2>4. CASE ~(ok \/ req[i].undo = Nil) /\ req[i].kind = "delete"
      <3>1. req[i].undo \in QueryData(List) /\ cache[List] \in QueryState(List)
        BY <1>2, <2>1, <2>4 DEF RequestFits, UndoFits
      <3>2. PICK c : c = SetData(cache[List], req[i].undo)
        OBVIOUS
      <3>3. c \in QueryState(List)
        BY <3>1, <3>2, SetDataTyped
      <3>4. rolled = [cache EXCEPT ![List] = c]
        BY <2>4, <3>2 DEF RolledBack
      <3> QED
        BY <1>2, <2>1, <3>3, <3>4 DEF CacheInv
    <2> QED
      BY <1>1, <2>2, <2>3, <2>4
  <1>4. PICK detail : detail = IF req[i].kind = "status" THEN Invalidated(rolled[j], open = j)
                               ELSE IF open = j THEN Started(Fresh) ELSE Fresh
    OBVIOUS
  <1>5. PICK list : list = Invalidated(rolled[List], shown)
    OBVIOUS
  <1>6. Settled(i, ok, open) = [rolled EXCEPT ![j] = detail, ![List] = list]
    BY <1>2, <1>3, <1>4, <1>5 DEF Settled
  <1> HIDE DEF rolled
  <1>7. list \in QueryState(List) /\ \A ans : Sound(list, ans)
    BY <1>2, <1>3, <1>5, InvalidatedIs
  <1>8. detail \in QueryState(j) /\ \A ans : Sound(detail, ans)
    <2>1. CASE req[i].kind = "status"
      <3>1. rolled[j] \in QueryState(j)
        BY <1>2, <1>3
      <3>2. detail = Invalidated(rolled[j], open = j)
        BY <1>4, <2>1
      <3> DEFINE o == open = j
      <3>3. o \in BOOLEAN /\ detail = Invalidated(rolled[j], o)
        BY <3>2
      <3> HIDE DEF o
      <3> QED
        BY <3>1, <3>3, InvalidatedIs
    <2>2. Fresh \in QueryState(j) /\ \A ans : Sound(Fresh, ans)
      <3>1. Fresh \in QueryState(j)
        BY DEF QueryState, QueryData, Fetches, NoFetch, Fresh
      <3>2. \A ans : Sound(Fresh, ans)
        BY DEF Fresh, NoFetch, Sound
      <3> QED
        BY <3>1, <3>2
    <2>3. CASE req[i].kind # "status" /\ open = j
      <3>1. detail = Started(Fresh)
        BY <1>4, <2>3
      <3> QED
        BY <2>2, <3>1, StartedIs
    <2>4. CASE req[i].kind # "status" /\ open # j
      BY <1>4, <2>2, <2>4
    <2> QED
      BY <2>1, <2>3, <2>4
  <1>9. /\ d = [q \in Queries |-> d[q]]
        /\ d[j] = detail /\ d[List] = list
        /\ \A q \in Queries \ {List, j} : d[q] = rolled[q]
    BY <1>2, <1>3, <1>6
  <1> QED
    BY <1>3, <1>7, <1>8, <1>9

LEMMA AnsweredKeeps ==
    ASSUME TrackerAssumption, TrackerInv, NEW i \in Requests, Answered(i)
    PROVE  TrackerInv'
  <1> DEFINE ok == req[i].pc = "ok"
             j == req[i].job
  <1>1. PICK open : open = IF ok /\ req[i].kind = "delete" /\ req[i].heard = "drawer" THEN Nil ELSE drawer
    OBVIOUS
  <1>2. /\ req[i].pc \in {"ok", "refused"} /\ drawer' = open
        /\ cache' = Settled(i, ok, open) /\ req' = [req EXCEPT ![i] = NoRequest]
        /\ rows' = rows /\ adv' = adv /\ shown' = shown
    BY <1>1 DEF Answered
  <1>3. RequestFits(req[i]) /\ req[i].kind # "none" /\ j \in Jobs
    BY <1>2 DEF TrackerInv, RequestsInv, RequestFits
  <1>4. ok \in BOOLEAN /\ shown \in BOOLEAN /\ CacheInv
    BY DEF TrackerInv, PageInv
  <1> HIDE DEF ok
  <1>5. /\ cache' = [q \in Queries |-> cache'[q]]
        /\ \A q \in Queries : cache'[q] \in QueryState(q)
        /\ \A q \in {List, j} : \A ans : Sound(cache'[q], ans)
        /\ \A q \in Queries \ {List, j} : cache'[q] = cache[q]
    <2>1. PICK d : d = cache'
      OBVIOUS
    <2>2. d = Settled(i, ok, open)
      BY <1>2, <2>1
    <2> QED
      BY <1>3, <1>4, <2>1, <2>2, SettledIs
  <1>6. PageInv'
    BY <1>1, <1>2 DEF TrackerInv, PageInv
  <1>7. NoRequest.pc # "checked"
    BY DEF NoRequest
  <1> QED
    BY <1>2, <1>3, <1>5, <1>6, <1>7, NoRequestFits, RequestChanges

LEMMA AnswerLostKeeps ==
    ASSUME TrackerAssumption, TrackerInv, NEW i \in Requests, AnswerLost(i)
    PROVE  TrackerInv'
  <1> DEFINE j == req[i].job
  <1>1. PICK r : r = IF req[i].pc \in {"ok", "refused"} THEN NoRequest
                     ELSE [req[i] EXCEPT !.heard = "nobody", !.undo = Nil]
    OBVIOUS
  <1>2. /\ req[i].kind # "none" /\ req' = [req EXCEPT ![i] = r]
        /\ cache' = Settled(i, FALSE, drawer)
        /\ rows' = rows /\ adv' = adv /\ shown' = shown /\ drawer' = drawer
    BY <1>1 DEF AnswerLost, TrackerInv, RequestsInv
  <1>3. RequestFits(req[i]) /\ j \in Jobs /\ req[i] \in Mutation
    BY <1>2 DEF TrackerInv, RequestsInv, RequestFits
  <1>4. RequestFits(r) /\ (r.pc = "checked" => /\ req[i].pc = "checked" /\ r.job = req[i].job
                                               /\ r.to = req[i].to /\ r.dated = req[i].dated)
    <2>1. CASE req[i].pc \in {"ok", "refused"}
      <3>1. r = NoRequest
        BY <1>1, <2>1
      <3> QED
        BY <3>1, NoRequestFits DEF NoRequest
    <2>2. CASE req[i].pc \notin {"ok", "refused"}
      <3>1. r = [req[i] EXCEPT !.heard = "nobody", !.undo = Nil]
        BY <1>1, <2>2
      <3>2. /\ r \in Mutation /\ r.kind = req[i].kind /\ r.job = req[i].job /\ r.to = req[i].to
            /\ r.undo = Nil /\ r.heard = "nobody" /\ r.pc = req[i].pc /\ r.dated = req[i].dated
        BY <1>3, <3>1 DEF Mutation
      <3> QED
        BY <1>2, <1>3, <3>2 DEF RequestFits, UndoFits, QueryData
    <2> QED
      BY <2>1, <2>2
  <1>5. shown \in BOOLEAN /\ CacheInv
    BY DEF TrackerInv, PageInv
  <1>6. /\ cache' = [q \in Queries |-> cache'[q]]
        /\ \A q \in Queries : cache'[q] \in QueryState(q)
        /\ \A q \in {List, j} : \A ans : Sound(cache'[q], ans)
        /\ \A q \in Queries \ {List, j} : cache'[q] = cache[q]
    <2>1. PICK d : d = cache'
      OBVIOUS
    <2>2. d = Settled(i, FALSE, drawer)
      BY <1>2, <2>1
    <2>3. PICK open : open = drawer
      OBVIOUS
    <2>4. PICK no \in BOOLEAN : d = Settled(i, no, open)
      BY <2>2, <2>3
    <2>5. req[i].kind # "none"
      BY <1>2
    <2>6. /\ d = [q \in Queries |-> d[q]]
          /\ \A q \in Queries : d[q] \in QueryState(q)
          /\ \A q \in {List, j} : \A ans : Sound(d[q], ans)
          /\ \A q \in Queries \ {List, j} : d[q] = cache[q]
      BY <1>3, <1>5, <2>4, <2>5, SettledIs
    <2> QED
      BY <2>1, <2>6
  <1>7. PageInv'
    BY <1>2 DEF TrackerInv, PageInv
  <1> QED
    BY <1>2, <1>3, <1>4, <1>6, <1>7, RequestChanges

-----------------------------------------------------------------------------
(* The invariant, and what follows from it.                                  *)

LEMMA TrackerInitially ==
    ASSUME TrackerAssumption, TrackerInit
    PROVE  TrackerInv
  <1>1. RowsInv /\ AppliedDated
    <2>1. \A j \in Jobs : \E s \in {"not_applied", "applied"} :
             rows[j] = [status |-> s, dated |-> s # "not_applied", gone |-> FALSE]
      BY DEF TrackerInit
    <2>2. rows = [j \in Jobs |-> rows[j]]
      BY DEF TrackerInit
    <2>3. \A j \in Jobs : /\ rows[j] \in [status : Statuses, dated : BOOLEAN, gone : BOOLEAN]
                          /\ rows[j].status # "not_applied" => rows[j].dated
      <3> SUFFICES ASSUME NEW j \in Jobs
                   PROVE  /\ rows[j] \in [status : Statuses, dated : BOOLEAN, gone : BOOLEAN]
                          /\ rows[j].status # "not_applied" => rows[j].dated
        OBVIOUS
      <3>1. PICK s \in {"not_applied", "applied"} :
               rows[j] = [status |-> s, dated |-> s # "not_applied", gone |-> FALSE]
        BY <2>1
      <3> DEFINE b == s # "not_applied"
      <3>2. s \in Statuses /\ b \in BOOLEAN /\ (s # "not_applied" => b)
        BY DEF Statuses
      <3>3. rows[j] = [status |-> s, dated |-> b, gone |-> FALSE]
        BY <3>1
      <3> HIDE DEF b
      <3> QED
        BY <3>2, <3>3
    <2> QED
      BY <2>2, <2>3 DEF RowsInv, AppliedDated
  <1>2. RequestsInv /\ \A i \in Requests : req[i].pc # "checked"
    BY NoRequestFits DEF TrackerInit, RequestsInv, NoRequest
  <1>3. AdvanceInv /\ \A a \in Agents : adv[a].path = <<>>
    BY EmptySeq DEF TrackerInit, AdvanceInv
  <1>4. PageInv
    BY DEF TrackerInit, PageInv
  <1>5. CacheInv /\ ViewInv
    <2>1. \A q \in Queries : cache[q] = Fresh
      BY DEF TrackerInit
    <2>2. \A q \in Queries : Fresh \in QueryState(q)
      BY DEF QueryState, QueryData, Fetches, NoFetch, Fresh
    <2>3. \A ans : Sound(Fresh, ans)
      BY DEF Fresh, NoFetch, Sound
    <2> QED
      BY <2>1, <2>2, <2>3 DEF TrackerInit, CacheInv, ViewInv
  <1> QED
    BY <1>1, <1>2, <1>3, <1>4, <1>5 DEF TrackerInv, DatedInv

LEMMA TrackerStep ==
    ASSUME TrackerAssumption, TrackerInv, [TrackerNext]_trackerVars
    PROVE  TrackerInv'
  <1>1. CASE UNCHANGED trackerVars
    <2>1. /\ rows' = rows /\ req' = req /\ adv' = adv /\ cache' = cache
          /\ shown' = shown /\ drawer' = drawer
      BY <1>1 DEF trackerVars
    <2>2. SameWaits
      BY <2>1 DEF SameWaits
    <2> QED
      BY <2>1, <2>2, SameViews, PagesKeep DEF TrackerInv, PageInv, CacheInv
  <1>2. CASE UserStep
    BY <1>2, MoveCardKeeps, HandleStatusChangeKeeps, HandleDeleteKeeps, OpenPageKeeps,
       LeavePageKeeps, CloseDrawerKeeps, OpenDrawerKeeps DEF UserStep
  <1>3. CASE Client
    BY <1>3, AnsweredKeeps, AnswerLostKeeps, FetchDoneKeeps, FetchFailsKeeps DEF Client
  <1>4. CASE Server
    BY <1>4, CheckTransitionKeeps, WriteStatusKeeps, SoftDeleteJobKeeps, QueryFailsKeeps,
       AdvanceStepKeeps, AdvanceFailsKeeps, BeginAdvanceKeeps, FetchReadKeeps DEF Server
  <1> QED
    BY <1>1, <1>2, <1>3, <1>4 DEF TrackerNext

LEMMA TrackerAlways == TrackerSpec => []TrackerInv
  <1>1. TrackerInit => TrackerInv
    BY TrackerInitially, TrackerAssumption
  <1>2. TrackerInv /\ [TrackerNext]_trackerVars => TrackerInv'
    BY TrackerStep, TrackerAssumption
  <1> QED
    BY <1>1, <1>2, PTL DEF TrackerSpec

(* A job that left "not applied" has the date it was applied, for every      *)
(* number of jobs, moves in flight and agents (job/service.go UpdateStatus,  *)
(* job/agent.go AdvanceStatus): a writer decides on a row read earlier, and  *)
(* no writer ever takes a date away.                                         *)
THEOREM DatesAreKept == TrackerSpec => []AppliedDated
  <1>1. TrackerInv => AppliedDated
    BY DEF TrackerInv, DatedInv
  <1> QED
    BY <1>1, TrackerAlways, PTL

(* When the client waits for no answer, a query with data that is neither    *)
(* invalidated nor behind shows what the server has (hooks/useJobs.ts).      *)
THEOREM ShownIsStored == TrackerSpec => []ViewsSettle
  <1>1. TrackerInv => ViewsSettle
    <2> SUFFICES ASSUME TrackerInv, \A i \in Requests : ~Waiting(i), NEW q \in Queries,
                        cache[q].data # Nil, ~cache[q].invalid, ~cache[q].behind
                 PROVE  cache[q].data = Answer(q)
      BY DEF ViewsSettle
    <2>1. ~Touched(q)
      BY DEF Touched, Touches, Waiting
    <2> QED
      BY <2>1 DEF TrackerInv, ViewInv, Sound
  <1> QED
    BY <1>1, TrackerAlways, PTL

(* The tracker's state has its type.                                         *)
THEOREM TrackerTypeCorrect == TrackerSpec => []TrackerTypeOK
  <1>1. TrackerInv => TrackerTypeOK
    <2> SUFFICES ASSUME TrackerInv
                 PROVE  TrackerTypeOK
      OBVIOUS
    <2>1. req \in [Requests -> Mutation]
      BY DEF TrackerInv, RequestsInv, RequestFits
    <2>2. \A q \in Queries : cache[q].data \in QueryData(q)
             /\ {cache[q].invalid, cache[q].behind} \subseteq BOOLEAN /\ cache[q].fetch \in Fetches(q)
      BY QueryParts DEF TrackerInv, CacheInv
    <2> QED
      BY <2>1, <2>2 DEF TrackerTypeOK, TrackerInv, RowsInv, AdvanceInv, PageInv, Mutation, QueryData
  <1> QED
    BY <1>1, TrackerAlways, PTL
=============================================================================
