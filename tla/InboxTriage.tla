---------------------------- MODULE InboxTriage ----------------------------
(***************************************************************************)
(* The agent's mailbox (internal/agent/inbox.go, repo_inbox.go).  Resend   *)
(* posts every mail it receives until one post is answered with 200; a     *)
(* handler stores a message for each user it is for.  The triage loop of   *)
(* each process lists what is pending, asks the AI about one message after *)
(* another, marks it, and only then does what it says: it moves the job in *)
(* the tracker and alerts the user.                                        *)
(*                                                                         *)
(* Processes share the tables and nothing else, so one may work on a list  *)
(* that another has dealt with.  Jobs are also moved by users and by runs, *)
(* which look at a job before they write it.  What a confirmation does to  *)
(* the application is in module Applications.                              *)
(***************************************************************************)
EXTENDS JobStatus, FiniteSets, FiniteSetsExt

CONSTANTS
    Instances, Deliveries,     \* processes; posts of one mail in flight
    Emails, Users,
    NRows, EmailOf, UserOf,    \* the messages that the mails come to, oldest first
    Applicants,                \* users with an application, and a key for the AI
    Spoofed,                   \* mails whose sender fails SPF, DKIM or DMARC
    Kinds,                     \* bound: what the AI finds in a mail; an assessment is an
                               \* interview, a recruiter's mail an unmatched confirmation
    None,
    BatchSize,                 \* of PendingTriage, 25 in the code
    MaxTriageAttempts,         \* 3 in the code
    MaxIncidents               \* bound: processes that end, failed queries, lost answers,
                               \* and jobs moved or deleted by users and runs

Rows == 1..NRows

ASSUME InboxAssumption ==
    /\ IsFiniteSet(Instances)
    /\ NRows \in Nat /\ EmailOf \in [Rows -> Emails] /\ UserOf \in [Rows -> Users]
    /\ Kinds \subseteq {"confirmation", "rejection", "interview", "offer", "other"}
    /\ BatchSize \in Nat \ {0} /\ MaxTriageAttempts \in Nat \ {0}
    /\ MaxIncidents \in Nat

VARIABLES
    event,                     \* event[e]: Resend has had no 200 for e yet, or it has
    hook,                      \* hook[e][d]: messages a handler of a post has still to store
    row,                       \* agent_messages; outcome: the status it moves its job to
    up, work,                  \* processes, and where their triage loops stand
    job,                       \* the tracker job of the user's application
    move,                      \* a move of that job that was allowed and is not written yet
    (* what the properties remember *)
    alerts,                    \* alerts[i][r]: how often process i alerted about r
    cut,                       \* messages whose outcome was given up half way
    crossed,                   \* jobs written by someone who had not seen their status
    incidents

mail   == <<event, hook, row>>
triage == <<up, work>>
jobs   == <<job, move, crossed>>
vars   == <<mail, triage, jobs, alerts, cut, incidents>>

NoRow   == [status |-> "absent", attempts |-> 0, outcome |-> None]
NoWork  == [pc |-> "idle", list |-> {}, outcome |-> None, important |-> FALSE,
            path |-> <<>>, seen |-> None]

Init ==
    /\ event = [e \in Emails |-> "due"]
    /\ hook = [e \in Emails |-> [d \in Deliveries |-> {}]]
    /\ row = [r \in Rows |-> NoRow]
    /\ up = [i \in Instances |-> TRUE]
    /\ work = [i \in Instances |-> NoWork]
    /\ job = [u \in Users |-> IF u \in Applicants THEN "not_applied" ELSE None]
    /\ move = [u \in Users |-> None]
    /\ alerts = [i \in Instances |-> [r \in Rows |-> 0]] /\ cut = {} /\ crossed = {}
    /\ incidents = 0

Incident == incidents < MaxIncidents /\ incidents' = incidents + 1

-----------------------------------------------------------------------------
(* The webhook                                                             *)

For(e) == {r \in Rows : EmailOf[r] = e}

\* Mutant: a message that is there already ends the delivery.
LeftAfterDuplicate(left, r) == IF row[r] = NoRow THEN left \ {r} ELSE {}

\* A duplicate provider id is no error.
LeftAfter(left, r) == left \ {r}

\* A post of the mail is handled, from its first message to the 200, which may
\* get lost.  Resend posts again while it has none, also when one is late.
InsertMessage(e, d) ==
    LET todo == IF hook[e][d] = {} THEN For(e) ELSE hook[e][d] IN
    /\ hook[e][d] = {} => event[e] = "due"
    /\ \E r \in todo :
          LET left == LeftAfter(todo, r) IN
          /\ row' = [row EXCEPT ![r] = IF @ = NoRow THEN [NoRow EXCEPT !.status = "pending"] ELSE @]
          /\ hook' = [hook EXCEPT ![e][d] = left]
          /\ \/ event' = [event EXCEPT ![e] = IF left = {} THEN "accepted" ELSE @] /\ UNCHANGED incidents
             \/ left = {} /\ UNCHANGED event /\ Incident
    /\ UNCHANGED <<triage, jobs, alerts, cut>>

\* 500, or a process that ends: a query or the fetch of the mail failed; what
\* was stored stays.
WebhookFails(e, d) ==
    /\ hook[e][d] # {}
    /\ Incident
    /\ hook' = [hook EXCEPT ![e][d] = {}]
    /\ UNCHANGED <<event, row, triage, jobs, alerts, cut>>

-----------------------------------------------------------------------------
(* The triage loop                                                         *)

Pending == {r \in Rows : row[r].status = "pending" /\ row[r].attempts < MaxTriageAttempts}

Oldest(S, n) == {r \in S : Cardinality({q \in S : q < r}) < n}

At(i, p) == up[i] /\ work[i].pc = p
Row(i)   == Min(work[i].list)
User(i)  == UserOf[Row(i)]

\* Nothing more to do for the first message of the list.
Rest(i) == LET list == work[i].list \ {Row(i)} IN
           IF list = {} THEN NoWork ELSE [NoWork EXCEPT !.pc = "next", !.list = list]

NextMessage(i) == work' = [work EXCEPT ![i] = Rest(i)]

\* triagePending: on a kick of a webhook, and every minute.
PendingTriage(i) ==
    /\ At(i, "idle") /\ Pending # {}
    /\ work' = [work EXCEPT ![i] = [NoWork EXCEPT !.pc = "next",
                                                  !.list = Oldest(Pending, BatchSize)]]
    /\ UNCHANGED <<mail, up, jobs, alerts, cut, incidents>>

\* ErrNoAPIKey
Skip(i) ==
    /\ At(i, "next") /\ User(i) \notin Applicants
    /\ row' = [row EXCEPT ![Row(i)] = [status |-> "skipped", attempts |-> @.attempts + 1,
                                       outcome |-> None]]
    /\ NextMessage(i)
    /\ UNCHANGED <<event, hook, up, jobs, alerts, cut, incidents>>

\* Mutant: the last attempt leaves the message as it was.
BumpedOnly(m) == [m EXCEPT !.attempts = @ + 1]

Bumped(m) ==
    [m EXCEPT !.attempts = @ + 1,
              !.status = IF m.attempts + 1 >= MaxTriageAttempts THEN "failed" ELSE @]

\* The AI failed, or its answer is no JSON.
BumpTriageAttempt(i) ==
    /\ At(i, "next") /\ User(i) \in Applicants
    /\ row' = [row EXCEPT ![Row(i)] = Bumped(@)]
    /\ NextMessage(i)
    /\ UNCHANGED <<event, hook, up, jobs, alerts, cut, incidents>>

\* Neither the outcome nor the attempt is stored.
SaveTriageFails(i) ==
    /\ At(i, "next") /\ Incident
    /\ NextMessage(i)
    /\ UNCHANGED <<mail, up, jobs, alerts, cut>>

Important(k, action) == k \in {"interview", "offer"} \/ (action /\ k # "other")

Target(k) ==
    CASE k = "confirmation" -> "applied"   [] k = "rejection" -> "rejected"
      [] k = "interview"    -> "interview" [] k = "offer"     -> "offer"
      [] OTHER              -> None

\* After the tracker: the alert, for important mail.
Onward(i, w) == IF w.important THEN [w EXCEPT !.pc = "alert", !.path = <<>>, !.seen = None] ELSE Rest(i)

\* Mutant: the message stays in the list.
SetMessageTriageOpen(i, k, matched, action) ==
    /\ At(i, "next") /\ User(i) \in Applicants
    /\ LET outcome == IF matched THEN Target(k) ELSE None
           said    == [work[i] EXCEPT !.outcome = outcome, !.important = Important(k, action)]
       IN  /\ row' = [row EXCEPT ![Row(i)] = [status |-> @.status, attempts |-> @.attempts + 1, outcome |-> outcome]]
           /\ work' = [work EXCEPT ![i] = IF EmailOf[Row(i)] \in Spoofed THEN Rest(i)
                                          ELSE IF outcome = None THEN Onward(i, said)
                                          ELSE [said EXCEPT !.pc = "apply"]]
    /\ UNCHANGED <<event, hook, up, jobs, alerts, cut, incidents>>

\* matched: the AI names an application of the user's that has a job.  The message
\* is written by id, whatever another process has made of it; of spoofed mail
\* nothing else is done.
SetMessageTriage(i, k, matched, action) ==
    /\ At(i, "next") /\ User(i) \in Applicants
    /\ LET outcome == IF matched THEN Target(k) ELSE None
           said    == [work[i] EXCEPT !.outcome = outcome, !.important = Important(k, action)]
       IN  /\ row' = [row EXCEPT ![Row(i)] = [status |-> "done", attempts |-> @.attempts + 1, outcome |-> outcome]]
           /\ work' = [work EXCEPT ![i] = IF EmailOf[Row(i)] \in Spoofed THEN Rest(i)
                                          ELSE IF outcome = None THEN Onward(i, said)
                                          ELSE [said EXCEPT !.pc = "apply"]]
    /\ UNCHANGED <<event, hook, up, jobs, alerts, cut, incidents>>

\* applyMailOutcome, AdvanceStatus: the way from the status the job has.
BeginAdvance(i) ==
    /\ At(i, "apply")
    /\ LET s   == job[User(i)]
           way == IF s \in Statuses THEN TransitionPath(s, work[i].outcome) ELSE <<>>
       IN  work' = [work EXCEPT ![i] = IF way = <<>> THEN Onward(i, @)
                                       ELSE [@ EXCEPT !.pc = "advance", !.path = way, !.seen = s]]
    /\ UNCHANGED <<mail, up, jobs, alerts, cut, incidents>>

\* UpdateStatus by id: a job that was deleted is not found.
Written(u, s, seen) ==
    IF job[u] \in Statuses
    THEN /\ job' = [job EXCEPT ![u] = s]
         /\ crossed' = IF job[u] = seen THEN crossed ELSE crossed \cup {u}
    ELSE UNCHANGED <<job, crossed>>

AdvanceStep(i) ==
    /\ At(i, "advance")
    /\ LET w == work[i] IN
       /\ Written(User(i), Head(w.path), w.seen)
       /\ work' = [work EXCEPT ![i] =
              IF Len(w.path) = 1 \/ job[User(i)] \notin Statuses THEN Onward(i, w)
              ELSE [w EXCEPT !.path = Tail(@), !.seen = Head(w.path)]]
    /\ UNCHANGED <<mail, up, move, alerts, cut, incidents>>

\* The rest of the way is left; the user is alerted all the same.
AdvanceFails(i) ==
    /\ work[i].pc \in {"apply", "advance"} /\ up[i]
    /\ Incident
    /\ work' = [work EXCEPT ![i] = Onward(i, @)]
    /\ cut' = cut \cup {Row(i)}
    /\ UNCHANGED <<mail, up, jobs, alerts>>

\* alertImportant; one that fails leaves no trace and is not tried again.
AlertImportant(i) ==
    /\ At(i, "alert")
    /\ alerts' = [alerts EXCEPT ![i][Row(i)] = @ + 1]
    /\ NextMessage(i)
    /\ UNCHANGED <<mail, up, jobs, cut, incidents>>

-----------------------------------------------------------------------------
(* Processes end at any point, by a crash or by a shutdown, whose context  *)
(* fails every call that is left.                                          *)

End(i) ==
    /\ up[i] /\ Incident
    /\ up' = [up EXCEPT ![i] = FALSE]
    /\ work' = [work EXCEPT ![i] = NoWork]
    /\ cut' = IF work[i].pc \in {"apply", "advance"} THEN cut \cup {Row(i)} ELSE cut
    /\ UNCHANGED <<mail, jobs, alerts>>

Boot(i) ==
    /\ ~up[i]
    /\ up' = [up EXCEPT ![i] = TRUE]
    /\ UNCHANGED <<mail, work, jobs, alerts, cut, incidents>>

-----------------------------------------------------------------------------
(* Users and runs                                                          *)

\* UpdateStatus of the service, and AdvanceStatus to applied of a run, which
\* is one step: the status is looked at, and written later.
BeginMove(u) ==
    /\ Incident
    /\ move[u] = None /\ job[u] \in Statuses
    /\ \E s \in allowedTransitions[job[u]] : move' = [move EXCEPT ![u] = [seen |-> job[u], to |-> s]]
    /\ UNCHANGED <<mail, triage, job, crossed, alerts, cut>>

EndMove(u) ==
    /\ move[u] # None
    /\ Written(u, move[u].to, move[u].seen)
    /\ move' = [move EXCEPT ![u] = None]
    /\ UNCHANGED <<mail, triage, alerts, cut, incidents>>

SoftDelete(u) ==
    /\ Incident
    /\ job[u] \in Statuses
    /\ job' = [job EXCEPT ![u] = "deleted"]
    /\ UNCHANGED <<mail, triage, move, crossed, alerts, cut>>

-----------------------------------------------------------------------------
Triage(i) ==
    \/ Skip(i) \/ BumpTriageAttempt(i)
    \/ \E k \in Kinds, matched, action \in BOOLEAN : SetMessageTriage(i, k, matched, action)
    \/ BeginAdvance(i) \/ AdvanceStep(i) \/ AlertImportant(i)

Next ==
    \/ \E e \in Emails, d \in Deliveries : InsertMessage(e, d) \/ WebhookFails(e, d)
    \/ \E i \in Instances :
          \/ PendingTriage(i) \/ Triage(i) \/ SaveTriageFails(i) \/ AdvanceFails(i)
          \/ End(i) \/ Boot(i)
    \/ \E u \in Users : BeginMove(u) \/ EndMove(u) \/ SoftDelete(u)

Spec == Init /\ [][Next]_vars

(* Resend posts until it has a 200, handlers and loops go on, a process    *)
(* that ended is started again.                                            *)
Fairness ==
    /\ \A e \in Emails : WF_vars(\E d \in Deliveries : InsertMessage(e, d))
    /\ \A i \in Instances : WF_vars(PendingTriage(i)) /\ WF_vars(Triage(i)) /\ WF_vars(Boot(i))

FairSpec == Spec /\ Fairness

-----------------------------------------------------------------------------
(* Properties.                                                             *)

RowRec == [status : {"absent", "pending", "done", "failed", "skipped"},
           attempts : Nat, outcome : Statuses \cup {None}]

WorkRec == [pc : {"idle", "next", "apply", "advance", "alert"}, list : SUBSET Rows,
            outcome : Statuses \cup {None}, important : BOOLEAN, path : Seq(Statuses),
            seen : Statuses \cup {None}]

TypeOK ==
    /\ event \in [Emails -> {"due", "accepted"}]
    /\ hook \in [Emails -> [Deliveries -> SUBSET Rows]]
    /\ row \in [Rows -> RowRec]
    /\ up \in [Instances -> BOOLEAN]
    /\ work \in [Instances -> WorkRec]
    /\ job \in [Users -> Statuses \cup {None, "deleted"}]
    /\ move \in [Users -> {None} \cup [seen : Statuses, to : Statuses]]
    /\ alerts \in [Instances -> [Rows -> Nat]] /\ cut \subseteq Rows /\ crossed \subseteq Users
    /\ incidents \in 0..MaxIncidents

(* Every mail comes to all the users it is for, whatever is posted again,  *)
(* cut short or answered in vain: Resend stops after the first 200.        *)
MailStored == \A e \in Emails : <>(\A r \in For(e) : row[r] # NoRow)

(* No message stays pending: none hides from the list, and none that fails *)
(* keeps the others from their turn.                                       *)
TriageEnds == \A r \in Rows : row[r].status = "pending" ~> row[r].status # "pending"

Behind(s, outcome) == s \in Statuses /\ TransitionPath(s, outcome) # <<>>

(* Once a mail is dealt with, the tracker is not behind what it says, in   *)
(* whatever order the mails of a job come and by whomever else it is moved:*)
(* unless a process ended or a query failed between the mark and the move, *)
(* or somebody wrote the job who had looked at it before another wrote.    *)
OutcomeKept ==
    \A r \in Rows :
        /\ row[r].status = "done" /\ row[r].outcome # None
        /\ EmailOf[r] \notin Spoofed /\ r \notin cut /\ UserOf[r] \notin crossed
        /\ \A i \in Instances : work[i].pc \in {"apply", "advance"} => Row(i) # r
        => ~Behind(job[UserOf[r]], row[r].outcome)

(* A process alerts about a message once at most, through repeated posts,  *)
(* failures and restarts, because it marks the message first.              *)
AlertedOnce == \A i \in Instances, r \in Rows : alerts[i][r] <= 1
=============================================================================
