----------------------------- MODULE JobTracker -----------------------------
(***************************************************************************)
(* The job tracker: the status of a job as the server keeps it             *)
(* (server/internal/job) and as the dashboard shows it, through the query  *)
(* cache of the list and of each job's detail (client/src/hooks/useJobs.ts)*)
(* A move on the board or in the drawer is shown at once, sent, and        *)
(* settled by the answer; the autopilot and the mailbox move jobs too.     *)
(*                                                                         *)
(* One dashboard; List is the tracker's query, of all jobs; a job stands   *)
(* for its own detail query.  A query's data is a function on the jobs it  *)
(* shows.  "absent" in it: the job is not in the answer.                   *)
(***************************************************************************)
EXTENDS JobStatus, FiniteSets

CONSTANTS
    Jobs,
    List,            \* the query of the list
    Nil,             \* no data, no job
    Requests,        \* slots of mutations in flight
    Agents,          \* callers of AdvanceStatus
    MaxMoves,        \* bound: mutations the user starts
    MaxAdvances,     \* bound: calls of AdvanceStatus
    MaxFaults,       \* bound: answers lost, failed queries
    MaxReads         \* bound: fetches the user causes by opening pages

BOARD_COLS == {"not_applied", "applied", "interview", "offer"}
Queries == {List} \cup Jobs

ASSUME TrackerAssumption ==
    /\ List \notin Jobs /\ Nil \notin Jobs \cup Statuses /\ List # Nil
    /\ {MaxMoves, MaxAdvances, MaxFaults, MaxReads} \subseteq Nat

VARIABLES
    rows,            \* the jobs table: status, whether applied_at is set, deleted_at
    req,             \* PATCH /jobs/:id/status and DELETE /jobs/:id in flight
    adv,             \* AdvanceStatus being executed
    cache,           \* the query cache
    shown,           \* a page with the list is open
    drawer,          \* the job whose detail drawer is open
    moves, advances, faults, reads

trackerVars == <<rows, req, adv, cache, shown, drawer, moves, advances, faults, reads>>

-----------------------------------------------------------------------------
(* The query cache (react-query).  "behind" remembers that a query may     *)
(* differ from the server for a reason the client cannot know of: another  *)
(* caller wrote, or an invalidation met a fetch it does not restart.       *)

JobsOf(q)  == IF q = List THEN Jobs ELSE {q}
Fetches(q) == [pc : {"idle", "sent", "read"},
               got : {Nil} \cup [JobsOf(q) -> Statuses \cup {"absent"}],
               late : BOOLEAN,
               backTo : {Nil} \cup [JobsOf(q) -> Statuses \cup {"absent"}],
               backInvalid : BOOLEAN]
NoFetch == [pc |-> "idle", got |-> Nil, late |-> FALSE, backTo |-> Nil, backInvalid |-> FALSE]
Fresh   == [data |-> Nil, invalid |-> FALSE, behind |-> FALSE, fetch |-> NoFetch]

Answer(q) == [j \in JobsOf(q) |-> IF rows[j].gone THEN "absent" ELSE rows[j].status]

Observed(q) == shown /\ (q = List \/ drawer = q)

Started(c) ==
    [c EXCEPT !.fetch = [NoFetch EXCEPT !.pc = "sent", !.backTo = c.data, !.backInvalid = c.invalid]]

\* A fetch that is cancelled gives the query back what it was at its start.
Cancelled(c) ==
    IF c.fetch.pc = "idle" THEN c
    ELSE [c EXCEPT !.data = c.fetch.backTo, !.invalid = c.fetch.backInvalid, !.fetch = NoFetch]

\* invalidateQueries: a query on the screen is fetched again, in place of a
\* fetch under way; but a first fetch goes on, and so does one of a page left.
Invalidated(c, observed) ==
    IF c.fetch.pc # "idle" /\ (c.data = Nil \/ ~observed)
    THEN [c EXCEPT !.invalid = TRUE, !.fetch.late = c.fetch.pc = "read"]
    ELSE IF observed THEN Started([c EXCEPT !.invalid = TRUE])
    ELSE [c EXCEPT !.invalid = c.data # Nil]

SetData(c, d) == [c EXCEPT !.data = d, !.invalid = FALSE]
Edited(c, j, s) == IF c.data = Nil THEN c ELSE SetData(c, [c.data EXCEPT ![j] = s])

\* Another caller wrote: what was fetched before is behind.
Missed == [q \in Queries |-> [cache[q] EXCEPT !.behind = TRUE,
                                              !.fetch.late = cache[q].fetch.pc = "read"]]

-----------------------------------------------------------------------------
(* Mutations *)

NoRequest == [kind |-> "none", pc |-> "idle", job |-> Nil, to |-> Nil,
              dated |-> FALSE, heard |-> "nobody", undo |-> Nil]

TrackerTypeOK ==
    /\ rows \in [Jobs -> [status : Statuses, dated : BOOLEAN, gone : BOOLEAN]]
    /\ req \in [Requests -> [kind : {"none", "status", "delete"},
                             pc : {"idle", "sent", "checked", "ok", "refused"},
                             job : Jobs \cup {Nil}, to : Statuses \cup {Nil},
                             dated : BOOLEAN, heard : {"nobody", "board", "drawer", "left"},
                             undo : {Nil} \cup UNION {[JobsOf(q) -> Statuses \cup {"absent"}] : q \in Queries}]]
    /\ adv \in [Agents -> [job : Jobs \cup {Nil}, path : Seq(Statuses), dated : BOOLEAN]]
    /\ \A q \in Queries :
          /\ cache[q].data \in {Nil} \cup [JobsOf(q) -> Statuses \cup {"absent"}]
          /\ {cache[q].invalid, cache[q].behind} \subseteq BOOLEAN
          /\ cache[q].fetch \in Fetches(q)
    /\ shown \in BOOLEAN /\ drawer \in Jobs \cup {Nil}
    /\ (drawer # Nil => shown)

TrackerInit ==
    /\ rows \in [Jobs -> {[status |-> s, dated |-> s # "not_applied", gone |-> FALSE] : s \in {"not_applied", "applied"}}]
    /\ req = [i \in Requests |-> NoRequest]
    /\ adv = [a \in Agents |-> [job |-> Nil, path |-> <<>>, dated |-> FALSE]]
    /\ cache = [q \in Queries |-> Fresh]
    /\ shown = FALSE /\ drawer = Nil
    /\ moves = 0 /\ advances = 0 /\ faults = 0 /\ reads = 0

Fault == faults < MaxFaults /\ faults' = faults + 1

Waiting(i) == req[i].heard # "nobody"

(* useTracker's columns, and the moves its cards offer: by dropping a card  *)
(* on a column, at any time, or by its button.                              *)
Column(s) == IF cache[List].data = Nil THEN {} ELSE {j \in Jobs : cache[List].data[j] = s}

BoardMoves == {m \in Jobs \X BOARD_COLS :
                  \E s \in BOARD_COLS : m[1] \in Column(s) /\ m[2] \in allowedTransitions[s]}

(* The drawer shows the job's detail; a detail kept is shown at once.       *)
InDrawer == IF drawer = Nil \/ cache[drawer].data = Nil THEN "absent" ELSE cache[drawer].data[drawer]

DrawerMoves == IF InDrawer = "absent" \/ \E i \in Requests : req[i].heard = "drawer" /\ req[i].kind = "status"
               THEN {} ELSE {drawer} \X allowedTransitions[InDrawer]

(* useUpdateJobStatus: mutate and onMutate *)
UpdateStatus(j, to, by) ==
    \E i \in Requests :
        LET c == [q \in Queries |-> IF q \in {List, j} THEN Cancelled(cache[q]) ELSE cache[q]] IN
        /\ req[i] = NoRequest
        /\ moves < MaxMoves /\ moves' = moves + 1
        /\ req' = [req EXCEPT ![i] = [kind |-> "status", pc |-> "sent", job |-> j, to |-> to,
                                      dated |-> FALSE, heard |-> by, undo |-> c[j].data]]
        /\ cache' = [c EXCEPT ![j] = Edited(@, j, to), ![List] = Edited(@, j, to)]
        /\ UNCHANGED <<rows, adv, shown, drawer, advances, faults, reads>>

MoveCard == shown /\ \E m \in BoardMoves : UpdateStatus(m[1], m[2], "board")

HandleStatusChange == \E m \in DrawerMoves : UpdateStatus(m[1], m[2], "drawer")

(* useDeleteJob: mutate and onMutate *)
HandleDelete ==
    /\ InDrawer # "absent"
    /\ ~\E i \in Requests : req[i].heard = "drawer" /\ req[i].kind = "delete"
    /\ \E i \in Requests :
          LET list == Cancelled(cache[List]) IN
          /\ req[i] = NoRequest
          /\ moves < MaxMoves /\ moves' = moves + 1
          /\ req' = [req EXCEPT ![i] = [NoRequest EXCEPT !.kind = "delete", !.pc = "sent", !.job = drawer,
                                                         !.heard = "drawer", !.undo = list.data]]
          /\ cache' = [cache EXCEPT ![List] = Edited(list, drawer, "absent")]
    /\ UNCHANGED <<rows, adv, shown, drawer, advances, faults, reads>>

(* onError puts back what onMutate found: the detail, or the list.          *)
RolledBack(i, ok) ==
    LET q == IF req[i].kind = "status" THEN req[i].job ELSE List IN
    IF ok \/ req[i].undo = Nil THEN cache ELSE [cache EXCEPT ![q] = SetData(@, req[i].undo)]

\* Mutant: without onSettled.
OnlyRolledBack(i, ok, open) == RolledBack(i, ok)

(* onSettled.  A deletion drops the detail from the cache; the drawer       *)
(* fetches it anew while it is open.                                        *)
Settled(i, ok, open) ==
    LET j == req[i].job
        rolled == RolledBack(i, ok)
        detail == IF req[i].kind = "status" THEN Invalidated(rolled[j], open = j)
                  ELSE IF open = j THEN Started(Fresh) ELSE Fresh
    IN  [rolled EXCEPT ![j] = detail, ![List] = Invalidated(@, shown)]

(* The answer of a mutation reaches the client. *)
Answered(i) ==
    LET ok == req[i].pc = "ok"
        open == IF ok /\ req[i].kind = "delete" /\ req[i].heard = "drawer" THEN Nil ELSE drawer
    IN
    /\ req[i].pc \in {"ok", "refused"}
    /\ drawer' = open
    /\ cache' = Settled(i, ok, open)
    /\ req' = [req EXCEPT ![i] = NoRequest]
    /\ UNCHANGED <<rows, adv, shown, moves, advances, faults, reads>>

(* It does not: the client is told of an error while the server goes on.    *)
AnswerLost(i) ==
    /\ req[i].kind # "none" /\ Waiting(i) /\ Fault
    /\ cache' = Settled(i, FALSE, drawer)
    /\ req' = [req EXCEPT ![i] = IF @.pc \in {"ok", "refused"} THEN NoRequest ELSE [@ EXCEPT !.heard = "nobody", !.undo = Nil]]
    /\ UNCHANGED <<rows, adv, shown, drawer, moves, advances, reads>>

-----------------------------------------------------------------------------
(* The server *)

\* A write of a request nobody waits for, or of an agent, is not announced.
Noticed(i) == IF Waiting(i) THEN cache ELSE Missed

Finish(i, pc) == req' = [req EXCEPT ![i] = IF Waiting(i) THEN [@ EXCEPT !.pc = pc] ELSE NoRequest]

(* service.UpdateStatus reads the row and decides. *)
CheckTransition(i) ==
    LET r == rows[req[i].job] IN
    /\ req[i].kind = "status" /\ req[i].pc = "sent"
    /\ IF ~r.gone /\ req[i].to \in allowedTransitions[r.status]
       THEN req' = [req EXCEPT ![i].pc = "checked", ![i].dated = req[i].to = "applied" /\ ~r.dated]
       ELSE Finish(i, "refused")
    /\ UNCHANGED <<rows, adv, cache, shown, drawer, moves, advances, faults, reads>>

\* repository.UpdateStatus: whatever the status is by now
Write(j, s, dated) ==
    rows' = [rows EXCEPT ![j] = [status |-> s, dated |-> rows[j].dated \/ dated, gone |-> rows[j].gone]]

WriteStatus(i) ==
    LET j == req[i].job IN
    /\ req[i].pc = "checked"
    /\ IF rows[j].gone THEN /\ Finish(i, "refused")
                            /\ UNCHANGED <<rows, cache>>
       ELSE /\ Write(j, req[i].to, req[i].dated)
            /\ Finish(i, "ok")
            /\ cache' = Noticed(i)
    /\ UNCHANGED <<adv, shown, drawer, moves, advances, faults, reads>>

SoftDeleteJob(i) ==
    LET j == req[i].job IN
    /\ req[i].kind = "delete" /\ req[i].pc = "sent"
    /\ rows' = [rows EXCEPT ![j].gone = TRUE]
    /\ Finish(i, IF rows[j].gone THEN "refused" ELSE "ok")
    /\ cache' = IF rows[j].gone THEN cache ELSE Noticed(i)
    /\ UNCHANGED <<adv, shown, drawer, moves, advances, faults, reads>>

(* A query fails: ErrInternal. *)
QueryFails(i) ==
    /\ req[i].pc \in {"sent", "checked"} /\ Fault
    /\ Finish(i, "refused")
    /\ UNCHANGED <<rows, adv, cache, shown, drawer, moves, advances, reads>>

(* AdvanceStatus, for a submission or an email, reads the job and chooses   *)
(* the path; each step of it is an update of its own.                       *)
BeginAdvanceStatus(a, j, target) ==
    LET path == TransitionPath(rows[j].status, target) IN
    /\ adv[a].path = <<>> /\ advances < MaxAdvances
    /\ ~rows[j].gone /\ path # <<>>
    /\ adv' = [adv EXCEPT ![a] = [job |-> j, path |-> path, dated |-> rows[j].dated]]
    /\ advances' = advances + 1
    /\ UNCHANGED <<rows, req, cache, shown, drawer, moves, faults, reads>>

AdvanceStatusStep(a) ==
    LET j == adv[a].job
        step == Head(adv[a].path)
        dates == step = "applied" /\ ~adv[a].dated
    IN
    /\ adv[a].path # <<>>
    /\ IF rows[j].gone THEN /\ adv' = [adv EXCEPT ![a].path = <<>>]
                            /\ UNCHANGED <<rows, cache>>
       ELSE /\ Write(j, step, dates)
            /\ adv' = [adv EXCEPT ![a] = [job |-> j, path |-> Tail(adv[a].path), dated |-> rows[j].dated \/ dates]]
            /\ cache' = Missed
    /\ UNCHANGED <<req, shown, drawer, moves, advances, faults, reads>>

(* The update fails, or the process stops: the job stays where it is. *)
AdvanceStatusFails(a) ==
    /\ adv[a].path # <<>> /\ Fault
    /\ adv' = [adv EXCEPT ![a].path = <<>>]
    /\ UNCHANGED <<rows, req, cache, shown, drawer, moves, advances, reads>>

-----------------------------------------------------------------------------
(* Reading *)

FetchRead(q) ==
    /\ cache[q].fetch.pc = "sent"
    /\ (q # List => ~rows[q].gone)
    /\ cache' = [cache EXCEPT ![q].fetch = [@ EXCEPT !.pc = "read", !.got = Answer(q)]]
    /\ UNCHANGED <<rows, req, adv, shown, drawer, moves, advances, faults, reads>>

FetchDone(q) ==
    /\ cache[q].fetch.pc = "read"
    /\ cache' = [cache EXCEPT ![q] = [SetData(@, @.fetch.got) EXCEPT !.behind = cache[q].fetch.late, !.fetch = NoFetch]]
    /\ UNCHANGED <<rows, req, adv, shown, drawer, moves, advances, faults, reads>>

(* The job is gone, or the last of the retries failed. *)
FetchFails(q) ==
    /\ cache[q].fetch.pc # "idle"
    /\ cache' = [cache EXCEPT ![q].fetch = NoFetch]
    /\ \/ q # List /\ rows[q].gone /\ cache[q].fetch.pc = "sent" /\ UNCHANGED faults
       \/ Fault
    /\ UNCHANGED <<rows, req, adv, shown, drawer, moves, advances, reads>>

\* A query that comes on the screen is fetched when it has no data, was
\* invalidated or has been there for too long.
Mounted(c, old) ==
    IF c.fetch.pc = "idle" /\ (c.data = Nil \/ c.invalid \/ old) THEN Started(c) ELSE c

OpenPage ==
    /\ ~shown /\ reads < MaxReads /\ reads' = reads + 1
    /\ shown' = TRUE
    /\ \E old \in BOOLEAN : cache' = [cache EXCEPT ![List] = Mounted(@, old)]
    /\ UNCHANGED <<rows, req, adv, drawer, moves, advances, faults>>

OpenDrawer(j) ==
    /\ shown /\ drawer # j /\ reads < MaxReads /\ reads' = reads + 1
    /\ cache[List].data # Nil /\ cache[List].data[j] # "absent"
    /\ drawer' = j
    /\ \E old \in BOOLEAN : cache' = [cache EXCEPT ![j] = Mounted(@, old)]
    /\ UNCHANGED <<rows, req, adv, shown, moves, advances, faults>>

CloseDrawer ==
    /\ drawer # Nil /\ drawer' = Nil
    /\ UNCHANGED <<rows, req, adv, cache, shown, moves, advances, faults, reads>>

(* Another page: the mutations go on, the buttons they disabled are gone.   *)
LeavePage ==
    /\ shown /\ shown' = FALSE /\ drawer' = Nil
    /\ req' = [i \in Requests |-> IF Waiting(i) THEN [req[i] EXCEPT !.heard = "left"] ELSE req[i]]
    /\ UNCHANGED <<rows, adv, cache, moves, advances, faults, reads>>

-----------------------------------------------------------------------------
UserStep   == MoveCard \/ HandleStatusChange \/ HandleDelete \/ OpenPage \/ LeavePage \/ CloseDrawer
          \/ \E j \in Jobs : OpenDrawer(j)
Client == (\E i \in Requests : Answered(i) \/ AnswerLost(i)) \/ \E q \in Queries : FetchDone(q) \/ FetchFails(q)
Server == \/ \E i \in Requests : CheckTransition(i) \/ WriteStatus(i) \/ SoftDeleteJob(i) \/ QueryFails(i)
          \/ \E a \in Agents : AdvanceStatusStep(a) \/ AdvanceStatusFails(a)
          \/ \E a \in Agents, j \in Jobs, s \in {"applied", "interview", "offer", "rejected"} : BeginAdvanceStatus(a, j, s)
          \/ \E q \in Queries : FetchRead(q)
TrackerNext == UserStep \/ Client \/ Server
TrackerSpec == TrackerInit /\ [][TrackerNext]_trackerVars

-----------------------------------------------------------------------------
(* A job that was moved out of "not applied" has the date it was applied:  *)
(* moves of the board, the autopilot and the mailbox, each decided on a row *)
(* read earlier, never leave one without (job/service.go UpdateStatus,      *)
(* job/agent.go AdvanceStatus).                                            *)
AppliedDated == \A j \in Jobs : rows[j].status # "not_applied" => rows[j].dated

(* Once nothing is under way, what the dashboard shows of the jobs is what  *)
(* the server has, whatever moves, deletions, errors and lost answers went  *)
(* before and in whatever order they were settled (hooks/useJobs.ts); but   *)
(* for writes of others and the fetches an invalidation cannot restart.     *)
ViewsSettle ==
    (\A i \in Requests : ~Waiting(i)) =>
        \A q \in Queries :
            cache[q].data # Nil /\ ~cache[q].invalid /\ ~cache[q].behind /\ cache[q].fetch.pc = "idle"
                => cache[q].data = Answer(q)
=============================================================================
