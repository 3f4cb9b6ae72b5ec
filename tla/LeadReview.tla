----------------------------- MODULE LeadReview -----------------------------
(***************************************************************************)
(* The review page (client/src/pages/Review.tsx, hooks/useLeads.ts) and    *)
(* the server it decides through (server/internal/agent: DecideLead, the   *)
(* bulk endpoint, ListLeads), while the autopilot changes leads as well.   *)
(* The page hides a lead as soon as it is decided, undoes decisions, and   *)
(* loads each tab's list a page at a time, by offset.                      *)
(*                                                                         *)
(* Leads are numbered in the order the server lists them.  One decision of *)
(* one lead is a single step here: how its statements interleave is the    *)
(* subject of Applications.  One page of the dashboard, without search and *)
(* filters.                                                                *)
(***************************************************************************)
EXTENDS Naturals, FiniteSets, Sequences, SequencesExt

CONSTANTS
    NLeads,
    PageSize,
    Requests,        \* slots of mutations in flight
    MaxDecisions,    \* bound: decisions and undos the user starts
    MaxLoads,        \* bound: tabs opened, pages asked for
    MaxSurprises     \* bound: changes by the autopilot, answers lost, statements and
                     \* fetches that fail

ASSUME ReviewAssumption ==
    /\ {NLeads, PageSize} \subseteq Nat \ {0}
    /\ {MaxDecisions, MaxLoads, MaxSurprises} \subseteq Nat

Leads == 1..NLeads
Tabs  == {"new", "approved", "dismissed"}
TAB_STATUS == [new |-> {"new"},
               approved |-> {"approved", "applying", "applied", "failed"},
               dismissed |-> {"dismissed", "expired"}]
LeadStatuses == {"absent"} \cup UNION {TAB_STATUS[t] : t \in Tabs}
AppStatuses  == {"none", "queued", "preparing", "ready", "in_progress", "submitted", "failed", "cancelled"}
Decisions    == {"approve", "dismiss", "reset"}

VARIABLES
    lead,        \* the stored leads: status, status of the application
    unscored,    \* leads the run in progress loaded to score again
    preparing,   \* leads whose application the run is preparing
    tab,         \* the open tab
    hiddenIn,    \* the tab a decided lead is hidden from, "none"
    undoStack,
    req,         \* mutations in flight
    list,        \* the query of each tab, and its fetch
    awaiting,    \* tabs whose refetch a loadMore waits for
    excused,     \* history: leads changed behind the page's back since it hid them
    cut,         \* history: leads whose decision stopped between its statements
    unseen,      \* history: leads dismissed without a look at their application
    decisions, loads, surprises

server  == <<lead, unscored, preparing, cut, unseen>>
page    == <<tab, hiddenIn, undoStack, excused>>
queries == <<list, awaiting>>
bounds  == <<decisions, loads, surprises>>
reviewVars == <<server, page, req, queries, bounds>>

-----------------------------------------------------------------------------
(* The lists.  A query holds the pages it has read: the leads of each, in   *)
(* the order of their numbers, with the status each had.  "shifted" and    *)
(* "joined" are history: a lead left the tab at a moment the page could    *)
(* not know of, leads that came to it after it was read.                   *)

NoFetch == [kind |-> "idle", got |-> <<>>, shifted |-> FALSE, joined |-> {}]
NoList  == [pages |-> <<>>, next |-> FALSE, invalid |-> FALSE, dirty |-> FALSE,
            shifted |-> FALSE, joined |-> {}, fetch |-> NoFetch]

InTab(l, t) == lead[l].status \in TAB_STATUS[t]
Stored(t)   == {l \in Leads : InTab(l, t)}
Rank(l, t)  == Cardinality({k \in Stored(t) : k <= l})

\* Page n, by its offset and its limit.
ListLeads(t, n) ==
    {[id |-> l, status |-> lead[l].status] :
        l \in {l \in Stored(t) : (n - 1) * PageSize < Rank(l, t) /\ Rank(l, t) <= n * PageSize}}
HasNext(t, n) == Cardinality(Stored(t)) > n * PageSize

Rows(t)    == UNION Range(list[t].pages)
loaded(t)  == {r.id : r \in Rows(t)}
visible(t) == {r \in Rows(t) : hiddenIn[r.id] # t}

Started(q, kind) == [q EXCEPT !.fetch = [NoFetch EXCEPT !.kind = kind]]

\* A refetch replaces the fetch under way, except a first one.
Refetched(q) == IF q.pages = <<>> /\ q.fetch.kind # "idle" THEN q ELSE Started(q, "all")
FetchNext(q) == IF q.next THEN Started(q, "next") ELSE q

Stale(ls) == [t \in Tabs |-> [ls[t] EXCEPT !.invalid = ls[t].pages # <<>>]]

\* The leads of S move to the statuses of "to": what that does to lists read before.
Moved(to) ==
    [t \in Tabs |->
        LET leaves == \E l \in Leads : InTab(l, t) /\ to[l].status \notin TAB_STATUS[t]
            comes  == {l \in Leads : ~InTab(l, t) /\ to[l].status \in TAB_STATUS[t]}
            q == list[t]
            behind == q.pages # <<>>
            late   == q.fetch.got # <<>>
        IN  [q EXCEPT
               !.shifted = q.shifted \/ (behind /\ leaves /\ (~q.dirty \/ q.fetch.kind = "next")),
               !.joined = q.joined \cup IF behind THEN comes ELSE {},
               !.fetch = [q.fetch EXCEPT !.shifted = q.fetch.shifted \/ (late /\ leaves),
                                         !.joined = q.fetch.joined \cup IF late THEN comes ELSE {}]]]

-----------------------------------------------------------------------------
(* Decisions, as the server takes them *)

\* Mutant: an application that exists is left as it is.
QueueNewOnly(app) == IF app = "none" THEN "queued" ELSE app

QueueApplication(app) == IF app \in {"none", "cancelled", "failed"} THEN "queued" ELSE app

Refused(x, d) ==
    CASE d = "approve" -> x.status = "applied"
      [] d = "dismiss" -> x.status = "applied" \/ x.app \in {"submitted", "in_progress"}
      [] d = "reset"   -> x.status = "approved" /\ x.app \notin {"none", "queued", "cancelled"}

\* The lead after each statement of the decision.
Writes(x, d) ==
    CASE d = "approve" /\ x.status \in {"approved", "applying"} -> <<x>>
      [] d = "approve" /\ x.status \notin {"approved", "applying"} ->
            << [x EXCEPT !.status = "approved"],
               [status |-> "approved", app |-> QueueApplication(x.app)] >>
      [] d = "dismiss" /\ x.app = "none" -> << [x EXCEPT !.status = "dismissed"] >>
      [] d = "dismiss" /\ x.app # "none" ->
            << [x EXCEPT !.app = "cancelled"], [status |-> "dismissed", app |-> "cancelled"] >>
      [] d = "reset" /\ x.status \in {"dismissed", "expired"} -> << [x EXCEPT !.status = "new"] >>
      [] d = "reset" /\ x.status = "approved" ->
            << [x EXCEPT !.app = "none"], [status |-> "new", app |-> "none"] >>
      [] OTHER -> <<x>>

NoMutation == [pc |-> "idle", kind |-> "decide", steps |-> <<>>, ids |-> {}, todo |-> {}, failed |-> {}]
Busy(l)   == \E i \in Requests : req[i].pc # "idle" /\ l \in req[i].ids

\* All leads but one are new when the page opens; that one may be any of these.
Beginnings == {[status |-> "new", app |-> "none"], [status |-> "absent", app |-> "none"]}
              \cup {[status |-> "applying", app |-> a] : a \in {"preparing", "ready", "in_progress"}}

ReviewInit ==
    /\ \E l \in Leads, x \in Beginnings :
          lead = [k \in Leads |-> IF k = l THEN x ELSE [status |-> "new", app |-> "none"]]
    /\ preparing = {l \in Leads : lead[l].app = "preparing"}
    /\ unscored = {} /\ cut = {} /\ unseen = {} /\ excused = {}
    /\ tab = "new" /\ hiddenIn = [l \in Leads |-> "none"] /\ undoStack = <<>>
    /\ req = [i \in Requests |-> NoMutation]
    /\ list = [t \in Tabs |-> IF t = "new" THEN Started(NoList, "all") ELSE NoList]
    /\ awaiting = {}
    /\ decisions = 0 /\ loads = 0 /\ surprises = 0

Store(to) == lead' = to /\ list' = Moved(to)

\* The request is done with one of its leads.
Tried(i, l, refused) ==
    req' = [req EXCEPT ![i] = [req[i] EXCEPT !.todo = req[i].todo \ {l},
                                             !.failed = req[i].failed \cup IF refused THEN {l} ELSE {}]]

First(S) == CHOOSE x \in S : \A y \in S : x <= y

\* DecideLead for the next of the request's leads.
DecideLead(i) ==
    /\ req[i].todo # {}
    /\ LET l == First(req[i].todo)
           d == Head(req[i].steps)
           refused == Refused(lead[l], d)
           w == Writes(lead[l], d)
       IN  /\ Tried(i, l, refused)
           /\ IF refused THEN UNCHANGED <<lead, list, cut>>
              ELSE /\ Store([lead EXCEPT ![l] = w[Len(w)]])
                   /\ cut' = IF w[Len(w)] = lead[l] THEN cut ELSE cut \ {l}
    /\ UNCHANGED <<unscored, preparing, unseen, page, awaiting, bounds>>

\* A statement fails, or the request's context ends: the lead keeps what was
\* written before, and is answered as failed.
DecideLeadFails(i) ==
    /\ req[i].todo # {} /\ surprises < MaxSurprises
    /\ LET l == First(req[i].todo)
           w == Writes(lead[l], Head(req[i].steps))
       IN  /\ ~Refused(lead[l], Head(req[i].steps))
           /\ Tried(i, l, TRUE)
           /\ \/ Len(w) = 2 /\ Store([lead EXCEPT ![l] = w[1]]) /\ cut' = cut \cup {l}
              \/ UNCHANGED <<lead, list, cut>>
    /\ surprises' = surprises + 1
    /\ UNCHANGED <<unscored, preparing, unseen, page, awaiting, decisions, loads>>

\* A dismissal goes on if it cannot read the application: one that would have
\* been cancelled, or have made the server refuse, is left as it is.
DismissUnseen(i) ==
    /\ req[i].todo # {} /\ surprises < MaxSurprises
    /\ LET l == First(req[i].todo)
       IN  /\ Head(req[i].steps) = "dismiss"
           /\ lead[l].status # "applied" /\ lead[l].app # "none"
           /\ Tried(i, l, FALSE)
           /\ Store([lead EXCEPT ![l] = [@ EXCEPT !.status = "dismissed"]])
           /\ unseen' = unseen \cup {l}
    /\ surprises' = surprises + 1
    /\ UNCHANGED <<unscored, preparing, cut, page, awaiting, decisions, loads>>

-----------------------------------------------------------------------------
(* The autopilot: its run, and the browser that submits what is ready *)

\* One lead changes behind the page's back.
Other(l, x) ==
    /\ surprises < MaxSurprises /\ surprises' = surprises + 1
    /\ Store([lead EXCEPT ![l] = x])
    /\ excused' = IF hiddenIn[l] = "none" THEN excused ELSE excused \cup {l}
    /\ UNCHANGED <<tab, hiddenIn, undoStack, req, awaiting, decisions, loads>>

\* discover stores a posting, dismissed when its score is low.
InsertLead(l) ==
    /\ lead[l].status = "absent"
    /\ \E s \in {"new", "dismissed"} : Other(l, [status |-> s, app |-> "none"])
    /\ UNCHANGED <<unscored, preparing, cut, unseen>>

ExpireStaleLead(l) ==
    /\ lead[l].status = "new"
    /\ Other(l, [lead[l] EXCEPT !.status = "expired"])
    /\ UNCHANGED <<unscored, preparing, cut, unseen>>

UnscoredLeads(l) ==
    /\ lead[l].status = "new" /\ l \notin unscored /\ surprises < MaxSurprises
    /\ unscored' = unscored \cup {l}
    /\ UNCHANGED <<lead, preparing, cut, unseen, page, req, queries, bounds>>

\* The score is below the threshold: dismissed, whatever the user did meanwhile.
Rescore(l) ==
    /\ l \in unscored
    /\ Other(l, [lead[l] EXCEPT !.status = "dismissed"])
    /\ unscored' = unscored \ {l} /\ unseen' = unseen \cup {l}
    /\ UNCHANGED <<preparing, cut>>

Prepare(l) ==
    /\ lead[l].app = "queued"
    /\ Other(l, [status |-> "applying", app |-> "preparing"])
    /\ preparing' = preparing \cup {l}
    /\ UNCHANGED <<unscored, cut, unseen>>

\* Ready, failed, or put off; what a decision wrote meanwhile is overwritten.
Prepared(l) ==
    /\ l \in preparing
    /\ \E x \in {[lead[l] EXCEPT !.app = "ready"], [status |-> "failed", app |-> "failed"],
                 [status |-> "approved", app |-> "queued"]} : Other(l, x)
    /\ preparing' = preparing \ {l} /\ cut' = cut \ {l}
    /\ UNCHANGED <<unscored, unseen>>

ClaimNext(l) ==
    /\ lead[l].app = "ready"
    /\ Other(l, [status |-> "applying", app |-> "in_progress"])
    /\ UNCHANGED <<unscored, preparing, cut, unseen>>

ReportResult(l) ==
    /\ lead[l].app = "in_progress"
    /\ \E x \in {[status |-> "applied", app |-> "submitted"], [status |-> "failed", app |-> "failed"]} : Other(l, x)
    /\ UNCHANGED <<unscored, preparing, cut, unseen>>

Autopilot ==
    \E l \in Leads :
        \/ InsertLead(l) \/ ExpireStaleLead(l) \/ UnscoredLeads(l) \/ Rescore(l)
        \/ Prepare(l) \/ Prepared(l) \/ ClaimNext(l) \/ ReportResult(l)

-----------------------------------------------------------------------------
(* The page: decisions and undo *)

hide(S, t) == [l \in Leads |-> IF l \in S THEN t ELSE hiddenIn[l]]

\* Mutant: nothing is shown again.
KeepHidden(S) == hiddenIn

unhide(S) == hide(S, "none")

canApprove(r) == r.status \in {"new", "dismissed", "expired"}
canDismiss(r) == r.status \in {"new", "approved", "applying", "failed"}
canRestore(r) == r.status \in {"dismissed", "expired"}
Can(d, r) ==
    CASE d = "approve" -> canApprove(r) [] d = "dismiss" -> canDismiss(r) [] d = "reset" -> canRestore(r)

\* A decision meets another one on the same lead that is still under way.
Overlapping(S) == {l \in S : Busy(l)}

Send(i, kind, steps, S) ==
    req' = [req EXCEPT ![i] = [pc |-> "sent", kind |-> kind, steps |-> steps,
                               ids |-> S, todo |-> S, failed |-> {}]]

decide ==
    /\ decisions < MaxDecisions /\ decisions' = decisions + 1
    /\ \E i \in Requests, d \in Decisions, S \in (SUBSET loaded(tab)) \ {{}} :
          /\ req[i].pc = "idle"
          /\ \A l \in S : \E r \in visible(tab) : r.id = l /\ Can(d, r)
          /\ Cardinality(S) > 1 =>
                ~\E k \in Requests : req[k].pc = "sent" /\ Cardinality(req[k].ids) > 1
          /\ Send(i, "decide", <<d>>, S)
          /\ hiddenIn' = hide(S, tab)
          /\ excused' = (excused \ S) \cup Overlapping(S)
    /\ list' = [t \in Tabs |-> [list[t] EXCEPT !.dirty = list[t].pages # <<>>]]
    /\ UNCHANGED <<server, tab, undoStack, awaiting, loads, surprises>>

announce(S, d) ==
    undoStack' = IF S = {} THEN undoStack ELSE Append(undoStack, [leads |-> S, decision |-> d])

\* The answer of a decision: what was refused is shown again.
decideAnswered(i) ==
    /\ req[i].kind = "decide" /\ req[i].pc = "sent" /\ req[i].todo = {}
    /\ hiddenIn' = unhide(req[i].failed) /\ excused' = excused \ req[i].failed
    /\ announce(req[i].ids \ req[i].failed, Head(req[i].steps))
    /\ req' = [req EXCEPT ![i] = NoMutation]
    /\ list' = Stale(list)
    /\ UNCHANGED <<server, tab, awaiting, bounds>>

undoSteps(d) ==
    CASE d = "approve" -> <<"dismiss", "reset">> [] d = "dismiss" -> <<"reset">> [] d = "reset" -> <<"dismiss">>

runUndo ==
    /\ decisions < MaxDecisions /\ decisions' = decisions + 1
    /\ \E i \in Requests, n \in DOMAIN undoStack :
          /\ req[i].pc = "idle"
          /\ undoStack' = RemoveAt(undoStack, n)
          /\ hiddenIn' = unhide(undoStack[n].leads)
          /\ Send(i, "undo", undoSteps(undoStack[n].decision), undoStack[n].leads)
          /\ excused' = excused \ undoStack[n].leads
    /\ UNCHANGED <<server, tab, queries, loads, surprises>>

\* The lists are fetched again: the open one at once.
InvalidateLists == list' = [Stale(list) EXCEPT ![tab] = Refetched(@)]

\* A step of an undo is answered: the next one, or the end.
undoAnswered(i) ==
    /\ req[i].kind = "undo" /\ req[i].pc = "sent" /\ req[i].todo = {}
    /\ IF req[i].failed = {} /\ Len(req[i].steps) > 1
       THEN /\ req' = [req EXCEPT ![i] = [req[i] EXCEPT !.steps = Tail(req[i].steps), !.todo = req[i].ids]]
            /\ list' = Stale(list)
       ELSE /\ req' = [req EXCEPT ![i] = NoMutation]
            /\ InvalidateLists
    /\ UNCHANGED <<server, page, awaiting, bounds>>

\* The answer is lost; the server may go on with the request, or stop.
AnswerLost(i) ==
    /\ req[i].pc = "sent" /\ surprises < MaxSurprises /\ surprises' = surprises + 1
    /\ \/ req[i].todo # {} /\ req' = [req EXCEPT ![i].pc = "orphan"]
       \/ req' = [req EXCEPT ![i] = NoMutation]
    /\ IF req[i].kind = "decide"
       THEN hiddenIn' = unhide(req[i].ids) /\ excused' = excused \ req[i].ids /\ list' = Stale(list)
       ELSE InvalidateLists /\ UNCHANGED <<hiddenIn, excused>>
    /\ UNCHANGED <<server, tab, undoStack, awaiting, decisions, loads>>

OrphanEnds(i) ==
    /\ req[i].pc = "orphan" /\ req[i].todo = {}
    /\ req' = [req EXCEPT ![i] = NoMutation]
    /\ UNCHANGED <<server, page, queries, bounds>>

-----------------------------------------------------------------------------
(* The page: lists *)

Reads == loads < MaxLoads /\ loads' = loads + 1

\* The list of the tab is fetched if it is stale, or has no data.
setTab(t) ==
    /\ t # tab /\ Reads /\ tab' = t
    /\ \/ list[t].fetch.kind = "idle" /\ list' = [list EXCEPT ![t] = Started(@, "all")]
       \/ list[t].pages # <<>> /\ ~list[t].invalid /\ UNCHANGED list
       \/ list[t].fetch.kind # "idle" /\ UNCHANGED list
    /\ UNCHANGED <<server, hiddenIn, undoStack, excused, req, awaiting, decisions, surprises>>

\* Mutant: the list is not refreshed before its next page.
LoadMoreAtOnce ==
    /\ list[tab].next /\ list[tab].fetch.kind # "next" /\ Reads
    /\ list' = [list EXCEPT ![tab] = FetchNext(@)]
    /\ UNCHANGED <<server, page, req, awaiting, decisions, surprises>>

\* The button, or the J key at the end of the list.
loadMore ==
    /\ list[tab].next /\ list[tab].fetch.kind # "next" /\ Reads
    /\ IF list[tab].dirty
       THEN /\ list' = [list EXCEPT ![tab] = Refetched(@)]
            /\ awaiting' = awaiting \cup {tab}
       ELSE /\ list' = [list EXCEPT ![tab] = FetchNext(@)]
            /\ UNCHANGED awaiting
    /\ UNCHANGED <<server, page, req, decisions, surprises>>

Pages(t) ==
    IF list[t].fetch.kind = "next" \/ list[t].pages = <<>> THEN 1 ELSE Len(list[t].pages)

\* What the query holds after a fetch that read the pages of got.
Fetched(q, got, next) ==
    IF q.fetch.kind = "all"
    THEN [NoList EXCEPT !.pages = got, !.next = next,
                        !.shifted = q.fetch.shifted, !.joined = q.fetch.joined]
    ELSE [NoList EXCEPT !.pages = q.pages \o got, !.next = next,
                        !.shifted = q.shifted, !.joined = q.joined]

\* loadMore goes on after its refetch, even a failed one, and with the list
\* of the tab now open: a page may be asked for without the refresh.
GoesOn(t, ls) ==
    LET q == ls[tab] IN
    IF t \in awaiting /\ q.next
    THEN [ls EXCEPT ![tab] = [FetchNext(q) EXCEPT !.shifted = q.shifted \/ q.dirty]]
    ELSE ls

\* The answer for one page; the last one ends the fetch.
ReadPage(t) ==
    /\ list[t].fetch.kind # "idle"
    /\ LET q == list[t]
           n == Len(q.fetch.got) + 1 + IF q.fetch.kind = "next" THEN Len(q.pages) ELSE 0
           got == Append(q.fetch.got, ListLeads(t, n))
       IN  IF Len(got) < Pages(t) /\ HasNext(t, n)
           THEN /\ list' = [list EXCEPT ![t].fetch = [q.fetch EXCEPT !.got = got]]
                /\ UNCHANGED awaiting
           ELSE /\ list' = GoesOn(t, [list EXCEPT ![t] = Fetched(q, got, HasNext(t, n))])
                /\ awaiting' = awaiting \ {t}
    /\ UNCHANGED <<server, page, req, bounds>>

FetchFails(t) ==
    /\ list[t].fetch.kind # "idle" /\ surprises < MaxSurprises /\ surprises' = surprises + 1
    /\ list' = GoesOn(t, [list EXCEPT ![t] = [list[t] EXCEPT !.fetch = NoFetch, !.invalid = list[t].pages # <<>>]])
    /\ awaiting' = awaiting \ {t}
    /\ UNCHANGED <<server, page, req, decisions, loads>>

-----------------------------------------------------------------------------
ReviewNext ==
    \/ decide \/ runUndo \/ loadMore \/ Autopilot
    \/ \E i \in Requests :
          \/ DecideLead(i) \/ DecideLeadFails(i) \/ DismissUnseen(i)
          \/ decideAnswered(i) \/ undoAnswered(i) \/ AnswerLost(i) \/ OrphanEnds(i)
    \/ \E t \in Tabs : setTab(t) \/ ReadPage(t) \/ FetchFails(t)

ReviewSpec == ReviewInit /\ [][ReviewNext]_reviewVars

-----------------------------------------------------------------------------
(* Properties *)

(* The stored leads, the requests and the lists have their types; only a   *)
(* list with data has a next page, and a loadMore waits for a fetch.       *)
Row == [id : Leads, status : LeadStatuses]
ReviewTypeOK ==
    /\ lead \in [Leads -> [status : LeadStatuses, app : AppStatuses]]
    /\ UNION {unscored, preparing, excused, cut, unseen} \subseteq Leads
    /\ tab \in Tabs /\ hiddenIn \in [Leads -> Tabs \cup {"none"}]
    /\ \A n \in DOMAIN undoStack :
          undoStack[n].leads \in (SUBSET Leads) \ {{}} /\ undoStack[n].decision \in Decisions
    /\ \A i \in Requests :
          /\ req[i].pc \in {"idle", "sent", "orphan"} /\ req[i].kind \in {"decide", "undo"}
          /\ Range(req[i].steps) \subseteq Decisions
          /\ req[i].todo \cup req[i].failed \subseteq req[i].ids /\ req[i].ids \subseteq Leads
    /\ \A t \in Tabs :
          /\ Rows(t) \subseteq Row /\ (list[t].next => list[t].pages # <<>>)
          /\ list[t].fetch.kind \in {"idle", "all", "next"}
          /\ list[t].joined \subseteq Leads
    /\ \A t \in awaiting : list[t].fetch.kind # "idle"

(* A lead hidden in a tab does not belong to that tab any more, once       *)
(* nothing is under way on it: every failed decision and every undo shows  *)
(* it again ("so nothing is lost", Review.tsx:443), unless the autopilot   *)
(* moved it since or two decisions on it overlapped.                       *)
NothingLost ==
    \A l \in Leads :
        ~Busy(l) /\ l \notin excused /\ hiddenIn[l] # "none" => ~InTab(l, hiddenIn[l])

(* A list loaded to its end shows every lead of its tab that did not come  *)
(* to it since: decisions shift the server's offsets, and a page is asked  *)
(* for only after the list was refreshed (Review.tsx:129), unless a lead   *)
(* left the tab during a fetch or by a hand the page did not see, or the   *)
(* refresh failed or was of another tab.                                   *)
NoLeadSkipped ==
    \A t \in Tabs :
        LET q == list[t]
        IN  q.pages # <<>> /\ ~q.next /\ ~q.shifted /\ q.fetch.kind = "idle" =>
                \A l \in Leads : InTab(l, t) => l \in loaded(t) \/ l \in q.joined

(* An approved lead has an application and a queued application is one of  *)
(* an approved lead (DecideLead: "cancelling a queued application"), except *)
(* where a decision stopped between its statements, or the lead was        *)
(* dismissed without a look at its application: by a scoring of a lead the *)
(* user had approved, or by a dismissal that could not read it.            *)
QueueExplained ==
    \A l \in Leads :
        /\ lead[l].status = "approved" /\ lead[l].app \in {"none", "cancelled"} => l \in cut
        /\ lead[l].app = "queued" /\ lead[l].status # "approved" => l \in unseen

=============================================================================
