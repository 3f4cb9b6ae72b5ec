------------------------- MODULE Applications_proofs -------------------------
(* IInv is an inductive invariant of Spec, for any leads, requests, limits   *)
(* and bounds; what the runs check of the rows follows from it.  The proof   *)
(* follows the model: each statement of ApplicationStore preserves what IInv *)
(* says of the tables, each action what it says of the handlers and the run. *)
EXTENDS Applications, FiniteSetTheorems, TLAPS

TablesInv ==
    /\ lead \in [Leads -> LeadStatus]
    /\ applyEmail \in [Leads -> BOOLEAN]
    /\ app \in [Leads -> FitRow]
    /\ lastId \in [Leads -> Nat]
    /\ asked \in [Leads -> Nat]
    /\ streak \in [Leads -> Nat]
    /\ unrecorded \in [Leads -> BOOLEAN]
    /\ \A l \in Leads : streak[l] <= app[l].att /\ streak[l] <= MaxClaimAttempts

RunInv ==
    /\ phase \in Phases
    /\ budget \in Int
    /\ batch \subseteq Leads
    /\ cur \in Leads \cup {NoLead}
    /\ cold \subseteq Leads
    /\ settle \subseteq Leads
    /\ mem \in [Leads -> FitCopy]
    /\ phase \in {"work", "check", "send"} => cur \in Leads
    /\ phase \in {"check", "send"} => mem[cur].job

SentInv ==
    /\ emails \in [Leads -> Nat]
    /\ coldSent \in [Addresses -> Nat]
    /\ faults \in Nat

TodoInv == todo \in [Actors -> Seq(FitWrite)]

LEMMA FitIsTyped ==
    /\ FitRow \subseteq Row
    /\ FitCopy \subseteq Row
    /\ Seq(FitWrite) \subseteq Seq(Write)
  <1>1. FitRow \subseteq Row /\ FitCopy \subseteq Row
    BY DEF FitRow, FitCopy
  <1>2. FitWrite \subseteq Write
    BY DEF FitWrite
  <1>3. ASSUME NEW s \in Seq(FitWrite) PROVE s \in Seq(Write)
    BY <1>2
  <1> QED
    BY <1>1, <1>3

LEMMA Parts == IInv => TablesInv /\ RunInv /\ SentInv /\ TodoInv
  BY DEF IInv, TypeOK, TablesInv, RunInv, SentInv, TodoInv

LEMMA Whole == TablesInv /\ RunInv /\ SentInv /\ TodoInv => IInv
  <1>1. ASSUME TablesInv, RunInv, SentInv, TodoInv PROVE TypeOK
    BY <1>1, FitIsTyped DEF TypeOK, TablesInv, RunInv, SentInv, TodoInv
  <1> QED
    BY <1>1 DEF IInv, TablesInv, RunInv, SentInv, TodoInv

\* The same of the next state.
LEMMA WholeNext == TablesInv' /\ RunInv' /\ SentInv' /\ TodoInv' => IInv'
  BY Whole, PTL

\* Every statement of a handler is fit, so what is left of it is.
LEMMA ExecuteHead ==
    ASSUME NEW S, NEW s \in Seq(S), s # <<>>
    PROVE  Head(s) \in S /\ Tail(s) \in Seq(S)
  OBVIOUS

\* Handlers leave one or two statements, fit when each of them is.
LEMMA Sequences ==
    ASSUME NEW S
    PROVE  /\ <<>> \in Seq(S)
           /\ \A v \in S : <<v>> \in Seq(S)
           /\ \A v, w \in S : <<v, w>> \in Seq(S)
  OBVIOUS

LEMMA NoRowIsFit == NoRow \in FitRow /\ NoRow \in FitCopy /\ NoRow \in Row
  BY DEF NoRow, FitRow, FitCopy, Row, AppStatus

\* A statement that writes no row is fit, one that writes a row is when the
\* row is, and is not in progress.
LEMMA WritesAreFit ==
    ASSUME NEW l \in Leads
    PROVE  /\ \A r \in FitRow : r.st # "in_progress" =>
                  SaveRow(l, r) \in FitWrite /\ SaveRetry(l, r) \in FitWrite
           /\ \A r \in Row : Delete(l, r) \in FitWrite /\ Confirm(l, r) \in FitWrite
           /\ Queue(l) \in FitWrite
           /\ \A s \in LeadStatus : SetLead(l, s) \in FitWrite
  BY NoRowIsFit, FitIsTyped DEF FitWrite, Write, SaveRow, SaveRetry, Delete, Confirm, Queue,
                                SetLead, LeadStatus

\* The rows the code makes of a row r.
LEMMA QueuedIsFit ==
    ASSUME NEW r \in Row
    PROVE  /\ [r EXCEPT !.st = "queued", !.lease = "none"] \in FitRow
           /\ \A i \in Nat : [r EXCEPT !.id = i, !.st = "queued"] \in FitRow
  <1>1. /\ [r EXCEPT !.st = "queued", !.lease = "none"] \in Row
        /\ [r EXCEPT !.st = "queued", !.lease = "none"].st = "queued"
    BY DEF Row, AppStatus
  <1>2. ASSUME NEW i \in Nat
        PROVE  /\ [r EXCEPT !.id = i, !.st = "queued"] \in Row
               /\ [r EXCEPT !.id = i, !.st = "queued"].st = "queued"
    BY DEF Row, AppStatus
  <1> QED
    BY <1>1, <1>2 DEF FitRow

LEMMA ClaimedIsFit ==
    ASSUME NEW r \in Row, r.job, r.ch = "browser"
    PROVE  Claimed(r) \in FitRow /\ Claimed(r).att = r.att + 1
  <1> DEFINE claimed(n) == [r EXCEPT !.st = "in_progress", !.lease = "live", !.att = n]
  <1>1. ASSUME NEW n \in Nat
        PROVE  /\ claimed(n) \in Row
               /\ claimed(n).st = "in_progress" /\ claimed(n).lease = "live"
               /\ claimed(n).job = r.job /\ claimed(n).ch = r.ch
               /\ claimed(n).att = n
    BY DEF Row, AppStatus
  <1>2. r.att + 1 \in Nat
    BY DEF Row
  <1>3. Claimed(r) = claimed(r.att + 1)
    BY DEF Claimed
  <1> HIDE DEF claimed
  <1> QED
    BY <1>1, <1>2, <1>3 DEF FitRow

-----------------------------------------------------------------------------
(* Statements.                                                             *)

LEMMA PutRowFit ==
    ASSUME TablesInv, NEW l \in Leads, NEW r \in FitRow, PutRow(l, r)
    PROVE  /\ app' \in [Leads -> FitRow]
           /\ streak' \in [Leads -> Nat]
           /\ unrecorded' \in [Leads -> BOOLEAN]
           /\ \A k \in Leads : streak'[k] <= app'[k].att /\ streak'[k] <= MaxClaimAttempts
  <1>1. r.att \in Nat /\ 0 <= MaxClaimAttempts
    BY LimitsAssumption DEF LimitsAssumption, FitRow, Row
  <1>2. app' \in [Leads -> FitRow] /\ streak' \in [Leads -> Nat]
    BY DEF PutRow, TablesInv
  <1>3. unrecorded' \in [Leads -> BOOLEAN]
    BY DEF PutRow, TablesInv, ColdEmailed
  <1>4. ASSUME NEW k \in Leads
        PROVE  streak'[k] <= app'[k].att /\ streak'[k] <= MaxClaimAttempts
    BY <1>1 DEF PutRow, TablesInv
  <1> QED
    BY <1>2, <1>3, <1>4

LEMMA SaveFit ==
    ASSUME TablesInv, NEW l \in Leads, NEW r \in FitRow, Save(l, r)
    PROVE  /\ app' \in [Leads -> FitRow]
           /\ streak' \in [Leads -> Nat]
           /\ unrecorded' \in [Leads -> BOOLEAN]
           /\ \A k \in Leads : streak'[k] <= app'[k].att /\ streak'[k] <= MaxClaimAttempts
  <1>1. CASE PutRow(l, r)
    BY <1>1, PutRowFit
  <1>2. CASE UNCHANGED <<app, streak>> /\ unrecorded' = [unrecorded EXCEPT ![l] = @ \/ ColdEmailed(r)]
    BY <1>2 DEF TablesInv, ColdEmailed
  <1> QED
    BY <1>1, <1>2 DEF Save

LEMMA SetLeadStatusFit ==
    ASSUME TablesInv, NEW l \in Leads, NEW s \in LeadStatus, SetLeadStatus(l, s)
    PROVE  TablesInv'
  BY DEF TablesInv, SetLeadStatus, history

LEMMA SaveApplicationFit ==
    ASSUME TablesInv, NEW l \in Leads, NEW r \in FitRow, SaveApplication(l, r)
    PROVE  TablesInv'
  BY SaveFit DEF TablesInv, SaveApplication

LEMMA SaveRetriedFit ==
    ASSUME TablesInv, NEW l \in Leads, NEW r \in FitRow, SaveRetried(l, r)
    PROVE  TablesInv'
  <1>1. asked' \in [Leads -> Nat]
    BY DEF TablesInv, SaveRetried
  <1> QED
    BY <1>1, SaveFit DEF TablesInv, SaveRetried

LEMMA QueueApplicationFit ==
    ASSUME TablesInv, NEW l \in Leads, QueueApplication(l)
    PROVE  TablesInv'
  <1>1. CASE ~Exists(l)
    <2>a. lastId[l] + 1 \in Nat
      BY DEF TablesInv
    <2>1. [NoRow EXCEPT !.id = lastId[l] + 1, !.st = "queued"] \in FitRow
      BY <2>a, NoRowIsFit, QueuedIsFit
    <2>2. PutRow(l, [NoRow EXCEPT !.id = lastId[l] + 1, !.st = "queued"])
      BY <1>1 DEF QueueApplication
    <2>3. lastId' \in [Leads -> Nat] /\ asked' \in [Leads -> Nat]
      BY <1>1 DEF TablesInv, QueueApplication
    <2> QED
      BY <2>1, <2>2, <2>3, PutRowFit DEF TablesInv, QueueApplication
  <1>2. CASE app[l].st \in {"cancelled", "failed"} /\ Exists(l)
    <2>1. [app[l] EXCEPT !.st = "queued", !.lease = "none"] \in FitRow
      BY FitIsTyped, QueuedIsFit DEF TablesInv
    <2>2. PutRow(l, [app[l] EXCEPT !.st = "queued", !.lease = "none"])
      BY <1>2 DEF QueueApplication
    <2>3. lastId' \in [Leads -> Nat] /\ asked' \in [Leads -> Nat]
      BY <1>2 DEF TablesInv, QueueApplication
    <2> QED
      BY <2>1, <2>2, <2>3, PutRowFit DEF TablesInv, QueueApplication
  <1>3. CASE app[l].st \notin {"cancelled", "failed"} /\ Exists(l)
    BY <1>3 DEF TablesInv, QueueApplication
  <1> QED
    BY <1>1, <1>2, <1>3

LEMMA DeleteApplicationFit ==
    ASSUME TablesInv, NEW l \in Leads, NEW i, DeleteApplication(l, i)
    PROVE  TablesInv'
  <1>1. CASE PutRow(l, NoRow)
    BY <1>1, NoRowIsFit, PutRowFit DEF TablesInv, DeleteApplication
  <1>2. CASE UNCHANGED <<app, streak, unrecorded>>
    BY <1>2 DEF TablesInv, DeleteApplication
  <1> QED
    BY <1>1, <1>2 DEF DeleteApplication

LEMMA RequeueInterruptedFit ==
    ASSUME TablesInv, RequeueInterrupted
    PROVE  TablesInv'
  <1>1. ASSUME NEW l \in Leads
        PROVE  app'[l] \in FitRow /\ app'[l].att = app[l].att
    BY DEF TablesInv, RequeueInterrupted, RequeueAll, FitRow, Row, AppStatus
  <1>2. app' \in [Leads -> FitRow]
    BY <1>1 DEF RequeueInterrupted, RequeueAll
  <1> QED
    BY <1>1, <1>2 DEF TablesInv, RequeueInterrupted, history

\* A claim raises attempts with the streak, and only a row that is handed out
\* counts.
LEMMA ClaimFit ==
    ASSUME TablesInv, NEW l \in Leads, NEW h \in BOOLEAN,
           h => app[l].att + 1 <= MaxClaimAttempts,
           ClaimBrowserApplication(l, h)
    PROVE  TablesInv' /\ Claimed(app[l]) \in FitRow
  <1>1. app[l] \in FitRow /\ app[l].att \in Nat
    BY DEF TablesInv, FitRow, Row
  <1>2. app[l].job /\ app[l].ch = "browser"
    BY <1>1 DEF ClaimBrowserApplication, ClaimOrder, FitRow
  <1>3. Claimed(app[l]) \in FitRow /\ Claimed(app[l]).att = app[l].att + 1
    BY <1>1, <1>2, FitIsTyped, ClaimedIsFit
  <1>4. app' \in [Leads -> FitRow] /\ streak' \in [Leads -> Nat]
    BY <1>3 DEF ClaimBrowserApplication, TablesInv
  <1>5. ASSUME NEW k \in Leads
        PROVE  streak'[k] <= app'[k].att /\ streak'[k] <= MaxClaimAttempts
    <2>1. CASE k = l
      BY <2>1, <1>1, <1>3, LimitsAssumption
         DEF ClaimBrowserApplication, TablesInv, LimitsAssumption
    <2>2. CASE k # l
      BY <2>2 DEF ClaimBrowserApplication, TablesInv
    <2> QED
      BY <2>1, <2>2
  <1> QED
    BY <1>3, <1>4, <1>5 DEF TablesInv, ClaimBrowserApplication

LEMMA AdoptEmailFit ==
    ASSUME TablesInv, NEW l \in Leads, AdoptEmail(l)
    PROVE  TablesInv'
  BY DEF TablesInv, AdoptEmail, history

LEMMA LeaseExpiresFit ==
    ASSUME TablesInv, NEW l \in Leads, LeaseExpires(l)
    PROVE  TablesInv'
  <1>1. [app[l] EXCEPT !.lease = "expired"] \in FitRow
    BY DEF TablesInv, FitRow, Row
  <1>2. app' = [app EXCEPT ![l] = [app[l] EXCEPT !.lease = "expired"]]
    BY DEF LeaseExpires, TablesInv
  <1>3. app' \in [Leads -> FitRow]
    BY <1>1, <1>2 DEF TablesInv
  <1>4. ASSUME NEW k \in Leads PROVE app'[k].att = app[k].att
    BY <1>2 DEF TablesInv, FitRow, Row
  <1> QED
    BY <1>3, <1>4 DEF TablesInv, LeaseExpires, history

LEMMA DayPassesFit ==
    ASSUME TablesInv, DayPasses
    PROVE  TablesInv'
  <1>1. ASSUME NEW l \in Leads
        PROVE  app'[l] \in FitRow /\ app'[l].att = app[l].att
    <2>1. app'[l] = [app[l] EXCEPT !.recent = FALSE]
      BY DEF DayPasses
    <2>2. app[l] \in FitRow
      BY DEF TablesInv
    <2> QED
      BY <2>1, <2>2 DEF FitRow, Row
  <1>2. app' \in [Leads -> FitRow]
    BY <1>1 DEF DayPasses
  <1> QED
    BY <1>1, <1>2 DEF TablesInv, DayPasses, history

LEMMA SameTables ==
    ASSUME TablesInv, UNCHANGED store
    PROVE  TablesInv'
  BY DEF TablesInv, store, tables, history

-----------------------------------------------------------------------------
(* Rows.                                                                   *)

\* A row that leaves the three statuses the extension works on may be stored
\* whatever else it says, and is a copy a run may hold.
LEMMA OtherStatusIsFit ==
    ASSUME NEW r \in Row, r.st \notin {"ready", "in_progress", "needs_input"}
    PROVE  r \in FitRow /\ r \in FitCopy /\ r.st # "in_progress"
  BY DEF FitRow, FitCopy

LEMMA StoppedRows ==
    ASSUME NEW r \in Row
    PROVE  /\ [r EXCEPT !.st = "cancelled", !.lease = "none"] \in FitCopy
           /\ [r EXCEPT !.st = "failed", !.lease = "none"] \in FitCopy
           /\ [r EXCEPT !.st = "submitted", !.recent = TRUE] \in FitCopy
           /\ [r EXCEPT !.st = "failed"] \in FitCopy
           /\ [r EXCEPT !.st = "queued"] \in FitCopy
           /\ [r EXCEPT !.st = "preparing"] \in FitCopy
  <1>1. ASSUME NEW s \in {"cancelled", "failed"}
        PROVE  /\ [r EXCEPT !.st = s, !.lease = "none"] \in Row
               /\ [r EXCEPT !.st = s, !.lease = "none"].st = s
    BY DEF Row, AppStatus
  <1>2. /\ [r EXCEPT !.st = "submitted", !.recent = TRUE] \in Row
        /\ [r EXCEPT !.st = "submitted", !.recent = TRUE].st = "submitted"
    BY DEF Row, AppStatus
  <1>3. ASSUME NEW s \in {"failed", "queued", "preparing"}
        PROVE  [r EXCEPT !.st = s] \in Row /\ [r EXCEPT !.st = s].st = s
    BY DEF Row, AppStatus
  <1> QED
    BY <1>1, <1>2, <1>3 DEF FitCopy

LEMMA CopiesAreRows == FitCopy \subseteq FitRow /\ \A r \in FitCopy : r.st # "in_progress"
  BY DEF FitCopy, FitRow

\* What the user and the extension make of a row they work on.
LEMMA WorkedRows ==
    ASSUME NEW r \in FitRow, r.st \in {"ready", "in_progress", "needs_input"},
           NEW s \in {"ready", "needs_input"}
    PROVE  /\ [r EXCEPT !.st = s] \in FitRow
           /\ [r EXCEPT !.st = s].st = s
           /\ [r EXCEPT !.lease = "none"] \in Row
           /\ [[r EXCEPT !.lease = "none"] EXCEPT !.st = s] \in FitRow
           /\ [[r EXCEPT !.lease = "none"] EXCEPT !.st = s].st = s
           /\ \A n \in Nat :
                 /\ [[r EXCEPT !.lease = "none"] EXCEPT !.st = s, !.att = n] \in FitRow
                 /\ [[r EXCEPT !.lease = "none"] EXCEPT !.st = s, !.att = n].st = s
  <1>1. r \in Row /\ r.job /\ r.ch = "browser"
    BY DEF FitRow
  <1>2. /\ [r EXCEPT !.st = s] \in Row
        /\ [r EXCEPT !.st = s].st = s
        /\ [r EXCEPT !.st = s].job = r.job
        /\ [r EXCEPT !.st = s].ch = r.ch
    BY <1>1 DEF Row, AppStatus
  <1>3. [r EXCEPT !.lease = "none"] \in Row
    BY <1>1 DEF Row
  <1>4. /\ [[r EXCEPT !.lease = "none"] EXCEPT !.st = s] \in Row
        /\ [[r EXCEPT !.lease = "none"] EXCEPT !.st = s].st = s
        /\ [[r EXCEPT !.lease = "none"] EXCEPT !.st = s].job = r.job
        /\ [[r EXCEPT !.lease = "none"] EXCEPT !.st = s].ch = r.ch
    BY <1>1 DEF Row, AppStatus
  <1>5. ASSUME NEW n \in Nat
        PROVE
        /\ [[r EXCEPT !.lease = "none"] EXCEPT !.st = s, !.att = n] \in Row
        /\ [[r EXCEPT !.lease = "none"] EXCEPT !.st = s, !.att = n].st = s
        /\ [[r EXCEPT !.lease = "none"] EXCEPT !.st = s, !.att = n].job = r.job
        /\ [[r EXCEPT !.lease = "none"] EXCEPT !.st = s, !.att = n].ch = r.ch
    BY <1>1 DEF Row, AppStatus
  <1> QED
    BY <1>1, <1>2, <1>3, <1>4, <1>5 DEF FitRow

LEMMA RetriedIsFit ==
    ASSUME NEW r \in Row
    PROVE  Retried(r) \in FitRow /\ Retried(r).st # "in_progress"
  <1> DEFINE retried(s) == [r EXCEPT !.st = s, !.lease = "none", !.att = 0]
  <1>1. ASSUME NEW s \in {"ready", "queued"}
        PROVE  /\ retried(s) \in Row
               /\ retried(s).st = s
               /\ retried(s).job = r.job
               /\ retried(s).ch = r.ch
    BY DEF Row, AppStatus
  <1>2. Retried(r) = IF r.job /\ r.ch = "browser" THEN retried("ready") ELSE retried("queued")
    BY DEF Retried
  <1> HIDE DEF retried
  <1> QED
    BY <1>1, <1>2 DEF FitRow

-----------------------------------------------------------------------------
(* Requests.                                                               *)

LEMMA HandleFit ==
    ASSUME IInv, NEW r \in Requests, NEW ws \in Seq(FitWrite), Handle(r, ws)
    PROVE  IInv'
  <1>1. TablesInv' /\ RunInv' /\ SentInv'
    BY Parts, SameTables DEF Handle, RunInv, SentInv, runVars, sent
  <1>2. TodoInv'
    BY Parts DEF Handle, TodoInv, Actors
  <1> QED
    BY <1>1, <1>2, WholeNext

\* The statements of the handlers that save a stopped row and set a lead.
LEMMA StopsAreFit ==
    ASSUME NEW l \in Leads, NEW r \in FitCopy, NEW s \in LeadStatus
    PROVE  /\ <<SaveRow(l, r), SetLead(l, s)>> \in Seq(FitWrite)
           /\ <<SaveRow(l, r)>> \in Seq(FitWrite)
  <1>1. SaveRow(l, r) \in FitWrite /\ SetLead(l, s) \in FitWrite
    BY WritesAreFit, CopiesAreRows
  <1> QED
    BY <1>1, Sequences

LEMMA LeadStatuses ==
    {"new", "approved", "dismissed", "applying", "applied", "failed"} \subseteq LeadStatus
  BY DEF LeadStatus

LEMMA RowsAreTyped ==
    ASSUME IInv, NEW l \in Leads
    PROVE  app[l] \in FitRow /\ app[l] \in Row /\ mem[l] \in FitCopy /\ mem[l] \in Row
           /\ app[l].att \in Nat /\ mem[l].att \in Nat
  <1>1. app[l] \in FitRow /\ mem[l] \in FitCopy
    BY Parts DEF TablesInv, RunInv
  <1> QED
    BY <1>1, FitIsTyped DEF Row

LEMMA UserStepFit ==
    ASSUME IInv, NEW r \in Requests, NEW l \in Leads, UserStep(r, l)
    PROVE  IInv'
  <1> USE RowsAreTyped, LeadStatuses, WritesAreFit, Sequences
  <1>1. CASE Approve(r, l)
    <2>1. <<SetLead(l, "approved"), Queue(l)>> \in Seq(FitWrite)
      OBVIOUS
    <2> QED
      BY <1>1, <2>1, HandleFit DEF Approve
  <1>2. CASE Dismiss(r, l)
    <2>1. <<SetLead(l, "dismissed")>> \in Seq(FitWrite)
      OBVIOUS
    <2>2. <<SaveRow(l, [app[l] EXCEPT !.st = "cancelled", !.lease = "none"]),
            SetLead(l, "dismissed")>> \in Seq(FitWrite)
      BY StoppedRows, StopsAreFit
    <2> QED
      BY <1>2, <2>1, <2>2, HandleFit DEF Dismiss
  <1>3. CASE Reset(r, l)
    <2>1. <<SetLead(l, "new")>> \in Seq(FitWrite)
      OBVIOUS
    <2>2. <<Delete(l, app[l]), SetLead(l, "new")>> \in Seq(FitWrite)
      OBVIOUS
    <2> QED
      BY <1>3, <2>1, <2>2, HandleFit DEF Reset
  <1>4. CASE SaveAnswers(r, l)
    <2>1. <<SaveRow(l, [app[l] EXCEPT !.st = "ready"])>> \in Seq(FitWrite)
      BY <1>4, WorkedRows DEF SaveAnswers
    <2> QED
      BY <1>4, <2>1, HandleFit DEF SaveAnswers
  <1>5. CASE RetryApplication(r, l)
    <2>1. <<SaveRetry(l, Retried(app[l])), SetLead(l, "applying")>> \in Seq(FitWrite)
      BY RetriedIsFit
    <2> QED
      BY <1>5, <2>1, HandleFit DEF RetryApplication
  <1>6. CASE CancelApplication(r, l)
    <2>1. <<SaveRow(l, [app[l] EXCEPT !.st = "cancelled", !.lease = "none"]),
            SetLead(l, "dismissed")>> \in Seq(FitWrite)
      BY StoppedRows, StopsAreFit
    <2> QED
      BY <1>6, <2>1, HandleFit DEF CancelApplication
  <1> QED
    BY <1>1, <1>2, <1>3, <1>4, <1>5, <1>6 DEF UserStep

LEMMA ClaimNextFit ==
    ASSUME IInv, NEW r \in Requests, NEW l \in Leads, ClaimNext(r, l)
    PROVE  IInv'
  <1> DEFINE handedOut == app[l].att + 1 <= MaxClaimAttempts
  <1>1. TablesInv' /\ Claimed(app[l]) \in Row
    <2>1. ClaimBrowserApplication(l, handedOut) /\ handedOut \in BOOLEAN
      BY DEF ClaimNext
    <2> QED
      BY <2>1, Parts, ClaimFit, FitIsTyped
  <1>2. <<SaveRow(l, [Claimed(app[l]) EXCEPT !.st = "failed", !.lease = "none"]),
          SetLead(l, "failed")>> \in Seq(FitWrite)
    BY <1>1, StoppedRows, StopsAreFit, LeadStatuses
  <1>3. TodoInv'
    BY <1>2, Parts, Sequences DEF ClaimNext, TodoInv, Actors
  <1>4. RunInv' /\ SentInv'
    BY Parts DEF ClaimNext, RunInv, SentInv, runVars, sent
  <1> QED
    BY <1>1, <1>3, <1>4, WholeNext

LEMMA ReportResultFit ==
    ASSUME IInv, NEW r \in Requests, NEW l \in Leads, ReportResult(r, l)
    PROVE  IInv'
  <1> DEFINE row == [app[l] EXCEPT !.lease = "none"]
  <1>0. row \in Row /\ row.att \in Nat
    BY RowsAreTyped DEF Row
  <1>1. CASE Handle(r, <<SaveRow(l, [row EXCEPT !.st = "submitted", !.recent = TRUE]),
                         SetLead(l, "applied")>>)
    BY <1>1, <1>0, StoppedRows, StopsAreFit, LeadStatuses, HandleFit
  <1>2. CASE /\ app[l].st \in {"in_progress", "ready", "needs_input"}
             /\ Handle(r, <<SaveRow(l, [row EXCEPT !.st = "needs_input"])>>)
    BY <1>2, RowsAreTyped, WorkedRows, WritesAreFit, Sequences, HandleFit
  <1>3. CASE Handle(r, <<SaveRow(l, [row EXCEPT !.st = "failed"]), SetLead(l, "failed")>>)
    BY <1>3, <1>0, StoppedRows, StopsAreFit, LeadStatuses, HandleFit
  <1>4. CASE /\ app[l].st \in {"in_progress", "ready", "needs_input"}
             /\ Handle(r, <<SaveRow(l, [row EXCEPT !.st = "ready",
                                        !.att = IF @ > 0 THEN @ - 1 ELSE 0])>>)
    <2>1. PICK n \in Nat : n = IF row.att > 0 THEN row.att - 1 ELSE 0
      BY <1>0
    <2>2. Handle(r, <<SaveRow(l, [row EXCEPT !.st = "ready", !.att = n])>>)
      BY <1>4, <2>1
    <2> QED
      BY <1>4, <2>2, RowsAreTyped, WorkedRows, WritesAreFit, Sequences, HandleFit
  <1> QED
    BY <1>1, <1>2, <1>3, <1>4 DEF ReportResult

LEMMA MatchConfirmationFit ==
    ASSUME IInv, NEW r \in Requests, NEW l \in Leads, MatchConfirmation(r, l)
    PROVE  IInv'
  BY RowsAreTyped, WritesAreFit, Sequences, HandleFit DEF MatchConfirmation

LEMMA ExecFit ==
    ASSUME IInv, NEW a \in Actors, Exec(a)
    PROVE  IInv'
  <1> DEFINE w == Head(todo[a])
  <1>1. todo[a] \in Seq(FitWrite) /\ todo[a] # <<>>
    BY Parts DEF TodoInv, Exec
  <1>2. w \in FitWrite /\ Tail(todo[a]) \in Seq(FitWrite)
    BY <1>1, ExecuteHead
  <1>3. /\ w.l \in Leads /\ w.st \in LeadStatus
        /\ w.do \in {"save", "retry"} => w.row \in FitRow
    BY <1>2 DEF FitWrite, Write
  <1> HIDE DEF w
  <1>4. TablesInv'
    <2>1. CASE w.do = "save" /\ SaveApplication(w.l, w.row)
      BY <2>1, <1>3, Parts, SaveApplicationFit
    <2>2. CASE w.do = "retry" /\ SaveRetried(w.l, w.row)
      BY <2>2, <1>3, Parts, SaveRetriedFit
    <2>3. CASE w.do = "queue" /\ QueueApplication(w.l)
      BY <2>3, <1>3, Parts, QueueApplicationFit
    <2>4. CASE w.do = "delete" /\ DeleteApplication(w.l, w.row.id)
      BY <2>4, <1>3, Parts, DeleteApplicationFit
    <2>5. CASE w.do = "lead" /\ SetLeadStatus(w.l, w.st)
      BY <2>5, <1>3, Parts, SetLeadStatusFit
    <2>6. CASE w.do = "confirm" /\ UNCHANGED store
      BY <2>6, Parts, SameTables
    <2> QED
      BY <2>1, <2>2, <2>3, <2>4, <2>5, <2>6 DEF Exec, w
  <1>5. Confirmed(w.l, w.row.id) \in Seq(FitWrite)
    <2>1. [app[w.l] EXCEPT !.st = "submitted", !.recent = TRUE] \in FitCopy
      BY <1>3, RowsAreTyped, StoppedRows
    <2> QED
      BY <2>1, <1>3, StopsAreFit, LeadStatuses, Sequences DEF Confirmed
  <1>6. TodoInv'
    <2>1. todo' = [todo EXCEPT ![a] = IF w.do = "confirm" THEN Confirmed(w.l, w.row.id)
                                      ELSE Tail(todo[a])]
      BY Parts DEF Exec, w, TodoInv
    <2> QED
      BY <2>1, <1>2, <1>5, Parts DEF TodoInv
  <1>7. RunInv' /\ SentInv'
    BY Parts DEF Exec, RunInv, SentInv, runVars, sent
  <1> QED
    BY <1>4, <1>6, <1>7, WholeNext

LEMMA InterruptFit ==
    ASSUME IInv, NEW r \in Requests, Interrupt(r)
    PROVE  IInv'
  <1>1. TablesInv' /\ RunInv'
    BY Parts, SameTables DEF Interrupt, RunInv, runVars
  <1>2. TodoInv' /\ SentInv'
    BY Parts, Sequences DEF Interrupt, TodoInv, SentInv, sent, Actors
  <1> QED
    BY <1>1, <1>2, WholeNext

LEMMA DismissUnseenFit ==
    ASSUME IInv, NEW r \in Requests, NEW l \in Leads, DismissUnseen(r, l)
    PROVE  IInv'
  <1>1. TablesInv' /\ RunInv' /\ SentInv'
    BY Parts, SameTables DEF DismissUnseen, RunInv, SentInv, runVars, sent
  <1>2. <<SetLead(l, "dismissed")>> \in Seq(FitWrite)
    BY WritesAreFit, LeadStatuses, Sequences
  <1>3. TodoInv'
    BY <1>2, Parts DEF DismissUnseen, TodoInv, Actors
  <1> QED
    BY <1>1, <1>3, WholeNext

-----------------------------------------------------------------------------
(* The run.                                                                *)

LEMMA StageStartFit ==
    ASSUME IInv, BeginApplyStage \/ CountUsed \/ LoadQueued \/ BatchDone \/ Settled
    PROVE  IInv'
  <1>1. CASE BeginApplyStage
    <2>1. TablesInv'
      BY <1>1, Parts, RequeueInterruptedFit DEF BeginApplyStage
    <2>2. RunInv' /\ SentInv' /\ TodoInv'
      BY <1>1, Parts DEF BeginApplyStage, RunInv, SentInv, TodoInv, sent, Phases
    <2> QED
      BY <2>1, <2>2, WholeNext
  <1>2. CASE CountUsed
    <2>1. TablesInv' /\ SentInv' /\ TodoInv'
      BY <1>2, Parts, SameTables DEF CountUsed, SentInv, TodoInv, sent
    <2>2. budget' \in Int
      <3>1. IsFiniteSet({l \in Leads : \/ app[l].st = "submitted" /\ app[l].recent
                                       \/ app[l].st \in {"ready", "in_progress"}})
        BY LeadsAssumption, FS_Subset DEF LeadsAssumption
      <3>2. Used \in Nat
        BY <3>1, FS_CardinalityType DEF Used
      <3> QED
        BY <1>2, <3>2, LimitsAssumption DEF CountUsed, LimitsAssumption
    <2>3. RunInv'
      BY <1>2, <2>2, Parts DEF CountUsed, RunInv, Phases
    <2> QED
      BY <2>1, <2>3, WholeNext
  <1>3. CASE LoadQueued
    <2>1. TablesInv' /\ SentInv' /\ TodoInv'
      BY <1>3, Parts, SameTables DEF LoadQueued, SentInv, TodoInv, sent
    <2>2. PICK B \in SUBSET {l \in Leads : app[l].st = "queued"} :
            batch' = B /\ mem' = [l \in Leads |-> IF l \in B THEN app[l] ELSE NoRow]
      BY <1>3 DEF LoadQueued
    <2>3. ASSUME NEW l \in Leads PROVE (IF l \in B THEN app[l] ELSE NoRow) \in FitCopy
      BY <2>2, RowsAreTyped, OtherStatusIsFit, NoRowIsFit
    <2>4. mem' \in [Leads -> FitCopy]
      BY <2>2, <2>3
    <2>5. RunInv'
      BY <1>3, <2>2, <2>4, Parts DEF LoadQueued, RunInv, Phases
    <2> QED
      BY <2>1, <2>5, WholeNext
  <1>4. CASE BatchDone \/ Settled
    <2>1. TablesInv' /\ SentInv' /\ TodoInv'
      BY <1>4, Parts, SameTables DEF BatchDone, Settled, SentInv, TodoInv, sent
    <2>2. RunInv'
      BY <1>4, Parts DEF BatchDone, Settled, RunInv, Phases
    <2> QED
      BY <2>1, <2>2, WholeNext
  <1> QED
    BY <1>1, <1>2, <1>3, <1>4

LEMMA PrepareNextFit ==
    ASSUME IInv, NEW l \in Leads, PrepareNext(l)
    PROVE  IInv'
  <1>1. TablesInv' /\ SentInv'
    BY Parts, SameTables DEF PrepareNext, SentInv, sent
  <1>2. mem' \in [Leads -> FitCopy]
    <2>1. [mem[l] EXCEPT !.st = "preparing"] \in FitCopy
      BY RowsAreTyped, StoppedRows
    <2>2. mem' = [mem EXCEPT ![l] = [mem[l] EXCEPT !.st = "preparing"]]
      BY Parts DEF PrepareNext, RunInv
    <2> QED
      BY <2>1, <2>2, Parts DEF RunInv
  <1>3. RunInv'
    BY <1>2, Parts DEF PrepareNext, RunInv, Phases
  <1>4. TodoInv'
    BY <1>2, Parts, StopsAreFit, LeadStatuses DEF PrepareNext, TodoInv
  <1> QED
    BY <1>1, <1>3, <1>4, WholeNext

\* The end of prepareOne: fit when the row it saves is.
LEMMA ConcludeFit ==
    ASSUME IInv, phase \in {"work", "check", "send"},
           NEW r \in FitRow, r.st # "in_progress", NEW ws,
           ws = <<>> \/ \E s \in LeadStatus : ws = <<SetLead(cur, s)>>,
           Conclude(r, ws)
    PROVE  /\ TodoInv'
           /\ mem' \in [Leads -> FitCopy]
           /\ cur' = NoLead
           /\ phase' = "pick"
  <1>1. cur \in Leads
    BY Parts DEF RunInv
  <1>2. <<SaveRow(cur, r)>> \o ws \in Seq(FitWrite)
    <2>1. SaveRow(cur, r) \in FitWrite
      BY <1>1, WritesAreFit
    <2>2. CASE ws = <<>>
      BY <2>1, <2>2
    <2>3. CASE \E s \in LeadStatus : ws = <<SetLead(cur, s)>>
      <3>1. PICK s \in LeadStatus : ws = <<SetLead(cur, s)>>
        BY <2>3
      <3>2. SetLead(cur, s) \in FitWrite
        BY <1>1, WritesAreFit
      <3>3. <<SaveRow(cur, r)>> \in Seq(FitWrite) /\ ws \in Seq(FitWrite)
        BY <2>1, <3>1, <3>2, Sequences
      <3> QED
        BY <3>3
    <2> QED
      BY <2>2, <2>3
  <1>3. TodoInv'
    BY <1>2, Parts DEF Conclude, TodoInv
  <1>4. mem' \in [Leads -> FitCopy]
    BY <1>1, NoRowIsFit, Parts DEF Conclude, RunInv
  <1> QED
    BY <1>3, <1>4 DEF Conclude

LEMMA PrepareFailsFit ==
    ASSUME IInv, PrepareFails
    PROVE  IInv'
  <1> DEFINE row == [mem[cur] EXCEPT !.st = "failed", !.job = FALSE]
  <1>1. TablesInv' /\ SentInv'
    BY Parts, SameTables DEF PrepareFails, SentInv, sent
  <1>2. row \in Row /\ row.st = "failed"
    <2>1. mem[cur] \in Row
      BY Parts, RowsAreTyped DEF PrepareFails, At, RunInv
    <2> QED
      BY <2>1 DEF Row, AppStatus
  <1>3. row \in FitRow /\ row.st # "in_progress"
    BY <1>2, OtherStatusIsFit
  <1>4. Conclude(row, <<SetLead(cur, "failed")>>) /\ phase = "work"
    BY DEF PrepareFails, At
  <1> HIDE DEF row
  <1>5. TodoInv' /\ mem' \in [Leads -> FitCopy] /\ cur' = NoLead /\ phase' = "pick"
    BY <1>3, <1>4, ConcludeFit, LeadStatuses
  <1>6. RunInv'
    BY <1>5, Parts DEF PrepareFails, RunInv, Phases
  <1> QED
    BY <1>1, <1>5, <1>6, WholeNext

LEMMA PrepareLaterFit ==
    ASSUME IInv, PrepareLater
    PROVE  IInv'
  <1> DEFINE row == [mem[cur] EXCEPT !.job = FALSE, !.att = @ + 1]
  <1>1. TablesInv' /\ SentInv'
    BY Parts, SameTables DEF PrepareLater, SentInv, sent
  <1>2. row \in Row
    <2>1. mem[cur] \in Row /\ mem[cur].att + 1 \in Nat
      BY Parts, RowsAreTyped DEF PrepareLater, At, RunInv
    <2>2. \A n \in Nat : [mem[cur] EXCEPT !.job = FALSE, !.att = n] \in Row
      BY <2>1 DEF Row
    <2>3. row = [mem[cur] EXCEPT !.job = FALSE, !.att = mem[cur].att + 1]
      OBVIOUS
    <2> QED
      BY <2>1, <2>2, <2>3
  <1>3. /\ phase = "work"
        /\ \/ Conclude([row EXCEPT !.st = "failed"], <<SetLead(cur, "failed")>>)
           \/ Conclude([row EXCEPT !.st = "queued"], <<SetLead(cur, "approved")>>)
    BY DEF PrepareLater, At
  <1> HIDE DEF row
  <1>4. /\ [row EXCEPT !.st = "failed"] \in FitCopy
        /\ [row EXCEPT !.st = "queued"] \in FitCopy
    BY <1>2, StoppedRows
  <1>5. TodoInv' /\ mem' \in [Leads -> FitCopy] /\ cur' = NoLead /\ phase' = "pick"
    <2>1. CASE Conclude([row EXCEPT !.st = "failed"], <<SetLead(cur, "failed")>>)
      BY <2>1, <1>3, <1>4, CopiesAreRows, ConcludeFit, LeadStatuses
    <2>2. CASE Conclude([row EXCEPT !.st = "queued"], <<SetLead(cur, "approved")>>)
      BY <2>2, <1>3, <1>4, CopiesAreRows, ConcludeFit, LeadStatuses
    <2> QED
      BY <1>3, <2>1, <2>2
  <1>6. RunInv'
    BY <1>5, Parts DEF PrepareLater, RunInv, Phases
  <1> QED
    BY <1>1, <1>5, <1>6, WholeNext

LEMMA PrepareByColdEmailFit ==
    ASSUME IInv, PrepareByColdEmail
    PROVE  IInv'
  <1>1. TablesInv' /\ SentInv' /\ TodoInv'
    BY Parts, SameTables DEF PrepareByColdEmail, SentInv, sent, TodoInv
  <1>2. cur \in Leads
    BY Parts DEF PrepareByColdEmail, At, RunInv
  <1>3. mem' \in [Leads -> FitCopy]
    <2>1. /\ [mem[cur] EXCEPT !.job = FALSE] \in Row
          /\ [mem[cur] EXCEPT !.job = FALSE].st = mem[cur].st
      BY <1>2, RowsAreTyped DEF Row
    <2>2. [mem[cur] EXCEPT !.job = FALSE] \in FitCopy
      BY <1>2, <2>1, RowsAreTyped DEF FitCopy
    <2>3. mem' = [mem EXCEPT ![cur] = [mem[cur] EXCEPT !.job = FALSE]]
      BY Parts DEF PrepareByColdEmail, RunInv
    <2> QED
      BY <2>2, <2>3, Parts DEF RunInv
  <1>4. RunInv'
    BY <1>2, <1>3, Parts DEF PrepareByColdEmail, RunInv, Phases
  <1> QED
    BY <1>1, <1>4, WholeNext

\* Copies handed back to the queue.
LEMMA HandBackFit ==
    ASSUME IInv, NEW S,
           mem' = [l \in Leads |-> IF l \in S THEN [mem[l] EXCEPT !.st = "queued"] ELSE NoRow]
    PROVE  mem' \in [Leads -> FitCopy]
  <1>1. ASSUME NEW l \in Leads PROVE [mem[l] EXCEPT !.st = "queued"] \in FitCopy
    BY RowsAreTyped, StoppedRows
  <1> QED
    BY <1>1, NoRowIsFit

LEMMA PrepareWithoutKeyFit ==
    ASSUME IInv, PrepareWithoutKey
    PROVE  IInv'
  <1>1. TablesInv' /\ SentInv'
    BY Parts, SameTables DEF PrepareWithoutKey, SentInv, sent
  <1>2. cur \in Leads
    BY Parts DEF PrepareWithoutKey, At, RunInv
  <1>3. TodoInv'
    <2>1. PICK j \in BOOLEAN :
            todo' = [todo EXCEPT !["run"] =
                       <<SaveRow(cur, [mem[cur] EXCEPT !.st = "queued", !.job = j])>>]
      BY DEF PrepareWithoutKey
    <2>2. /\ [mem[cur] EXCEPT !.st = "queued", !.job = j] \in Row
          /\ [mem[cur] EXCEPT !.st = "queued", !.job = j].st = "queued"
      BY <1>2, RowsAreTyped DEF Row, AppStatus
    <2>3. <<SaveRow(cur, [mem[cur] EXCEPT !.st = "queued", !.job = j])>> \in Seq(FitWrite)
      BY <1>2, <2>2, OtherStatusIsFit, StopsAreFit, LeadStatuses
    <2> QED
      BY <2>1, <2>3, Parts DEF TodoInv
  <1>4. mem' \in [Leads -> FitCopy]
    BY HandBackFit DEF PrepareWithoutKey
  <1>5. RunInv'
    BY <1>4, Parts DEF PrepareWithoutKey, RunInv, Phases
  <1> QED
    BY <1>1, <1>3, <1>5, WholeNext

LEMMA PrepareTailoredFit ==
    ASSUME IInv, PrepareTailored
    PROVE  IInv'
  <1>1. cur \in Leads
    BY Parts DEF PrepareTailored, At, RunInv
  <1>2. TablesInv'
    BY <1>1, Parts, SameTables, AdoptEmailFit DEF PrepareTailored
  <1>3. SentInv' /\ TodoInv'
    BY Parts DEF PrepareTailored, SentInv, sent, TodoInv
  <1>4. mem' \in [Leads -> FitCopy] /\ mem'[cur].job
    <2> DEFINE row(c) == [mem[cur] EXCEPT !.job = TRUE, !.ch = c]
    <2>1. ASSUME NEW c \in {"email", "browser"}
          PROVE  row(c) \in Row /\ row(c).st = mem[cur].st /\ row(c).job
      BY <1>1, RowsAreTyped DEF Row
    <2>2. PICK c \in {"email", "browser"} : mem' = [mem EXCEPT ![cur] = row(c)]
      BY <1>1, Parts DEF PrepareTailored, RunInv
    <2>3. row(c) \in FitCopy
      BY <1>1, <2>1, RowsAreTyped DEF FitCopy
    <2> HIDE DEF row
    <2> QED
      BY <1>1, <2>1, <2>2, <2>3, Parts DEF RunInv
  <1>5. RunInv'
    BY <1>1, <1>4, Parts DEF PrepareTailored, RunInv, Phases
  <1> QED
    BY <1>2, <1>3, <1>5, WholeNext

\* A tailored copy of the browser channel is what the extension may be handed.
LEMMA CheckCancelledFit ==
    ASSUME IInv, CheckCancelled
    PROVE  IInv'
  <1>1. TablesInv' /\ SentInv'
    BY Parts, SameTables DEF CheckCancelled, SentInv, sent
  <1>2. /\ phase = "check" /\ cur \in Leads /\ mem[cur].job
        /\ mem[cur] \in Row /\ mem[cur] \in FitCopy
    BY Parts, RowsAreTyped DEF CheckCancelled, At, RunInv
  <1>3. CASE /\ mem' = [mem EXCEPT ![cur] = NoRow]
             /\ cur' = NoLead /\ phase' = "pick" /\ UNCHANGED todo
    <2>1. TodoInv' /\ mem' \in [Leads -> FitCopy]
      BY <1>3, Parts, NoRowIsFit DEF TodoInv, RunInv
    <2>2. RunInv'
      BY <1>3, <2>1, Parts DEF CheckCancelled, RunInv, Phases
    <2> QED
      BY <1>1, <2>1, <2>2, WholeNext
  <1>4. CASE phase' = "send" /\ UNCHANGED <<mem, cur, todo>>
    <2>1. TodoInv'
      BY <1>4, Parts DEF TodoInv
    <2>2. RunInv'
      BY <1>2, <1>4, Parts DEF CheckCancelled, RunInv, Phases
    <2> QED
      BY <1>1, <2>1, <2>2, WholeNext
  <1>5. CASE /\ mem[cur].ch = "browser"
             /\ Conclude([mem[cur] EXCEPT !.st = "ready", !.att = 0], <<>>)
    <2> DEFINE row == [mem[cur] EXCEPT !.st = "ready", !.att = 0]
    <2>1. row \in Row /\ row.st = "ready" /\ row.job = mem[cur].job /\ row.ch = mem[cur].ch
      BY <1>2 DEF Row, AppStatus
    <2>2. row \in FitRow /\ row.st # "in_progress"
      BY <1>2, <1>5, <2>1 DEF FitRow
    <2> HIDE DEF row
    <2>3. TodoInv' /\ mem' \in [Leads -> FitCopy] /\ cur' = NoLead /\ phase' = "pick"
      BY <1>2, <1>5, <2>2, ConcludeFit DEF row
    <2>4. RunInv'
      BY <2>3, Parts DEF CheckCancelled, RunInv, Phases
    <2> QED
      BY <1>1, <2>3, <2>4, WholeNext
  <1> QED
    BY <1>3, <1>4, <1>5 DEF CheckCancelled

LEMMA SendApplicationFit ==
    ASSUME IInv, SendApplication
    PROVE  IInv'
  <1>1. phase = "send" /\ cur \in Leads /\ mem[cur] \in Row
    BY Parts, RowsAreTyped DEF SendApplication, At, RunInv
  <1>2. TablesInv'
    BY Parts, SameTables DEF SendApplication
  <1>3. SentInv'
    BY Parts DEF SendApplication, SentInv
  <1>4. TodoInv' /\ mem' \in [Leads -> FitCopy] /\ cur' = NoLead /\ phase' = "pick"
    <2>1. CASE Conclude([mem[cur] EXCEPT !.st = "submitted", !.recent = TRUE],
                        <<SetLead(cur, "applied")>>)
      BY <1>1, <2>1, StoppedRows, CopiesAreRows, ConcludeFit, LeadStatuses
    <2>2. CASE Conclude([mem[cur] EXCEPT !.st = "failed"], <<SetLead(cur, "failed")>>)
      BY <1>1, <2>2, StoppedRows, CopiesAreRows, ConcludeFit, LeadStatuses
    <2> QED
      BY <2>1, <2>2 DEF SendApplication
  <1>5. RunInv'
    BY <1>4, Parts DEF SendApplication, RunInv, Phases
  <1> QED
    BY <1>2, <1>3, <1>4, <1>5, WholeNext

LEMMA SendColdEmailFit ==
    ASSUME IInv, NEW d \in Addresses, SendColdEmail(d)
    PROVE  IInv'
  <1>1. TablesInv' /\ TodoInv'
    BY Parts, SameTables DEF SendColdEmail, Settling, TodoInv
  <1>2. SentInv'
    BY Parts DEF SendColdEmail, Settling, SentInv, sent
  <1>3. ASSUME NEW l \in Leads
        PROVE  /\ \A recorded \in BOOLEAN : Emailed(mem[l], recorded) \in FitCopy
               /\ [mem[l] EXCEPT !.st = "failed"] \in FitCopy
               /\ [mem[l] EXCEPT !.st = "queued"] \in FitCopy
               /\ mem[l] \in FitCopy
    <2>1. ASSUME NEW recorded \in BOOLEAN
          PROVE  Emailed(mem[l], recorded) \in FitCopy
      <3>1. mem[l] \in Row /\ (mem[l].job \/ recorded) \in BOOLEAN
        BY RowsAreTyped DEF Row
      <3>2. Emailed(mem[l], recorded) \in Row /\ Emailed(mem[l], recorded).st = "submitted"
        BY <3>1 DEF Emailed, Row, AppStatus
      <3> QED
        BY <3>2, OtherStatusIsFit
    <2> QED
      BY <2>1, RowsAreTyped, StoppedRows, OtherStatusIsFit
  <1>4. mem' \in [Leads -> FitCopy]
    <2> DEFINE group == {l \in cold : Contact[l] = d}
    <2>1. CASE Outcome(group, "failed") \/ Outcome(cold, "queued")
      BY <1>3, <2>1 DEF Outcome
    <2>2. CASE \E S \in SUBSET group :
                  mem' = [l \in Leads |-> IF l \in group THEN Emailed(mem[l], l \in S) ELSE mem[l]]
      <3>1. PICK S \in SUBSET group :
               mem' = [l \in Leads |-> IF l \in group THEN Emailed(mem[l], l \in S) ELSE mem[l]]
        BY <2>2
      <3>2. ASSUME NEW l \in Leads
            PROVE  (IF l \in group THEN Emailed(mem[l], l \in S) ELSE mem[l]) \in FitCopy
        <4>1. (l \in S) \in BOOLEAN
          OBVIOUS
        <4>2. Emailed(mem[l], l \in S) \in FitCopy /\ mem[l] \in FitCopy
          BY <1>3, <4>1
        <4> QED
          BY <4>2
      <3> QED
        BY <3>1, <3>2
    <2> QED
      BY <2>1, <2>2 DEF SendColdEmail
  <1>5. RunInv'
    BY <1>4, Parts DEF SendColdEmail, Settling, RunInv, Phases
  <1> QED
    BY <1>1, <1>2, <1>5, WholeNext

LEMMA SettleNextFit ==
    ASSUME IInv, NEW l \in Leads, SettleNext(l)
    PROVE  IInv'
  <1>1. TablesInv' /\ SentInv'
    BY Parts, SameTables DEF SettleNext, SentInv, sent
  <1>2. LeadFor(mem[l].st) \in LeadStatus
    BY DEF LeadFor, LeadStatus
  <1>3. TodoInv'
    BY <1>2, Parts, RowsAreTyped, StopsAreFit DEF SettleNext, TodoInv
  <1>4. RunInv'
    BY Parts, NoRowIsFit DEF SettleNext, RunInv, At
  <1> QED
    BY <1>1, <1>3, <1>4, WholeNext

LEMMA RunStepFit ==
    ASSUME IInv, RunStep
    PROVE  IInv'
  BY StageStartFit, PrepareNextFit, PrepareFailsFit, PrepareLaterFit, PrepareByColdEmailFit,
     PrepareWithoutKeyFit, PrepareTailoredFit, CheckCancelledFit, SendApplicationFit,
     SendColdEmailFit, SettleNextFit
  DEF RunStep

LEMMA RunTimesOutFit ==
    ASSUME IInv, RunTimesOut
    PROVE  IInv'
  <1>1. TablesInv' /\ SentInv'
    BY Parts, SameTables DEF RunTimesOut, SentInv, sent
  <1>2. TodoInv'
    BY Parts, Sequences DEF RunTimesOut, TodoInv
  <1>3. mem' \in [Leads -> FitCopy]
    BY HandBackFit DEF RunTimesOut
  <1>4. RunInv'
    BY <1>3, Parts DEF RunTimesOut, RunInv, Phases
  <1> QED
    BY <1>1, <1>2, <1>4, WholeNext

LEMMA CrashFit ==
    ASSUME IInv, Crash
    PROVE  IInv'
  <1>1. TablesInv' /\ SentInv'
    BY Parts, SameTables DEF Crash, SentInv, sent
  <1>2. TodoInv'
    BY Parts, Sequences DEF Crash, TodoInv
  <1>3. RunInv'
    BY Parts, NoRowIsFit DEF Crash, RunInv, Phases
  <1> QED
    BY <1>1, <1>2, <1>3, WholeNext

LEMMA ClockFit ==
    ASSUME IInv, Clock
    PROVE  IInv'
  <1>1. TablesInv'
    <2>1. CASE \E l \in Leads : LeaseExpires(l)
      BY <2>1, Parts, LeaseExpiresFit
    <2>2. CASE DayPasses
      BY <2>2, Parts, DayPassesFit
    <2>3. CASE \E l \in Leads : ExpireStaleLead(l)
      BY <2>3, Parts, SetLeadStatusFit DEF ExpireStaleLead, LeadStatus
    <2> QED
      BY <2>1, <2>2, <2>3 DEF Clock, LeasePasses
  <1>2. RunInv' /\ SentInv' /\ TodoInv'
    BY Parts DEF Clock, LeasePasses, RunInv, SentInv, TodoInv, runVars, sent
  <1> QED
    BY <1>1, <1>2, WholeNext

-----------------------------------------------------------------------------
(* IInv is inductive.                                                      *)

LEMMA InitFit == Init => IInv
  <1> SUFFICES ASSUME Init PROVE IInv
    OBVIOUS
  <1>1. TablesInv
    <2>1. 0 <= MaxClaimAttempts
      BY LimitsAssumption DEF LimitsAssumption
    <2> QED
      BY <2>1, NoRowIsFit DEF Init, InitTables, TablesInv, LeadStatus, NoRow
  <1>2. RunInv
    BY NoRowIsFit DEF Init, RunInv, Phases
  <1>3. SentInv /\ TodoInv
    BY Sequences DEF Init, SentInv, TodoInv
  <1> QED
    BY <1>1, <1>2, <1>3, Whole

LEMMA NextFit == IInv /\ [Next]_vars => IInv'
  <1> SUFFICES ASSUME IInv, [Next]_vars PROVE IInv'
    OBVIOUS
  <1>1. CASE Next
    BY <1>1, UserStepFit, ClaimNextFit, ReportResultFit, MatchConfirmationFit, ExecFit,
       InterruptFit, DismissUnseenFit, RunStepFit, ClockFit, RunTimesOutFit, CrashFit
    DEF Next
  <1>2. CASE UNCHANGED vars
    <2>1. TablesInv'
      BY <1>2, Parts, SameTables DEF vars
    <2>2. RunInv' /\ SentInv' /\ TodoInv'
      BY <1>2, Parts DEF vars, runVars, sent, RunInv, SentInv, TodoInv
    <2> QED
      BY <2>1, <2>2, WholeNext
  <1> QED
    BY <1>1, <1>2

(* Every reachable state satisfies IInv.                                   *)
THEOREM Inductive == Spec => []IInv
  BY InitFit, NextFit, PTL DEF Spec

(* Every variable keeps its type.                                          *)
THEOREM TypeCorrect == Spec => []TypeOK
  <1>1. IInv => TypeOK
    BY DEF IInv
  <1> QED
    BY <1>1, Inductive, PTL

(* No handler, however stale the row it writes back, leaves an application *)
(* ready for the extension or claimed by it that was not prepared for the  *)
(* browser.                                                                *)
THEOREM HandedOutPrepared == Spec => []HandedOutIsPrepared
  <1>1. IInv => HandedOutIsPrepared
    BY DEF IInv, FitRow, HandedOutIsPrepared
  <1> QED
    BY <1>1, Inductive, PTL

(* No interleaving of writes strands a claim: a row in progress has a lease *)
(* that runs out.                                                          *)
THEOREM ClaimsExpire == Spec => []ClaimsCanExpire
  <1>1. IInv => ClaimsCanExpire
    BY DEF IInv, FitRow, ClaimsCanExpire
  <1> QED
    BY <1>1, Inductive, PTL

(* However often the extension abandons an application, it is handed out at *)
(* most maxClaimAttempts times before its row is written again.            *)
THEOREM AbandonedClaimsBounded == Spec => []AbandonedClaimsAreBounded
  <1>1. IInv => AbandonedClaimsAreBounded
    BY DEF IInv, AbandonedClaimsAreBounded
  <1> QED
    BY <1>1, Inductive, PTL
-----------------------------------------------------------------------------
(* The emails.                                                               *)
(* No employer is written to unasked, and no run leaves a row behind: what   *)
(* the run holds and what it still has to save, against what the rows say,   *)
(* while users, the extension and the inbox write the same rows.             *)

\* Rows that a run will take up, now or at its next start.
Due == {"queued", "preparing"}

\* What the run is about to save, one row at most.
RunSaves(l) ==
    todo["run"] # <<>> /\ Head(todo["run"]).do = "save" /\ Head(todo["run"]).l = l

Saved == Head(todo["run"]).row

NoRowInv == \A l \in Leads : app[l].id = 0 => app[l].st = "none"

\* The run has a lead in one place at a time, and none between its stages; what
\* it settles has an outcome.
ShapeInv ==
    /\ phase \notin {"pick", "work", "check", "send"} => batch = {}
    /\ phase \in {"idle", "count", "load"} => cold = {}
    /\ phase # "settle" => settle = {}
    /\ phase \notin {"work", "check", "send"} => cur = NoLead
    /\ batch \cap cold = {} /\ batch \cap settle = {} /\ cold \cap settle = {}
    /\ cur \notin batch \cup cold \cup settle
    /\ \A l \in settle : mem[l].st # "preparing"

\* No handler saves a row that is due, except to retry it.
Stops(ws) ==
    \A n \in 1..Len(ws) : /\ ws[n].do = "save" => ws[n].row.st \notin Due
                          /\ ws[n].do = "retry" => ws[n].row.st # "preparing"

HandlersInv == \A r \in Requests : Stops(todo[r])

\* The run saves a row, then sets its lead; the one it marks preparing is in
\* hand, and of the others it has let go.
SavesInv ==
    /\ \A n \in 1..Len(todo["run"]) :
          /\ todo["run"][n].do \in {"save", "lead"}
          /\ n > 1 => todo["run"][n].do = "lead"
    /\ \A l \in Leads : RunSaves(l) =>
          IF Saved.st = "preparing" THEN l = cur /\ Saved.id = mem[l].id
                                    ELSE l \notin batch \cup cold \cup settle \cup {cur}

\* The run may still write for l, or put it back in the queue.
Held(l) ==
    \/ l \in batch \cup cold \/ l = cur
    \/ l \in settle /\ mem[l].st = "queued"
    \/ RunSaves(l) /\ Saved.st = "queued"

\* The run will write over the row of l, unless it is cut short.
Covered(l) ==
    \/ l \in batch \cup cold \cup settle \cup {cur} /\ mem[l].id = app[l].id
    \/ RunSaves(l) /\ Saved.id = app[l].id

Waiting(l) == app[l].st \in Due /\ ~Covered(l)

\* Emails about l that may still come of what there is.
Owed(l) == (IF Held(l) THEN 1 ELSE 0) + (IF Waiting(l) THEN 1 ELSE 0)

CreditInv == \A l \in Leads : emails[l] + Owed(l) <= asked[l] + faults

\* A cold email about l is recorded, or the run has still to record it.
OnRecord(l) ==
    \/ ColdEmailed(app[l])
    \/ l \in settle /\ ColdEmailed(mem[l])
    \/ RunSaves(l) /\ ColdEmailed(Saved)

ColdKept(d) ==
    \/ faults > 0 \/ \E l \in Leads : Contact[l] = d /\ unrecorded[l]
    \/ coldSent[d] = 0
    \/ coldSent[d] = 1 /\ \E l \in Leads : Contact[l] = d /\ OnRecord(l)

ColdInv == \A d \in Addresses : ColdKept(d)

\* The run has l in hand, and its copy is of the row there is.
InHand(l) ==
    \/ l \in cold \cup settle \cup {cur} /\ mem[l].id = app[l].id
    \/ RunSaves(l) /\ Saved.id = app[l].id

PreparingInv == \A l \in Leads : app[l].st = "preparing" /\ faults = 0 => InHand(l)

EInv ==
    /\ IInv
    /\ NoRowInv /\ ShapeInv /\ HandlersInv /\ SavesInv
    /\ CreditInv /\ ColdInv /\ PreparingInv

-----------------------------------------------------------------------------
(* What a step may do to the rows, while the run stands still.             *)

RowMoves(l) ==
    /\ app'[l].id = 0 => app'[l].st = "none"
    /\ asked[l] <= asked'[l]
    /\ \/ app'[l].st \notin Due
       \/ /\ app'[l].id = app[l].id /\ app[l].st \in Due
          /\ app'[l].st = "preparing" => app[l].st = "preparing"
       \/ asked'[l] = asked[l] + 1 /\ app'[l].st = "queued"
    /\ unrecorded[l] => unrecorded'[l]
    /\ ColdEmailed(app[l]) => ColdEmailed(app'[l]) \/ unrecorded'[l]

LEMMA Typed ==
    ASSUME IInv, NEW l \in Leads
    PROVE  /\ asked[l] \in Nat /\ emails[l] \in Nat /\ faults \in Nat
           /\ unrecorded[l] \in BOOLEAN
           /\ app[l] \in Row /\ mem[l] \in Row
           /\ Contact[l] \in Addresses /\ coldSent \in [Addresses -> Nat]
           /\ l # NoLead
  <1>1. Contact[l] \in Addresses /\ l # NoLead
    BY LeadsAssumption DEF LeadsAssumption
  <1>2. app[l] \in Row /\ mem[l] \in Row
    BY RowsAreTyped
  <1> QED
    BY <1>1, <1>2 DEF IInv, TypeOK

LEMMA OwedIs ==
    ASSUME NEW l
    PROVE  /\ Owed(l) \in 0..2
           /\ Held(l) /\ Waiting(l) => Owed(l) = 2
           /\ Held(l) /\ ~Waiting(l) => Owed(l) = 1
           /\ ~Held(l) /\ Waiting(l) => Owed(l) = 1
           /\ ~Held(l) /\ ~Waiting(l) => Owed(l) = 0
  BY DEF Owed

LEMMA StoreStep ==
    ASSUME EInv, IInv', UNCHANGED <<runVars, sent>>, todo'["run"] = todo["run"],
           faults <= faults', \A l \in Leads : RowMoves(l), HandlersInv'
    PROVE  EInv'
  <1>1. /\ phase' = phase /\ batch' = batch /\ cur' = cur /\ cold' = cold /\ settle' = settle
        /\ mem' = mem /\ emails' = emails /\ coldSent' = coldSent
    BY DEF runVars, sent
  <1>2. /\ Saved' = Saved
        /\ \A l \in Leads : (RunSaves(l)' <=> RunSaves(l)) /\ (Held(l)' <=> Held(l))
    BY <1>1 DEF Saved, RunSaves, Held
  <1>3. NoRowInv' /\ ShapeInv' /\ SavesInv'
    BY <1>1, <1>2 DEF EInv, NoRowInv, ShapeInv, SavesInv, RowMoves
  <1>4. CreditInv'
    <2>1. ASSUME NEW l \in Leads
          PROVE  emails'[l] + Owed(l)' <= asked'[l] + faults'
      <3>1. emails[l] + Owed(l) <= asked[l] + faults
        BY DEF EInv, CreditInv
      <3>2. /\ emails[l] \in Nat /\ asked[l] \in Nat /\ asked'[l] \in Nat
            /\ faults \in Nat /\ faults' \in Nat
        BY Typed DEF EInv, IInv, TypeOK
      <3>3. Waiting(l)' => Waiting(l) \/ asked'[l] = asked[l] + 1
        BY <1>1, <1>2 DEF Waiting, Covered, RowMoves
      <3>4. Owed(l)' <= Owed(l) \/ (asked'[l] = asked[l] + 1 /\ Owed(l)' <= Owed(l) + 1)
        BY <1>2, <3>3 DEF Owed
      <3>5. Owed(l) \in 0..2 /\ Owed(l)' \in 0..2
        BY DEF Owed
      <3>6. asked[l] <= asked'[l] /\ emails'[l] = emails[l]
        BY <1>1 DEF RowMoves
      <3> QED
        BY <3>1, <3>2, <3>4, <3>5, <3>6
    <2> QED
      BY <2>1 DEF CreditInv
  <1>5. ColdInv'
    <2>1. ASSUME NEW d \in Addresses PROVE ColdKept(d)'
      <3>1. ColdKept(d)
        BY DEF EInv, ColdInv
      <3>2. faults > 0 => faults' > 0
        BY DEF EInv, IInv, TypeOK
      <3>3. \A l \in Leads : /\ unrecorded[l] => unrecorded'[l]
                             /\ OnRecord(l) => OnRecord(l)' \/ unrecorded'[l]
        BY <1>1, <1>2 DEF RowMoves, OnRecord
      <3> QED
        BY <1>1, <3>1, <3>2, <3>3 DEF ColdKept
    <2> QED
      BY <2>1 DEF ColdInv
  <1>6. PreparingInv'
    <2>1. ASSUME NEW l \in Leads, app'[l].st = "preparing", faults' = 0
          PROVE  InHand(l)'
      <3>1. app'[l].id = app[l].id /\ app[l].st = "preparing"
        BY <2>1 DEF RowMoves, Due
      <3>2. faults = 0
        BY <2>1 DEF EInv, IInv, TypeOK
      <3>3. InHand(l)
        BY <3>1, <3>2 DEF EInv, PreparingInv
      <3> QED
        BY <1>1, <1>2, <3>1, <3>3 DEF InHand
    <2> QED
      BY <2>1 DEF PreparingInv
  <1> QED
    BY <1>3, <1>4, <1>5, <1>6 DEF EInv

-----------------------------------------------------------------------------
(* The statements of the handlers.                                         *)

LEMMA RowStays ==
    ASSUME EInv, NEW k \in Leads, app'[k] = app[k], asked[k] <= asked'[k],
           unrecorded[k] => unrecorded'[k]
    PROVE  RowMoves(k)
  BY DEF RowMoves, EInv, NoRowInv

LEMMA SameRows ==
    ASSUME EInv, UNCHANGED <<app, asked, unrecorded>>
    PROVE  \A k \in Leads : RowMoves(k)
  <1>1. ASSUME NEW k \in Leads PROVE RowMoves(k)
    BY Typed, RowStays DEF EInv
  <1> QED
    BY <1>1

\* A row is put that is not due, or by a decision of the user's.
LEMMA PutRowMoves ==
    ASSUME EInv, NEW l \in Leads, NEW r \in Row, PutRow(l, r),
           r.id = 0 => r.st = "none",
           \/ r.st \notin Due /\ asked' \in {asked, [asked EXCEPT ![l] = @ + 1]}
           \/ r.st = "queued" /\ asked' = [asked EXCEPT ![l] = @ + 1]
    PROVE  \A k \in Leads : RowMoves(k)
  <1>1. /\ app \in [Leads -> Row] /\ asked \in [Leads -> Nat] /\ unrecorded \in [Leads -> BOOLEAN]
    BY DEF EInv, IInv, TypeOK
  <1>2. ASSUME NEW k \in Leads, k # l PROVE RowMoves(k)
    <2>1. app'[k] = app[k] /\ asked'[k] = asked[k] /\ unrecorded'[k] = unrecorded[k] /\ asked[k] \in Nat
      BY <1>1, <1>2 DEF PutRow
    <2> QED
      BY <2>1, RowStays
  <1>3. RowMoves(l)
    <2>1. app'[l] = r
      BY <1>1 DEF PutRow
    <2>2. asked'[l] \in {asked[l], asked[l] + 1} /\ asked[l] \in Nat /\ (r.st \in Due => asked'[l] = asked[l] + 1)
      BY <1>1
    <2>3. unrecorded'[l] = (unrecorded[l] \/ (ColdEmailed(app[l]) /\ ~ColdEmailed(r)))
      BY <1>1 DEF PutRow
    <2>4. /\ unrecorded[l] => unrecorded'[l]
          /\ ColdEmailed(app[l]) => ColdEmailed(r) \/ unrecorded'[l]
      BY <2>3, Zenon
    <2>5. r.st \notin Due \/ (asked'[l] = asked[l] + 1 /\ r.st = "queued")
      BY <1>1
    <2> QED
      BY <2>1, <2>2, <2>4, <2>5 DEF RowMoves
  <1> QED
    BY <1>2, <1>3

LEMMA SaveMoves ==
    ASSUME EInv, NEW l \in Leads, NEW r \in Row, Save(l, r),
           \/ r.st \notin Due /\ asked' \in {asked, [asked EXCEPT ![l] = @ + 1]}
           \/ r.st = "queued" /\ asked' = [asked EXCEPT ![l] = @ + 1]
    PROVE  \A k \in Leads : RowMoves(k)
  <1>1. CASE Exists(l) /\ app[l].id = r.id
    <2>1. PutRow(l, r) /\ (r.id = 0 => r.st = "none")
      BY <1>1 DEF Save, Exists
    <2> QED
      BY <2>1, PutRowMoves
  <1>2. CASE ~(Exists(l) /\ app[l].id = r.id)
    <2>1. app' = app /\ unrecorded' = [unrecorded EXCEPT ![l] = @ \/ ColdEmailed(r)]
      BY <1>2 DEF Save
    <2>2. ASSUME NEW k \in Leads PROVE RowMoves(k)
      <3>1. asked \in [Leads -> Nat] /\ unrecorded \in [Leads -> BOOLEAN]
        BY DEF EInv, IInv, TypeOK
      <3>2. asked[k] <= asked'[k] /\ (unrecorded[k] => unrecorded'[k])
        BY <2>1, <3>1
      <3> QED
        BY <2>1, <3>2, RowStays
    <2> QED
      BY <2>2
  <1> QED
    BY <1>1, <1>2

LEMMA QueueMoves ==
    ASSUME EInv, NEW l \in Leads, QueueApplication(l)
    PROVE  \A k \in Leads : RowMoves(k)
  <1>1. CASE ~Exists(l)
    <2> DEFINE r == [NoRow EXCEPT !.id = lastId[l] + 1, !.st = "queued"]
    <2>1. PutRow(l, r) /\ asked' = [asked EXCEPT ![l] = @ + 1]
      BY <1>1 DEF QueueApplication
    <2>2. lastId[l] \in Nat
      BY DEF EInv, IInv, TypeOK
    <2>3. r \in Row /\ r.st = "queued" /\ r.id # 0
      <3>1. \A n \in Nat : LET q == [NoRow EXCEPT !.id = n, !.st = "queued"]
                           IN  q \in Row /\ q.st = "queued" /\ q.id = n
        BY DEF Row, NoRow, AppStatus
      <3>2. lastId[l] + 1 \in Nat \ {0}
        BY <2>2
      <3> QED
        BY <3>1, <3>2
    <2> HIDE DEF r
    <2> QED
      BY <2>1, <2>3, PutRowMoves
  <1>2. CASE Exists(l) /\ app[l].st \in {"cancelled", "failed"}
    <2> DEFINE r == [app[l] EXCEPT !.st = "queued", !.lease = "none"]
    <2>1. PutRow(l, r) /\ asked' = [asked EXCEPT ![l] = @ + 1]
      BY <1>2 DEF QueueApplication
    <2>2. r \in Row /\ r.st = "queued" /\ r.id # 0
      BY <1>2, Typed DEF EInv, Exists, Row, AppStatus
    <2> HIDE DEF r
    <2> QED
      BY <2>1, <2>2, PutRowMoves
  <1>3. CASE Exists(l) /\ app[l].st \notin {"cancelled", "failed"}
    BY <1>3, SameRows DEF QueueApplication
  <1> QED
    BY <1>1, <1>2, <1>3

LEMMA DeleteMoves ==
    ASSUME EInv, NEW l \in Leads, NEW i, DeleteApplication(l, i)
    PROVE  \A k \in Leads : RowMoves(k)
  <1>1. CASE PutRow(l, NoRow)
    <2>1. NoRow \in Row /\ NoRow.st = "none" /\ asked' = asked
      BY NoRowIsFit DEF NoRow, DeleteApplication
    <2> QED
      BY <1>1, <2>1, PutRowMoves DEF Due
  <1>2. CASE UNCHANGED <<app, streak, unrecorded>>
    BY <1>2, SameRows DEF DeleteApplication
  <1> QED
    BY <1>1, <1>2 DEF DeleteApplication

LEMMA ClaimMoves ==
    ASSUME EInv, NEW l \in Leads, NEW h, ClaimBrowserApplication(l, h)
    PROVE  \A k \in Leads : RowMoves(k)
  <1>1. ClaimOrder(app[l]) /\ app' = [app EXCEPT ![l] = Claimed(@)] /\ UNCHANGED <<asked, unrecorded>>
    BY DEF ClaimBrowserApplication
  <1>2. app \in [Leads -> Row] /\ asked \in [Leads -> Nat]
    BY DEF EInv, IInv, TypeOK
  <1>3. Claimed(app[l]).st = "in_progress" /\ Claimed(app[l]).id = app[l].id
    BY <1>2 DEF Claimed, Row
  <1>4. app[l].ch = "browser" /\ app[l].id # 0
    BY <1>1 DEF ClaimOrder, EInv, NoRowInv
  <1>5. ASSUME NEW k \in Leads PROVE RowMoves(k)
    <2>1. CASE k = l
      <3>1. app'[l] = Claimed(app[l])
        BY <1>1, <1>2
      <3> QED
        BY <1>1, <1>2, <1>3, <1>4, <2>1, <3>1 DEF RowMoves, Due, ColdEmailed
    <2>2. CASE k # l
      BY <1>1, <1>2, <2>2, RowStays
    <2> QED
      BY <2>1, <2>2
  <1> QED
    BY <1>5

-----------------------------------------------------------------------------
(* The handlers, the inbox, the extension and the clock.                   *)

LEMMA TodoIs ==
    ASSUME IInv
    PROVE  /\ todo \in [Actors -> Seq(Write)] /\ "run" \in Actors /\ Requests \subseteq Actors
           /\ "run" \notin Requests
  BY ActorsAssumption DEF IInv, TypeOK, Actors, ActorsAssumption

LEMMA OneTodo ==
    ASSUME EInv, NEW r \in Requests, NEW ws, todo' = [todo EXCEPT ![r] = ws], Stops(ws)
    PROVE  todo'["run"] = todo["run"] /\ HandlersInv'
  <1>1. todo'["run"] = todo["run"] /\ \A q \in Requests : todo'[q] \in {todo[q], ws}
    BY TodoIs DEF EInv
  <1>2. \A q \in Requests : Stops(todo'[q])
    BY <1>1 DEF EInv, HandlersInv
  <1> QED
    BY <1>1, <1>2 DEF HandlersInv, Stops

LEMMA HandleStep ==
    ASSUME EInv, IInv', NEW r \in Requests, NEW ws, Handle(r, ws), Stops(ws)
    PROVE  EInv'
  <1>1. todo'["run"] = todo["run"] /\ HandlersInv'
    BY OneTodo DEF Handle
  <1>2. UNCHANGED <<app, asked, unrecorded>> /\ faults <= faults'
    BY DEF Handle, store, tables, history, EInv, IInv, TypeOK
  <1> QED
    BY <1>1, <1>2, SameRows, StoreStep DEF Handle

LEMMA StopsAre ==
    /\ Stops(<<>>)
    /\ \A l, r : /\ r.st \notin Due => Stops(<<SaveRow(l, r)>>)
                 /\ Stops(<<Confirm(l, r)>>)
    /\ \A l, r, s : /\ r.st \notin Due => Stops(<<SaveRow(l, r), SetLead(l, s)>>)
                    /\ r.st # "preparing" => Stops(<<SaveRetry(l, r), SetLead(l, s)>>)
                    /\ Stops(<<Delete(l, r), SetLead(l, s)>>)
                    /\ Stops(<<SetLead(l, s), Queue(l)>>)
                    /\ Stops(<<SetLead(l, s)>>)
  BY DEF Stops, SaveRow, SaveRetry, Delete, SetLead, Queue, Confirm

LEMMA UserStepStep ==
    ASSUME EInv, IInv', NEW r \in Requests, NEW l \in Leads,
           UserStep(r, l) \/ ReportResult(r, l) \/ MatchConfirmation(r, l)
    PROVE  EInv'
  <1>1. app[l] \in Row
    BY Typed DEF EInv
  <1>2. CASE Approve(r, l)
    BY <1>2, StopsAre, HandleStep DEF Approve
  <1>3. CASE Dismiss(r, l)
    <2>1. [app[l] EXCEPT !.st = "cancelled", !.lease = "none"].st \notin Due
      BY <1>1 DEF Row, Due
    <2> QED
      BY <1>3, <2>1, StopsAre, HandleStep DEF Dismiss
  <1>4. CASE Reset(r, l)
    BY <1>4, StopsAre, HandleStep DEF Reset
  <1>5. CASE SaveAnswers(r, l)
    <2>1. [app[l] EXCEPT !.st = "ready"].st \notin Due
      BY <1>1 DEF Row, Due
    <2> QED
      BY <1>5, <2>1, StopsAre, HandleStep DEF SaveAnswers
  <1>6. CASE RetryApplication(r, l)
    <2>1. Retried(app[l]).st # "preparing"
      BY <1>1 DEF Row, Retried
    <2> QED
      BY <1>6, <2>1, StopsAre, HandleStep DEF RetryApplication
  <1>7. CASE CancelApplication(r, l)
    <2>1. [app[l] EXCEPT !.st = "cancelled", !.lease = "none"].st \notin Due
      BY <1>1 DEF Row, Due
    <2> QED
      BY <1>7, <2>1, StopsAre, HandleStep DEF CancelApplication
  <1>8. CASE ReportResult(r, l)
    <2> DEFINE row == [app[l] EXCEPT !.lease = "none"]
               back == [row EXCEPT !.st = "ready", !.att = IF @ > 0 THEN @ - 1 ELSE 0]
    <2>1. row \in Row
      BY <1>1 DEF Row
    <2>2. /\ [row EXCEPT !.st = "submitted", !.recent = TRUE].st \notin Due
          /\ [row EXCEPT !.st = "needs_input"].st \notin Due
          /\ [row EXCEPT !.st = "failed"].st \notin Due
          /\ back.st \notin Due
      BY <2>1 DEF Row, Due
    <2>3. \/ Handle(r, <<SaveRow(l, [row EXCEPT !.st = "submitted", !.recent = TRUE]),
                         SetLead(l, "applied")>>)
          \/ Handle(r, <<SaveRow(l, [row EXCEPT !.st = "needs_input"])>>)
          \/ Handle(r, <<SaveRow(l, [row EXCEPT !.st = "failed"]), SetLead(l, "failed")>>)
          \/ Handle(r, <<SaveRow(l, back)>>)
      BY <1>8 DEF ReportResult
    <2> HIDE DEF row, back
    <2> QED
      BY <2>2, <2>3, StopsAre, HandleStep
  <1>9. CASE MatchConfirmation(r, l)
    BY <1>9, StopsAre, HandleStep DEF MatchConfirmation
  <1> QED
    BY <1>2, <1>3, <1>4, <1>5, <1>6, <1>7, <1>8, <1>9 DEF UserStep

LEMMA ClaimNextStep ==
    ASSUME EInv, IInv', NEW r \in Requests, NEW l \in Leads, ClaimNext(r, l)
    PROVE  EInv'
  <1> DEFINE handedOut == app[l].att + 1 <= MaxClaimAttempts
             row == [Claimed(app[l]) EXCEPT !.st = "failed", !.lease = "none"]
             ws == IF handedOut THEN <<>> ELSE <<SaveRow(l, row), SetLead(l, "failed")>>
  <1>1. /\ ClaimBrowserApplication(l, handedOut) /\ todo' = [todo EXCEPT ![r] = ws]
        /\ UNCHANGED <<runVars, sent, faults>>
    BY DEF ClaimNext
  <1>2. row.st \notin Due
    BY Typed DEF EInv, Claimed, Row, Due
  <1> HIDE DEF row, handedOut
  <1>3. Stops(ws)
    BY <1>2, StopsAre
  <1> HIDE DEF ws
  <1>4. todo'["run"] = todo["run"] /\ HandlersInv'
    BY <1>1, <1>3, OneTodo
  <1>5. faults <= faults'
    BY <1>1 DEF EInv, IInv, TypeOK
  <1> QED
    BY <1>1, <1>4, <1>5, ClaimMoves, StoreStep

\* One statement of a handler.
LEMMA StatementMoves ==
    ASSUME EInv, NEW w \in FitWrite,
           w.do = "save" => w.row.st \notin Due,
           w.do = "retry" => w.row.st # "preparing",
           \/ w.do = "save"   /\ SaveApplication(w.l, w.row)
           \/ w.do = "retry"  /\ SaveRetried(w.l, w.row)
           \/ w.do = "queue"  /\ QueueApplication(w.l)
           \/ w.do = "delete" /\ DeleteApplication(w.l, w.row.id)
           \/ w.do = "lead"   /\ SetLeadStatus(w.l, w.st)
           \/ w.do = "confirm" /\ UNCHANGED store
    PROVE  \A k \in Leads : RowMoves(k)
  <1>1. w.l \in Leads /\ w.row \in Row
    BY DEF FitWrite, Write
  <1>2. CASE w.do = "save" /\ SaveApplication(w.l, w.row)
    BY <1>1, <1>2, SaveMoves DEF SaveApplication
  <1>3. CASE w.do = "retry" /\ SaveRetried(w.l, w.row)
    <2>1. Save(w.l, w.row) /\ asked' = [asked EXCEPT ![w.l] = @ + 1]
      BY <1>3 DEF SaveRetried
    <2>2. w.row.st \notin Due \/ w.row.st = "queued"
      BY <1>3 DEF Due
    <2> QED
      BY <1>1, <2>1, <2>2, SaveMoves
  <1>4. CASE w.do = "queue" /\ QueueApplication(w.l)
    BY <1>1, <1>4, QueueMoves
  <1>5. CASE w.do = "delete" /\ DeleteApplication(w.l, w.row.id)
    BY <1>1, <1>5, DeleteMoves
  <1>6. CASE w.do = "lead" /\ SetLeadStatus(w.l, w.st)
    BY <1>6, SameRows DEF SetLeadStatus, history
  <1>7. CASE w.do = "confirm" /\ UNCHANGED store
    BY <1>7, SameRows DEF store, tables, history
  <1> QED
    BY <1>2, <1>3, <1>4, <1>5, <1>6, <1>7

LEMMA ExecRequestStep ==
    ASSUME EInv, IInv', NEW r \in Requests, Exec(r)
    PROVE  EInv'
  <1> DEFINE w == Head(todo[r])
             ws == IF w.do = "confirm" THEN Confirmed(w.l, w.row.id) ELSE Tail(todo[r])
  <1>1. todo[r] \in Seq(FitWrite) /\ todo[r] # <<>>
    BY Parts DEF TodoInv, Exec, EInv, Actors
  <1>2. w \in FitWrite /\ w = todo[r][1] /\ 1 \in 1..Len(todo[r])
    BY <1>1, ExecuteHead
  <1>3. Stops(todo[r])
    BY DEF EInv, HandlersInv
  <1>4. w.l \in Leads /\ w.row \in Row
    BY <1>2 DEF FitWrite, Write
  <1>5. /\ w.do = "save" => w.row.st \notin Due
        /\ w.do = "retry" => w.row.st # "preparing"
    BY <1>2, <1>3 DEF Stops
  <1>6. Stops(ws)
    <2>1. Stops(Tail(todo[r]))
      BY <1>1, <1>3 DEF Stops
    <2>2. Stops(Confirmed(w.l, w.row.id))
      <3> DEFINE row == [app[w.l] EXCEPT !.st = "submitted", !.recent = TRUE]
      <3>1. row.st \notin Due
        BY <1>4, Typed DEF EInv, Row, Due
      <3>2. Confirmed(w.l, w.row.id) \in {<<>>, <<SaveRow(w.l, row), SetLead(w.l, "applied")>>}
        BY DEF Confirmed
      <3> HIDE DEF row, w
      <3> QED
        BY <3>1, <3>2, StopsAre
    <2> QED
      BY <2>1, <2>2
  <1>7. /\ todo' = [todo EXCEPT ![r] = ws] /\ UNCHANGED <<runVars, sent, faults>>
        /\ \/ w.do = "save"   /\ SaveApplication(w.l, w.row)
           \/ w.do = "retry"  /\ SaveRetried(w.l, w.row)
           \/ w.do = "queue"  /\ QueueApplication(w.l)
           \/ w.do = "delete" /\ DeleteApplication(w.l, w.row.id)
           \/ w.do = "lead"   /\ SetLeadStatus(w.l, w.st)
           \/ w.do = "confirm" /\ UNCHANGED store
    BY TodoIs DEF Exec, EInv
  <1> HIDE DEF w, ws
  <1>8. \A k \in Leads : RowMoves(k)
    BY <1>2, <1>5, <1>7, StatementMoves
  <1>9. todo'["run"] = todo["run"] /\ HandlersInv'
    BY <1>6, <1>7, OneTodo
  <1>10. faults <= faults'
    BY <1>7 DEF EInv, IInv, TypeOK
  <1> QED
    BY <1>7, <1>8, <1>9, <1>10, StoreStep

LEMMA InterruptStep ==
    ASSUME EInv, IInv', NEW r \in Requests, Interrupt(r)
    PROVE  EInv'
  <1>1. todo'["run"] = todo["run"] /\ HandlersInv'
    BY StopsAre, OneTodo DEF Interrupt
  <1>2. faults <= faults' /\ UNCHANGED <<app, asked, unrecorded, runVars, sent>>
    BY DEF Interrupt, store, tables, history, EInv, IInv, TypeOK
  <1> QED
    BY <1>1, <1>2, SameRows, StoreStep

LEMMA DismissUnseenStep ==
    ASSUME EInv, IInv', NEW r \in Requests, NEW l \in Leads, DismissUnseen(r, l)
    PROVE  EInv'
  <1>1. todo'["run"] = todo["run"] /\ HandlersInv'
    BY StopsAre, OneTodo DEF DismissUnseen
  <1>2. faults <= faults' /\ UNCHANGED <<app, asked, unrecorded, runVars, sent>>
    BY DEF DismissUnseen, store, tables, history, EInv, IInv, TypeOK
  <1> QED
    BY <1>1, <1>2, SameRows, StoreStep

LEMMA ClockStep ==
    ASSUME EInv, IInv', Clock
    PROVE  EInv'
  <1>1. UNCHANGED <<todo, runVars, sent, faults, asked, unrecorded>>
    BY DEF Clock, LeasePasses, LeaseExpires, DayPasses, ExpireStaleLead, SetLeadStatus, history
  <1>2. todo'["run"] = todo["run"] /\ HandlersInv' /\ faults <= faults'
    BY <1>1 DEF EInv, IInv, TypeOK, HandlersInv, Stops
  <1>3. app \in [Leads -> Row]
    BY DEF EInv, IInv, TypeOK
  <1>4. ASSUME NEW k \in Leads
        PROVE  app'[k].id = app[k].id /\ app'[k].st = app[k].st /\ app'[k].ch = app[k].ch
    <2>1. CASE \E l \in Leads : LeaseExpires(l)
      BY <1>3, <2>1 DEF LeaseExpires, Row
    <2>2. CASE DayPasses
      BY <1>3, <2>2 DEF DayPasses, Row
    <2>3. CASE \E l \in Leads : ExpireStaleLead(l)
      BY <2>3 DEF ExpireStaleLead, SetLeadStatus
    <2> QED
      BY <2>1, <2>2, <2>3 DEF Clock, LeasePasses
  <1>5. \A k \in Leads : RowMoves(k)
    BY <1>1, <1>4, Typed DEF EInv, NoRowInv, RowMoves, ColdEmailed
  <1> QED
    BY <1>1, <1>2, <1>5, StoreStep

-----------------------------------------------------------------------------
(* The run saves, and nobody else.                                         *)

LEMMA ExecRunStep ==
    ASSUME EInv, IInv', Exec("run")
    PROVE  EInv'
  <1> DEFINE w == Head(todo["run"])
             t == Tail(todo["run"])
  <1>1. todo["run"] \in Seq(FitWrite) /\ todo["run"] # <<>>
    BY Parts, TodoIs DEF TodoInv, Exec, EInv
  <1>2. /\ w \in FitWrite /\ w = todo["run"][1] /\ 1 \in 1..Len(todo["run"]) /\ t \in Seq(FitWrite)
        /\ Len(t) = Len(todo["run"]) - 1 /\ \A n \in 1..Len(t) : t[n] = todo["run"][n+1]
    BY <1>1, ExecuteHead
  <1>3. w.l \in Leads /\ w.row \in Row
    BY <1>2 DEF FitWrite, Write
  <1>4. w.do \in {"save", "lead"}
    BY <1>2 DEF EInv, SavesInv
  <1>5. \A n \in 1..Len(t) : t[n].do = "lead"
    BY <1>1, <1>2 DEF EInv, SavesInv
  <1>6. /\ todo' = [todo EXCEPT !["run"] = t] /\ UNCHANGED <<runVars, sent, faults>>
        /\ \/ w.do = "save" /\ SaveApplication(w.l, w.row)
           \/ w.do = "lead" /\ SetLeadStatus(w.l, w.st)
    BY <1>4, TodoIs DEF Exec, EInv
  <1>7. /\ phase' = phase /\ batch' = batch /\ cur' = cur /\ cold' = cold /\ settle' = settle
        /\ mem' = mem /\ emails' = emails /\ coldSent' = coldSent /\ faults' = faults
        /\ todo'["run"] = t /\ \A r \in Requests : todo'[r] = todo[r]
    BY <1>6, TodoIs DEF EInv, runVars, sent
  <1>8. \A l \in Leads : ~RunSaves(l)'
    <2>1. t # <<>> => Head(t) = t[1] /\ 1 \in 1..Len(t)
      BY <1>2
    <2> HIDE DEF t
    <2> QED
      BY <1>5, <1>7, <2>1 DEF RunSaves
  <1>9. \A l \in Leads : RunSaves(l) <=> w.do = "save" /\ l = w.l
    BY <1>1 DEF RunSaves
  <1>10. Saved = w.row
    BY DEF Saved
  <1>11. ShapeInv' /\ HandlersInv'
    BY <1>7 DEF EInv, ShapeInv, HandlersInv, Stops
  <1>12. SavesInv'
    BY <1>5, <1>7, <1>8 DEF SavesInv
  <1> HIDE DEF w, t
  <1>13. asked' = asked
    BY <1>6 DEF SaveApplication, SetLeadStatus, history
  \* Either nothing is written, or the row of w.l is.
  <1>14. \/ /\ app' = app
            /\ \A l \in Leads : RunSaves(l) => Saved.id # app[l].id \/ app[l].st = "none"
            /\ \A l \in Leads : /\ unrecorded[l] => unrecorded'[l]
                                /\ RunSaves(l) /\ ColdEmailed(Saved) => unrecorded'[l]
         \/ /\ RunSaves(w.l) /\ app[w.l].id = w.row.id /\ w.row.id # 0
            /\ app' = [app EXCEPT ![w.l] = w.row]
            /\ \A l \in Leads : /\ unrecorded[l] => unrecorded'[l]
                                /\ ColdEmailed(app[l]) => ColdEmailed(app'[l]) \/ unrecorded'[l]
    <2>1. unrecorded \in [Leads -> BOOLEAN] /\ app \in [Leads -> Row]
      BY DEF EInv, IInv, TypeOK
    <2>2. CASE w.do = "lead"
      BY <1>6, <1>9, <2>2 DEF SetLeadStatus, history
    <2>3. CASE w.do = "save" /\ Exists(w.l) /\ app[w.l].id = w.row.id
      <3>1. PutRow(w.l, w.row)
        BY <1>6, <2>3 DEF SaveApplication, Save
      <3>2. app' = [app EXCEPT ![w.l] = w.row]
        BY <3>1 DEF PutRow
      <3>3. unrecorded' = [unrecorded EXCEPT ![w.l] = @ \/ (ColdEmailed(app[w.l]) /\ ~ColdEmailed(w.row))]
        BY <3>1 DEF PutRow
      <3>4. ASSUME NEW l \in Leads
            PROVE  /\ unrecorded[l] => unrecorded'[l]
                   /\ ColdEmailed(app[l]) => ColdEmailed(app'[l]) \/ unrecorded'[l]
        <4>1. CASE l = w.l
          <5>1. app'[l] = w.row
            BY <1>3, <2>1, <3>2, <4>1
          <5>2. unrecorded'[l] = (unrecorded[l] \/ (ColdEmailed(app[l]) /\ ~ColdEmailed(w.row)))
            BY <2>1, <3>3, <4>1
          <5> QED
            BY <5>1, <5>2, Zenon
        <4>2. CASE l # w.l
          BY <2>1, <3>2, <3>3, <4>2
        <4> QED
          BY <4>1, <4>2
      <3> QED
        BY <1>3, <1>9, <2>3, <3>2, <3>4 DEF Exists
    <2>4. CASE w.do = "save" /\ ~(Exists(w.l) /\ app[w.l].id = w.row.id)
      <3>1. app' = app /\ unrecorded' = [unrecorded EXCEPT ![w.l] = @ \/ ColdEmailed(w.row)]
        BY <1>6, <2>4 DEF SaveApplication, Save
      <3>2. ASSUME NEW l \in Leads
            PROVE  /\ unrecorded[l] => unrecorded'[l]
                   /\ RunSaves(l) /\ ColdEmailed(Saved) => unrecorded'[l]
        <4>1. CASE l = w.l
          <5>1. unrecorded'[l] = (unrecorded[l] \/ ColdEmailed(w.row))
            BY <2>1, <3>1, <4>1
          <5> QED
            BY <1>10, <5>1, Zenon
        <4>2. CASE l # w.l
          BY <1>9, <2>1, <3>1, <4>2
        <4> QED
          BY <4>1, <4>2
      <3>3. ASSUME NEW l \in Leads, RunSaves(l) PROVE Saved.id # app[l].id \/ app[l].st = "none"
        BY <1>9, <1>10, <2>4, <3>3 DEF Exists, EInv, NoRowInv
      <3> QED
        BY <3>1, <3>2, <3>3
    <2> QED
      BY <1>4, <2>2, <2>3, <2>4
  <1>15. ASSUME NEW l \in Leads, RunSaves(l)
         PROVE  \/ Saved.st = "preparing" /\ l = cur /\ Saved.id = mem[l].id
                \/ Saved.st # "preparing" /\ l \notin batch \cup cold \cup settle \cup {cur}
    BY <1>15 DEF EInv, SavesInv
  <1>16. app \in [Leads -> Row]
    BY DEF EInv, IInv, TypeOK
  <1>17. NoRowInv'
    BY <1>3, <1>14, <1>16 DEF EInv, NoRowInv
  <1>18. \A l \in Leads : Held(l)' => Held(l)
    BY <1>7, <1>8 DEF Held
  <1>19. ASSUME NEW l \in Leads, Waiting(l)', ~Waiting(l)
         PROVE  Held(l) /\ ~Held(l)'
    <2>1. app'[l].st \in Due /\ ~(l \in batch \cup cold \cup settle \cup {cur} /\ mem[l].id = app'[l].id)
      BY <1>7, <1>19 DEF Waiting, Covered
    <2>3. l = w.l /\ RunSaves(l) /\ app'[l] = Saved
      <3>1. CASE /\ app' = app
                 /\ RunSaves(l) => Saved.id # app[l].id \/ app[l].st = "none"
        BY <1>19, <2>1, <3>1 DEF Waiting, Covered, Due
      <3>2. CASE RunSaves(w.l) /\ app[w.l].id = w.row.id /\ app' = [app EXCEPT ![w.l] = w.row]
        <4>1. l # w.l => app'[l] = app[l] /\ ~RunSaves(l)
          BY <1>9, <1>16, <3>2
        <4>2. l = w.l => app'[l] = w.row
          BY <1>16, <3>2
        <4>3. l = w.l
          BY <1>7, <1>8, <1>19, <4>1 DEF Waiting, Covered
        <4> QED
          BY <1>10, <3>2, <4>2, <4>3
      <3> QED
        BY <1>14, <3>1, <3>2
    <2>4. Saved.st = "queued" /\ l \notin batch \cup cold \cup settle \cup {cur}
      BY <1>15, <2>1, <2>3 DEF Due
    <2> QED
      BY <1>7, <1>8, <2>3, <2>4 DEF Held
  <1>20. CreditInv'
    <2>1. ASSUME NEW l \in Leads
          PROVE  emails'[l] + Owed(l)' <= asked'[l] + faults'
      <3>1. emails[l] + Owed(l) <= asked[l] + faults
        BY DEF EInv, CreditInv
      <3>2. Owed(l)' <= Owed(l)
        BY <1>18, <1>19 DEF Owed
      <3>3. Owed(l) \in 0..2 /\ Owed(l)' \in 0..2
        BY DEF Owed
      <3>4. emails[l] \in Nat /\ asked[l] \in Nat /\ faults \in Nat
        BY Typed DEF EInv
      <3> QED
        BY <1>7, <1>13, <3>1, <3>2, <3>3, <3>4
    <2> QED
      BY <2>1 DEF CreditInv
  <1>21. ColdInv'
    <2>1. ASSUME NEW l \in Leads
          PROVE  /\ unrecorded[l] => unrecorded'[l]
                 /\ OnRecord(l) => OnRecord(l)' \/ unrecorded'[l]
      <3>1. unrecorded[l] => unrecorded'[l]
        BY <1>14
      <3>2. CASE app' = app /\ (RunSaves(l) /\ ColdEmailed(Saved) => unrecorded'[l])
        BY <1>7, <3>1, <3>2 DEF OnRecord
      <3>3. CASE /\ app' = [app EXCEPT ![w.l] = w.row]
                 /\ ColdEmailed(app[l]) => ColdEmailed(app'[l]) \/ unrecorded'[l]
        <4>1. RunSaves(l) => app'[l] = Saved
          BY <1>9, <1>10, <1>16, <3>3
        <4> QED
          BY <1>7, <3>1, <3>3, <4>1 DEF OnRecord
      <3> QED
        BY <1>14, <3>2, <3>3
    <2>2. ASSUME NEW d \in Addresses PROVE ColdKept(d)'
      <3>1. ColdKept(d)
        BY DEF EInv, ColdInv
      <3> QED
        BY <1>7, <2>1, <3>1 DEF ColdKept
    <2> QED
      BY <2>2 DEF ColdInv
  <1>22. PreparingInv'
    <2>1. ASSUME NEW l \in Leads, app'[l].st = "preparing", faults = 0
          PROVE  l \in cold \cup settle \cup {cur} /\ mem[l].id = app'[l].id
      <3>1. CASE app' = app /\ (RunSaves(l) => Saved.id # app[l].id \/ app[l].st = "none")
        <4>1. InHand(l)
          BY <2>1, <3>1 DEF EInv, PreparingInv
        <4> QED
          BY <2>1, <3>1, <4>1 DEF InHand
      <3>2. CASE app' = [app EXCEPT ![w.l] = w.row] /\ RunSaves(w.l)
        <4>1. CASE l = w.l
          BY <1>10, <1>15, <1>16, <2>1, <3>2, <4>1
        <4>2. CASE l # w.l
          <5>1. InHand(l) /\ app'[l] = app[l] /\ ~RunSaves(l)
            BY <1>9, <1>16, <2>1, <3>2, <4>2 DEF EInv, PreparingInv
          <5> QED
            BY <5>1 DEF InHand
        <4> QED
          BY <4>1, <4>2
      <3> QED
        BY <1>14, <3>1, <3>2
    <2> QED
      BY <1>7, <2>1 DEF PreparingInv, InHand
  <1> QED
    BY <1>11, <1>12, <1>17, <1>20, <1>21, <1>22 DEF EInv

-----------------------------------------------------------------------------
(* The run decides, on its copies.                                         *)

\* What becomes of l: an email is only sent with l let go of.
Spends(l) ==
    \/ emails'[l] = emails[l] /\ (Held(l)' => Held(l)) /\ (Waiting(l)' => Waiting(l))
    \/ emails'[l] = emails[l] /\ Held(l) /\ ~Held(l)'
    \/ emails'[l] = emails[l] /\ Waiting(l) /\ ~Waiting(l)'
    \/ /\ emails'[l] = emails[l] + 1
       /\ Held(l) /\ ~Held(l)' /\ (Waiting(l)' => Waiting(l))

LeadMoves(l) ==
    /\ Spends(l)
    /\ OnRecord(l) => OnRecord(l)'
    /\ app'[l].st = "preparing" /\ faults = 0 => InHand(l)'

LEMMA RunStepKeeps ==
    ASSUME EInv, IInv', NoRowInv', ShapeInv', SavesInv',
           \A r \in Requests : todo'[r] = todo[r],
           UNCHANGED <<asked, unrecorded, faults>>,
           \A l \in Leads : LeadMoves(l),
           \A d \in Addresses : coldSent'[d] = coldSent[d] \/ ColdKept(d)'
    PROVE  EInv'
  <1>1. CreditInv'
    <2>1. ASSUME NEW l \in Leads
          PROVE  emails'[l] + Owed(l)' <= asked'[l] + faults'
      <3>1. emails[l] + Owed(l) <= asked[l] + faults
        BY DEF EInv, CreditInv
      <3>2. emails[l] \in Nat /\ asked[l] \in Nat /\ faults \in Nat
        BY Typed DEF EInv
      <3>3. /\ Owed(l) \in 0..2 /\ Owed(l)' \in 0..2
            /\ \/ emails'[l] = emails[l] /\ Owed(l)' <= Owed(l)
               \/ emails'[l] = emails[l] + 1 /\ Owed(l)' + 1 <= Owed(l)
        BY DEF LeadMoves, Spends, Owed
      <3> QED
        BY <3>1, <3>2, <3>3
    <2> QED
      BY <2>1 DEF CreditInv
  <1>2. ColdInv'
    <2>1. ASSUME NEW d \in Addresses PROVE ColdKept(d)'
      <3>1. ColdKept(d)
        BY DEF EInv, ColdInv
      <3>2. \A l \in Leads : OnRecord(l) => OnRecord(l)'
        BY DEF LeadMoves
      <3> QED
        BY <3>1, <3>2 DEF ColdKept
    <2> QED
      BY <2>1 DEF ColdInv
  <1>3. PreparingInv'
    BY DEF PreparingInv, LeadMoves
  <1>4. HandlersInv'
    BY DEF EInv, HandlersInv, Stops
  <1> QED
    BY <1>1, <1>2, <1>3, <1>4 DEF EInv

\* A run with nothing to save.
LEMMA SavesNothing ==
    ASSUME todo["run"] = <<>>
    PROVE  SavesInv /\ \A k \in Leads : ~RunSaves(k)
  BY DEF SavesInv, RunSaves

LEMMA SavesNothingNext ==
    ASSUME todo'["run"] = <<>>
    PROVE  SavesInv' /\ \A k \in Leads : ~RunSaves(k)'
  BY DEF SavesInv, RunSaves

\* A run that saves row r of l, and perhaps the status of a lead.
LEMMA SavesOne ==
    ASSUME EInv, NEW l \in Leads, NEW r, NEW t,
           t # <<>>, Head(t) = SaveRow(l, r), t[1] = SaveRow(l, r),
           \A n \in 1..Len(t) : n > 1 => t[n].do = "lead",
           todo' = [todo EXCEPT !["run"] = t],
           \/ r.st = "preparing" /\ l = cur' /\ r.id = mem'[l].id
           \/ r.st # "preparing" /\ l \notin batch' \cup cold' \cup settle' \cup {cur'}
    PROVE  /\ SavesInv' /\ Saved' = r
           /\ \A k \in Leads : RunSaves(k)' <=> k = l
           /\ \A q \in Requests : todo'[q] = todo[q]
  <1>1. todo'["run"] = t /\ \A q \in Requests : todo'[q] = todo[q]
    BY TodoIs DEF EInv
  <1>2. SaveRow(l, r).do = "save" /\ SaveRow(l, r).l = l /\ SaveRow(l, r).row = r
    BY DEF SaveRow
  <1>3. \A n \in 1..Len(t) : t[n].do \in {"save", "lead"}
    BY <1>2
  <1>4. Saved' = r /\ \A k \in Leads : RunSaves(k)' <=> k = l
    BY <1>1, <1>2 DEF Saved, RunSaves
  <1>5. SavesInv'
    BY <1>1, <1>3, <1>4 DEF SavesInv
  <1> QED
    BY <1>1, <1>4, <1>5

\* The run goes on to another phase, and that is all.
LEMMA PhaseStep ==
    ASSUME EInv, IInv', ShapeInv',
           UNCHANGED <<app, asked, unrecorded, batch, cur, cold, settle, mem, todo, sent, faults>>
    PROVE  EInv'
  <1>1. emails' = emails /\ coldSent' = coldSent
    BY DEF sent
  <1>2. /\ NoRowInv' /\ SavesInv'
        /\ \A l \in Leads : (Held(l)' <=> Held(l)) /\ (Waiting(l)' <=> Waiting(l))
        /\ \A l \in Leads : (OnRecord(l)' <=> OnRecord(l)) /\ (InHand(l)' <=> InHand(l))
    BY DEF EInv, NoRowInv, SavesInv, Held, Waiting, Covered, OnRecord, InHand, RunSaves, Saved
  <1>3. \A l \in Leads : LeadMoves(l)
    BY <1>1, <1>2 DEF EInv, PreparingInv, LeadMoves, Spends
  <1> QED
    BY <1>1, <1>2, <1>3, RunStepKeeps

LEMMA PhaseSteps ==
    ASSUME EInv, IInv', CountUsed \/ BatchDone \/ Settled
    PROVE  EInv'
  <1>1. UNCHANGED <<app, asked, unrecorded, batch, cur, cold, settle, mem, todo, sent, faults>>
    BY DEF CountUsed, BatchDone, Settled, store, tables, history
  <1>2. ShapeInv'
    BY <1>1 DEF EInv, ShapeInv, CountUsed, BatchDone, Settled, At
  <1> QED
    BY <1>1, <1>2, PhaseStep

LEMMA BeginApplyStageStep ==
    ASSUME EInv, IInv', BeginApplyStage
    PROVE  EInv'
  <1>1. /\ phase = "idle" /\ phase' = "count" /\ todo["run"] = <<>> /\ todo' = todo
        /\ batch' = batch /\ cur' = cur /\ cold' = cold /\ settle' = settle /\ mem' = mem
        /\ emails' = emails /\ coldSent' = coldSent /\ UNCHANGED <<asked, unrecorded, faults>>
    BY DEF BeginApplyStage, At, RequeueInterrupted, history, sent
  <1>2. batch = {} /\ cold = {} /\ settle = {} /\ cur = NoLead
    BY <1>1 DEF EInv, ShapeInv
  <1>3. ShapeInv'
    BY <1>1, <1>2 DEF ShapeInv
  <1>4. SavesInv' /\ \A k \in Leads : ~RunSaves(k) /\ ~RunSaves(k)'
    BY <1>1, SavesNothing, SavesNothingNext
  <1>5. ASSUME NEW l \in Leads
        PROVE  /\ app'[l].st # "preparing"
               /\ app'[l].id = app[l].id
               /\ app'[l].st \in Due => app[l].st \in Due
               /\ app'[l].st = "none" <=> app[l].st = "none"
               /\ ColdEmailed(app[l]) => ColdEmailed(app'[l])
    BY Typed DEF BeginApplyStage, RequeueInterrupted, RequeueAll, EInv, Row, Due, ColdEmailed
  <1>6. NoRowInv'
    BY <1>5 DEF EInv, NoRowInv
  <1>7. ASSUME NEW l \in Leads PROVE LeadMoves(l)
    <2>1. l # NoLead
      BY Typed DEF EInv
    <2>2. ~Held(l)' /\ (Waiting(l)' => Waiting(l)) /\ (OnRecord(l) => OnRecord(l)')
      BY <1>1, <1>2, <1>4, <1>5, <2>1 DEF Held, Waiting, Covered, OnRecord
    <2> QED
      BY <1>1, <1>5, <2>2 DEF LeadMoves, Spends
  <1> QED
    BY <1>1, <1>3, <1>4, <1>6, <1>7, RunStepKeeps

LEMMA LoadQueuedStep ==
    ASSUME EInv, IInv', LoadQueued
    PROVE  EInv'
  <1>1. /\ phase = "load" /\ phase' = "pick" /\ todo["run"] = <<>> /\ todo' = todo
        /\ cur' = cur /\ cold' = cold /\ settle' = settle
        /\ emails' = emails /\ coldSent' = coldSent /\ app' = app
        /\ UNCHANGED <<asked, unrecorded, faults>>
    BY DEF LoadQueued, At, store, tables, history, sent
  <1>2. batch = {} /\ cold = {} /\ settle = {} /\ cur = NoLead
    BY <1>1 DEF EInv, ShapeInv
  <1>3. PICK B \in SUBSET {l \in Leads : app[l].st = "queued"} :
           batch' = B /\ mem' = [l \in Leads |-> IF l \in B THEN app[l] ELSE NoRow]
    BY DEF LoadQueued
  <1>4. NoLead \notin Leads
    BY LeadsAssumption DEF LeadsAssumption
  <1>5. ShapeInv'
    BY <1>1, <1>2, <1>3, <1>4 DEF ShapeInv
  <1>6. SavesInv' /\ \A k \in Leads : ~RunSaves(k) /\ ~RunSaves(k)'
    BY <1>1, SavesNothing, SavesNothingNext
  <1>7. ASSUME NEW l \in Leads PROVE LeadMoves(l)
    <2>1. l # NoLead
      BY Typed DEF EInv
    <2>2. ~InHand(l) /\ (Waiting(l) <=> app[l].st \in Due) /\ (OnRecord(l) => OnRecord(l)')
      BY <1>1, <1>2, <1>6, <2>1 DEF InHand, Waiting, Covered, OnRecord
    <2>3. CASE l \in B
      <3>1. Waiting(l) /\ ~Waiting(l)'
        BY <1>1, <1>3, <2>2, <2>3 DEF Due, Waiting, Covered
      <3> QED
        BY <1>1, <2>2, <3>1 DEF LeadMoves, Spends, EInv, PreparingInv
    <2>4. CASE l \notin B
      <3>1. ~Held(l)' /\ (Waiting(l)' => Waiting(l))
        BY <1>1, <1>2, <1>3, <1>6, <2>1, <2>2, <2>4 DEF Held, Waiting
      <3> QED
        BY <1>1, <2>2, <3>1 DEF LeadMoves, Spends, EInv, PreparingInv
    <2> QED
      BY <2>3, <2>4
  <1>8. NoRowInv'
    BY <1>1 DEF EInv, NoRowInv
  <1> QED
    BY <1>1, <1>5, <1>6, <1>7, <1>8, RunStepKeeps

LEMMA PrepareNextStep ==
    ASSUME EInv, IInv', NEW c \in Leads, PrepareNext(c)
    PROVE  EInv'
  <1>1. /\ phase = "pick" /\ phase' = "work" /\ todo["run"] = <<>> /\ c \in batch
        /\ batch' = batch \ {c} /\ cur' = c /\ cold' = cold /\ settle' = settle
        /\ emails' = emails /\ coldSent' = coldSent /\ app' = app
        /\ UNCHANGED <<asked, unrecorded, faults>>
        /\ mem' = [mem EXCEPT ![c].st = "preparing"]
        /\ todo' = [todo EXCEPT !["run"] = <<SaveRow(c, mem'[c]), SetLead(c, "applying")>>]
    BY DEF PrepareNext, At, store, tables, history, sent
  <1>2. settle = {} /\ cur = NoLead
    BY <1>1 DEF EInv, ShapeInv
  <1>3. ASSUME NEW l \in Leads
        PROVE  mem'[l].id = mem[l].id /\ (l # c => mem'[l] = mem[l]) /\ mem'[c].st = "preparing"
    BY <1>1, Typed DEF EInv, IInv, TypeOK, Row
  <1>4. ShapeInv'
    BY <1>1, <1>2 DEF EInv, ShapeInv
  <1>5. /\ SavesInv' /\ Saved' = mem'[c]
        /\ \A k \in Leads : RunSaves(k)' <=> k = c
        /\ \A q \in Requests : todo'[q] = todo[q]
    <2> DEFINE r == mem'[c]
               t == <<SaveRow(c, r), SetLead(c, "applying")>>
    <2>1. /\ t # <<>> /\ Head(t) = SaveRow(c, r) /\ t[1] = SaveRow(c, r)
          /\ \A n \in 1..Len(t) : n > 1 => t[n].do = "lead"
      BY DEF SetLead
    <2>2. todo' = [todo EXCEPT !["run"] = t]
      BY <1>1
    <2>3. r.st = "preparing" /\ c = cur' /\ r.id = mem'[c].id
      BY <1>1, <1>3
    <2> HIDE DEF r, t
    <2>4. /\ SavesInv' /\ Saved' = r
          /\ \A k \in Leads : RunSaves(k)' <=> k = c
          /\ \A q \in Requests : todo'[q] = todo[q]
      BY <2>1, <2>2, <2>3, SavesOne
    <2> QED
      BY <2>4 DEF r
  <1>6. \A k \in Leads : ~RunSaves(k)
    BY <1>1, SavesNothing
  <1>7. ASSUME NEW l \in Leads PROVE LeadMoves(l)
    <2>1. l # NoLead
      BY Typed DEF EInv
    <2>2. Held(l)' => Held(l)
      BY <1>1, <1>2, <1>3, <1>5, <2>1 DEF Held
    <2>3. Waiting(l)' => Waiting(l)
      BY <1>1, <1>2, <1>3, <1>6, <2>1 DEF Waiting, Covered
    <2>4. /\ OnRecord(l) => OnRecord(l)'
          /\ InHand(l) => InHand(l)'
      BY <1>1, <1>2, <1>3, <1>6, <2>1 DEF OnRecord, InHand
    <2> QED
      BY <1>1, <2>2, <2>3, <2>4 DEF LeadMoves, Spends, EInv, PreparingInv
  <1>8. NoRowInv'
    BY <1>1 DEF EInv, NoRowInv
  <1> QED
    BY <1>1, <1>4, <1>5, <1>7, <1>8, RunStepKeeps

-----------------------------------------------------------------------------
(* The run is done with a lead.                                            *)

LEMMA ConcludeStep ==
    ASSUME EInv, IInv', phase \in {"work", "check", "send"},
           NEW row, row.id = mem[cur].id, row.st # "preparing",
           NEW ws, ws = <<>> \/ \E s \in LeadStatus : ws = <<SetLead(cur, s)>>,
           Conclude(row, ws),
           UNCHANGED <<app, asked, unrecorded, batch, cold, settle, coldSent, faults>>,
           todo["run"] = <<>>,
           \/ emails' = emails
           \/ row.st # "queued" /\ emails' = [emails EXCEPT ![cur] = @ + 1]
    PROVE  EInv'
  <1>1. cur \in Leads /\ cur # NoLead /\ settle = {} /\ cur \notin batch \cup cold
    BY Typed DEF EInv, IInv, ShapeInv
  <1>2. /\ todo' = [todo EXCEPT !["run"] = <<SaveRow(cur, row)>> \o ws]
        /\ mem' = [mem EXCEPT ![cur] = NoRow] /\ cur' = NoLead /\ phase' = "pick"
    BY DEF Conclude
  <1>3. ShapeInv'
    BY <1>1, <1>2, LeadsAssumption DEF EInv, IInv, TypeOK, ShapeInv, LeadsAssumption
  <1> DEFINE save == SaveRow(cur, row)
             t    == <<save>> \o ws
  <1>4. /\ t # <<>> /\ Head(t) = save /\ t[1] = save
        /\ \A n \in 1..Len(t) : n > 1 => t[n].do = "lead"
    <2> DEFINE Leading == {SetLead(cur, s) : s \in LeadStatus}
    <2>1. ws \in Seq(Leading) /\ \A n \in 1..Len(ws) : ws[n].do = "lead"
      <3>1. CASE ws = <<>>
        BY <3>1
      <3>2. CASE \E s \in LeadStatus : ws = <<SetLead(cur, s)>>
        <4>1. PICK s \in LeadStatus : ws = <<SetLead(cur, s)>>
          BY <3>2
        <4>2. SetLead(cur, s) \in Leading /\ SetLead(cur, s).do = "lead"
          BY DEF SetLead
        <4> HIDE DEF Leading
        <4> QED
          BY <4>1, <4>2
      <3> QED
        BY <3>1, <3>2
    <2> HIDE DEF save, Leading
    <2>2. \A n \in 1..Len(t) : n > 1 => t[n] = ws[n - 1] /\ n - 1 \in 1..Len(ws)
      BY <2>1
    <2> QED
      BY <2>1, <2>2
  <1>5. /\ SavesInv' /\ Saved' = row
        /\ \A k \in Leads : RunSaves(k)' <=> k = cur
        /\ \A q \in Requests : todo'[q] = todo[q]
    <2>1. todo' = [todo EXCEPT !["run"] = t]
      BY <1>2
    <2>2. cur \notin batch' \cup cold' \cup settle' \cup {cur'}
      BY <1>1, <1>2
    <2> HIDE DEF t
    <2> QED
      BY <1>1, <1>4, <2>1, <2>2, SavesOne
  <1> HIDE DEF t, save
  <1>6. \A k \in Leads : ~RunSaves(k)
    BY SavesNothing
  <1>7. \A l \in Leads : l # cur => mem'[l] = mem[l]
    BY <1>2
  <1>8. ASSUME NEW l \in Leads PROVE LeadMoves(l)
    <2>1. l # NoLead /\ emails[l] \in Nat /\ emails \in [Leads -> Nat]
      BY Typed DEF EInv, IInv, TypeOK
    <2>2. \/ emails'[l] = emails[l]
          \/ l = cur /\ row.st # "queued" /\ emails'[l] = emails[l] + 1
      BY <1>1, <2>1
    <2>3. Held(l)' => Held(l)
      BY <1>1, <1>2, <1>5, <2>1 DEF Held
    <2>4. l = cur => Held(l) /\ (Held(l)' => row.st = "queued")
      BY <1>1, <1>2, <1>5, <2>1 DEF Held
    <2>5. Waiting(l)' => Waiting(l)
      BY <1>1, <1>2, <1>5, <1>6, <1>7, <2>1 DEF Waiting, Covered
    <2>6. /\ OnRecord(l) => OnRecord(l)'
          /\ InHand(l) => InHand(l)'
      BY <1>1, <1>2, <1>5, <1>6, <1>7, <2>1 DEF OnRecord, InHand
    <2>7. Spends(l)
      BY <2>2, <2>3, <2>4, <2>5 DEF Spends
    <2> QED
      BY <2>6, <2>7 DEF LeadMoves, EInv, PreparingInv
  <1>9. NoRowInv'
    BY DEF EInv, NoRowInv
  <1> QED
    BY <1>3, <1>5, <1>8, <1>9, RunStepKeeps

LEMMA PrepareFailsStep ==
    ASSUME EInv, IInv', PrepareFails
    PROVE  EInv'
  <1> DEFINE row == [mem[cur] EXCEPT !.st = "failed", !.job = FALSE]
  <1>1. phase = "work" /\ cur \in Leads /\ todo["run"] = <<>>
    BY DEF PrepareFails, At, EInv, IInv
  <1>2. row.id = mem[cur].id /\ row.st # "preparing"
    BY <1>1, Typed DEF EInv, Row
  <1>3. /\ Conclude(row, <<SetLead(cur, "failed")>>) /\ emails' = emails
        /\ UNCHANGED <<app, asked, unrecorded, batch, cold, settle, coldSent, faults>>
    BY DEF PrepareFails, store, tables, history, sent
  <1> HIDE DEF row
  <1> QED
    BY <1>1, <1>2, <1>3, LeadStatuses, ConcludeStep

LEMMA PrepareLaterStep ==
    ASSUME EInv, IInv', PrepareLater
    PROVE  EInv'
  <1> DEFINE row  == [mem[cur] EXCEPT !.job = FALSE, !.att = @ + 1]
             last == [row EXCEPT !.st = "failed"]
             back == [row EXCEPT !.st = "queued"]
  <1>1. phase = "work" /\ cur \in Leads /\ todo["run"] = <<>>
    BY DEF PrepareLater, At, EInv, IInv
  <1>2. /\ last.id = mem[cur].id /\ last.st # "preparing"
        /\ back.id = mem[cur].id /\ back.st # "preparing"
    BY <1>1, Typed DEF EInv, Row
  <1>3. /\ \/ Conclude(last, <<SetLead(cur, "failed")>>)
           \/ Conclude(back, <<SetLead(cur, "approved")>>)
        /\ UNCHANGED <<app, asked, unrecorded, batch, cold, settle, coldSent, faults>>
        /\ emails' = emails
    BY DEF PrepareLater, store, tables, history, sent
  <1> HIDE DEF last, back
  <1> QED
    BY <1>1, <1>2, <1>3, LeadStatuses, ConcludeStep

LEMMA SendApplicationStep ==
    ASSUME EInv, IInv', SendApplication
    PROVE  EInv'
  <1> DEFINE out  == [mem[cur] EXCEPT !.st = "submitted", !.recent = TRUE]
             kept == [mem[cur] EXCEPT !.st = "failed"]
  <1>1. phase = "send" /\ cur \in Leads /\ todo["run"] = <<>>
    BY DEF SendApplication, At, EInv, IInv
  <1>2. /\ out.id = mem[cur].id /\ out.st = "submitted"
        /\ kept.id = mem[cur].id /\ kept.st = "failed"
    BY <1>1, Typed DEF EInv, Row
  <1>3. /\ \/ /\ emails' = [emails EXCEPT ![cur] = @ + 1]
              /\ Conclude(out, <<SetLead(cur, "applied")>>)
           \/ emails' = emails /\ Conclude(kept, <<SetLead(cur, "failed")>>)
        /\ UNCHANGED <<app, asked, unrecorded, batch, cold, settle, coldSent, faults>>
    BY DEF SendApplication, store, tables, history
  <1> HIDE DEF out, kept
  <1> QED
    BY <1>1, <1>2, <1>3, LeadStatuses, ConcludeStep

LEMMA CheckCancelledStep ==
    ASSUME EInv, IInv', CheckCancelled
    PROVE  EInv'
  <1>1. /\ phase = "check" /\ cur \in Leads /\ cur # NoLead /\ todo["run"] = <<>>
        /\ settle = {} /\ cur \notin batch \cup cold
    BY Typed DEF CheckCancelled, At, EInv, IInv, ShapeInv
  <1>2. /\ UNCHANGED <<app, asked, unrecorded, batch, cold, settle, sent, faults>>
        /\ emails' = emails /\ coldSent' = coldSent
    BY DEF CheckCancelled, store, tables, history, sent
  <1>3. CASE /\ app[cur].id = mem[cur].id /\ app[cur].st = "cancelled"
             /\ mem' = [mem EXCEPT ![cur] = NoRow] /\ cur' = NoLead /\ phase' = "pick"
             /\ UNCHANGED todo
    <2>1. ShapeInv'
      BY <1>1, <1>2, <1>3, LeadsAssumption DEF EInv, IInv, TypeOK, ShapeInv, LeadsAssumption
    <2>2. SavesInv' /\ \A k \in Leads : ~RunSaves(k) /\ ~RunSaves(k)'
      BY <1>1, <1>3, SavesNothing, SavesNothingNext
    <2>3. \A l \in Leads : l # cur => mem'[l] = mem[l]
      BY <1>3
    <2>4. ASSUME NEW l \in Leads PROVE LeadMoves(l)
      <3>1. l # NoLead
        BY Typed DEF EInv
      <3>2. Held(l)' => Held(l)
        BY <1>1, <1>2, <1>3, <2>2, <2>3, <3>1 DEF Held
      <3>3. Waiting(l)' => Waiting(l)
        BY <1>1, <1>2, <1>3, <2>2, <2>3, <3>1 DEF Waiting, Covered, Due
      <3>4. /\ OnRecord(l) => OnRecord(l)'
            /\ app[l].st = "preparing" /\ InHand(l) => InHand(l)'
        BY <1>1, <1>2, <1>3, <2>2, <2>3, <3>1 DEF OnRecord, InHand
      <3> QED
        BY <1>2, <3>2, <3>3, <3>4 DEF LeadMoves, Spends, EInv, PreparingInv
    <2>5. NoRowInv'
      BY <1>2 DEF EInv, NoRowInv
    <2> QED
      BY <1>2, <1>3, <2>1, <2>2, <2>4, <2>5, RunStepKeeps
  <1>4. CASE phase' = "send" /\ UNCHANGED <<mem, cur, todo>>
    <2>1. ShapeInv'
      BY <1>1, <1>2, <1>4 DEF EInv, ShapeInv
    <2> QED
      BY <1>2, <1>4, <2>1, PhaseStep
  <1>5. CASE Conclude([mem[cur] EXCEPT !.st = "ready", !.att = 0], <<>>)
    <2> DEFINE row == [mem[cur] EXCEPT !.st = "ready", !.att = 0]
    <2>1. row.id = mem[cur].id /\ row.st # "preparing"
      BY <1>1, Typed DEF EInv, Row
    <2>2. Conclude(row, <<>>)
      BY <1>5
    <2> HIDE DEF row
    <2> QED
      BY <1>1, <1>2, <2>1, <2>2, ConcludeStep
  <1> QED
    BY <1>3, <1>4, <1>5 DEF CheckCancelled

LEMMA PrepareByColdEmailStep ==
    ASSUME EInv, IInv', PrepareByColdEmail
    PROVE  EInv'
  <1>1. /\ phase = "work" /\ phase' = "pick" /\ todo["run"] = <<>> /\ todo' = todo
        /\ batch' = batch /\ cur' = NoLead /\ cold' = cold \cup {cur} /\ settle' = settle
        /\ emails' = emails /\ coldSent' = coldSent /\ app' = app
        /\ UNCHANGED <<asked, unrecorded, faults>>
        /\ mem' = [mem EXCEPT ![cur].job = FALSE]
    BY DEF PrepareByColdEmail, At, store, tables, history, sent
  <1>2. cur \in Leads /\ cur # NoLead /\ settle = {} /\ cur \notin batch \cup cold
    BY <1>1, Typed DEF EInv, IInv, ShapeInv
  <1>3. \A l \in Leads : mem'[l].id = mem[l].id
    BY <1>1, Typed DEF EInv, IInv, TypeOK, Row
  <1>4. ShapeInv'
    BY <1>1, <1>2, LeadsAssumption DEF EInv, IInv, TypeOK, ShapeInv, LeadsAssumption
  <1>5. SavesInv' /\ \A k \in Leads : ~RunSaves(k) /\ ~RunSaves(k)'
    BY <1>1, SavesNothing, SavesNothingNext
  <1>6. ASSUME NEW l \in Leads PROVE LeadMoves(l)
    <2>1. l # NoLead
      BY Typed DEF EInv
    <2>2. (Held(l)' => Held(l)) /\ (Waiting(l)' => Waiting(l))
      BY <1>1, <1>2, <1>3, <1>5, <2>1 DEF Held, Waiting, Covered
    <2>3. /\ OnRecord(l) => OnRecord(l)'
          /\ InHand(l) => InHand(l)'
      BY <1>1, <1>2, <1>3, <1>5, <2>1 DEF OnRecord, InHand
    <2> QED
      BY <1>1, <2>2, <2>3 DEF LeadMoves, Spends, EInv, PreparingInv
  <1>7. NoRowInv'
    BY <1>1 DEF EInv, NoRowInv
  <1> QED
    BY <1>1, <1>4, <1>5, <1>6, <1>7, RunStepKeeps

LEMMA PrepareTailoredStep ==
    ASSUME EInv, IInv', PrepareTailored
    PROVE  EInv'
  <1>1. /\ phase = "work" /\ phase' = "check" /\ todo["run"] = <<>> /\ todo' = todo
        /\ batch' = batch /\ cur' = cur /\ cold' = cold /\ settle' = settle
        /\ emails' = emails /\ coldSent' = coldSent /\ app' = app
        /\ UNCHANGED <<asked, unrecorded, faults>>
    BY DEF PrepareTailored, At, AdoptEmail, store, tables, history, sent
  <1>2. cur \in Leads /\ settle = {}
    BY <1>1 DEF EInv, IInv, ShapeInv
  <1> DEFINE c == IF applyEmail'[cur] THEN "email" ELSE "browser"
  <1>3. mem' = [mem EXCEPT ![cur].job = TRUE, ![cur].ch = c]
    BY DEF PrepareTailored
  <1> HIDE DEF c
  <1>4. ASSUME NEW l \in Leads PROVE mem'[l].id = mem[l].id
    <2>1. mem \in [Leads -> Row] /\ mem[l] \in Row
      BY Typed DEF EInv, IInv, TypeOK
    <2> QED
      BY <1>2, <1>3, <2>1 DEF Row
  <1>5. ShapeInv'
    BY <1>1, <1>2 DEF EInv, ShapeInv
  <1>6. SavesInv' /\ \A k \in Leads : ~RunSaves(k) /\ ~RunSaves(k)'
    BY <1>1, SavesNothing, SavesNothingNext
  <1>7. ASSUME NEW l \in Leads PROVE LeadMoves(l)
    <2>1. (Held(l)' => Held(l)) /\ (Waiting(l)' => Waiting(l))
      BY <1>1, <1>2, <1>4, <1>6 DEF Held, Waiting, Covered
    <2>2. /\ OnRecord(l) => OnRecord(l)'
          /\ InHand(l) => InHand(l)'
      BY <1>1, <1>2, <1>4, <1>6 DEF OnRecord, InHand
    <2> QED
      BY <1>1, <2>1, <2>2 DEF LeadMoves, Spends, EInv, PreparingInv
  <1>8. NoRowInv'
    BY <1>1 DEF EInv, NoRowInv
  <1> QED
    BY <1>1, <1>5, <1>6, <1>7, <1>8, RunStepKeeps

-----------------------------------------------------------------------------
(* The run gives leads back, or settles them.                              *)

\* Copies that go back to the queue.
LEMMA HandedBack ==
    ASSUME EInv, NEW S,
           mem' = [l \in Leads |-> IF l \in S THEN [mem[l] EXCEPT !.st = "queued"] ELSE NoRow]
    PROVE  \A l \in Leads : l \in S => mem'[l].id = mem[l].id /\ mem'[l].st = "queued"
  BY Typed DEF EInv, Row

LEMMA PrepareWithoutKeyStep ==
    ASSUME EInv, IInv', PrepareWithoutKey
    PROVE  EInv'
  <1>1. /\ phase = "work" /\ phase' = "settle" /\ todo["run"] = <<>>
        /\ batch' = {} /\ cur' = NoLead /\ cold' = {} /\ settle' = cold
        /\ emails' = emails /\ coldSent' = coldSent /\ app' = app
        /\ UNCHANGED <<asked, unrecorded, faults>>
        /\ mem' = [l \in Leads |-> IF l \in cold THEN [mem[l] EXCEPT !.st = "queued"] ELSE NoRow]
    BY DEF PrepareWithoutKey, At, store, tables, history, sent
  <1>2. cur \in Leads /\ cur # NoLead /\ settle = {} /\ cur \notin batch \cup cold
    BY <1>1, Typed DEF EInv, IInv, ShapeInv
  <1>3. \A l \in Leads : l \in cold => mem'[l].id = mem[l].id /\ mem'[l].st = "queued"
    BY <1>1, HandedBack
  <1>4. cold \subseteq Leads /\ NoLead \notin Leads
    BY LeadsAssumption DEF EInv, IInv, TypeOK, LeadsAssumption
  <1>5. ShapeInv'
    BY <1>1, <1>3, <1>4 DEF ShapeInv
  <1>6. PICK j \in BOOLEAN :
           todo' = [todo EXCEPT !["run"] =
                      <<SaveRow(cur, [mem[cur] EXCEPT !.st = "queued", !.job = j])>>]
    BY Zenon DEF PrepareWithoutKey
  <1> DEFINE row == [mem[cur] EXCEPT !.st = "queued", !.job = j]
             t   == <<SaveRow(cur, row)>>
  <1>7. row.id = mem[cur].id /\ row.st = "queued"
    BY <1>2, Typed DEF EInv, Row
  <1>8. /\ SavesInv' /\ Saved' = row
        /\ \A k \in Leads : RunSaves(k)' <=> k = cur
        /\ \A q \in Requests : todo'[q] = todo[q]
    <2>1. /\ t # <<>> /\ Head(t) = SaveRow(cur, row) /\ t[1] = SaveRow(cur, row)
          /\ \A n \in 1..Len(t) : n > 1 => t[n].do = "lead"
      OBVIOUS
    <2>2. todo' = [todo EXCEPT !["run"] = t]
      BY <1>6
    <2>3. cur \notin batch' \cup cold' \cup settle' \cup {cur'} /\ row.st # "preparing"
      BY <1>1, <1>2, <1>7
    <2> HIDE DEF row, t
    <2> QED
      BY <1>2, <2>1, <2>2, <2>3, SavesOne
  <1> HIDE DEF row, t
  <1>9. \A k \in Leads : ~RunSaves(k)
    BY <1>1, SavesNothing
  <1>10. ASSUME NEW l \in Leads PROVE LeadMoves(l)
    <2>1. l # NoLead
      BY Typed DEF EInv
    <2>2. Held(l)' => Held(l)
      BY <1>1, <1>2, <1>8, <2>1 DEF Held
    <2>3. CASE l \in batch
      <3>1. Held(l) /\ ~Held(l)' /\ ~InHand(l) /\ (OnRecord(l) => OnRecord(l)')
        BY <1>1, <1>2, <1>8, <1>9, <2>1, <2>3 DEF EInv, ShapeInv, Held, InHand, OnRecord
      <3> QED
        BY <1>1, <3>1 DEF LeadMoves, Spends, EInv, PreparingInv
    <2>4. CASE l \notin batch
      <3>1. Waiting(l)' => Waiting(l)
        BY <1>1, <1>2, <1>3, <1>7, <1>8, <1>9, <2>1, <2>4 DEF Waiting, Covered
      <3>2. /\ OnRecord(l) => OnRecord(l)'
            /\ InHand(l) => InHand(l)'
        BY <1>1, <1>2, <1>3, <1>7, <1>8, <1>9, <2>1 DEF OnRecord, InHand
      <3> QED
        BY <1>1, <2>2, <3>1, <3>2 DEF LeadMoves, Spends, EInv, PreparingInv
    <2> QED
      BY <2>3, <2>4
  <1>11. NoRowInv'
    BY <1>1 DEF EInv, NoRowInv
  <1> QED
    BY <1>1, <1>5, <1>8, <1>10, <1>11, RunStepKeeps

\* A group gets its outcome: l is settled, or still waits for its cold email.
LEMMA SettlingStep ==
    ASSUME EInv, IInv', phase = "cold", todo["run"] = <<>>,
           NEW G, G \subseteq cold, Settling(G),
           UNCHANGED <<asked, unrecorded, app>>,
           \A l \in Leads : /\ mem'[l].id = mem[l].id
                            /\ l \in G => mem'[l].st # "preparing"
                            /\ \/ emails'[l] = emails[l]
                               \/ l \in G /\ mem'[l].st # "queued" /\ emails'[l] = emails[l] + 1,
           \A d \in Addresses : coldSent'[d] = coldSent[d] \/ ColdKept(d)'
    PROVE  EInv'
  <1>1. /\ phase' = "settle" /\ settle' = G /\ cold' = cold \ G /\ batch' = batch /\ cur' = cur
        /\ todo' = todo /\ faults' = faults
    BY DEF Settling
  <1>2. batch = {} /\ settle = {} /\ cur = NoLead
    BY DEF EInv, ShapeInv
  <1>3. cold \subseteq Leads /\ NoLead \notin Leads
    BY LeadsAssumption DEF EInv, IInv, TypeOK, LeadsAssumption
  <1>4. ShapeInv'
    BY <1>1, <1>2, <1>3 DEF ShapeInv
  <1>5. SavesInv' /\ \A k \in Leads : ~RunSaves(k) /\ ~RunSaves(k)'
    BY <1>1, SavesNothing, SavesNothingNext
  <1>6. ASSUME NEW l \in Leads PROVE LeadMoves(l)
    <2>1. l # NoLead
      BY Typed DEF EInv
    <2>2. (Held(l)' => Held(l)) /\ (l \in G => Held(l) /\ (Held(l)' => mem'[l].st = "queued"))
      BY <1>1, <1>2, <1>5, <2>1 DEF Held
    <2>3. Waiting(l)' => Waiting(l)
      BY <1>1, <1>2, <1>5, <2>1 DEF Waiting, Covered
    <2>4. /\ OnRecord(l) => OnRecord(l)'
          /\ InHand(l) => InHand(l)'
      BY <1>1, <1>2, <1>5, <2>1 DEF OnRecord, InHand
    <2>5. Spends(l)
      BY <2>2, <2>3 DEF Spends
    <2> QED
      BY <1>1, <2>4, <2>5 DEF LeadMoves, EInv, PreparingInv
  <1>7. NoRowInv'
    BY DEF EInv, NoRowInv
  <1> QED
    BY <1>1, <1>4, <1>5, <1>6, <1>7, RunStepKeeps

\* What an outcome leaves of the copies.
LEMMA OutcomeIs ==
    ASSUME EInv, NEW G, NEW s, s # "preparing", Outcome(G, s)
    PROVE  \A l \in Leads : mem'[l].id = mem[l].id /\ (l \in G => mem'[l].st = s)
  BY Typed DEF EInv, Outcome, Row

LEMMA SendColdEmailStep ==
    ASSUME EInv, IInv', NEW d \in Addresses, SendColdEmail(d)
    PROVE  EInv'
  <1> DEFINE group == {l \in cold : Contact[l] = d}
  <1>1. phase = "cold" /\ todo["run"] = <<>> /\ group # {} /\ group \subseteq cold
    BY DEF SendColdEmail, At
  <1>2. cold \subseteq Leads /\ emails \in [Leads -> Nat] /\ coldSent \in [Addresses -> Nat]
    BY DEF EInv, IInv, TypeOK
  <1>3. settle = {} /\ \A k \in Leads : ~RunSaves(k)
    BY <1>1, SavesNothing DEF EInv, ShapeInv
  <1>4. CASE /\ UNCHANGED sent /\ Outcome(group, "failed") /\ Settling(group)
    <2>1. UNCHANGED <<emails, coldSent, asked, unrecorded, app>>
      BY <1>4 DEF sent, Settling, store, tables, history
    <2> HIDE DEF group
    <2> QED
      BY <1>1, <1>4, <2>1, OutcomeIs, SettlingStep
  <1>5. CASE /\ UNCHANGED sent /\ Outcome(cold, "queued") /\ Settling(cold)
    <2>1. UNCHANGED <<emails, coldSent, asked, unrecorded, app>>
      BY <1>5 DEF sent, Settling, store, tables, history
    <2> HIDE DEF group
    <2> QED
      BY <1>1, <1>5, <2>1, OutcomeIs, SettlingStep
  <1>6. CASE /\ ~RecentlyEmailed(d)
             /\ coldSent' = [coldSent EXCEPT ![d] = @ + 1]
             /\ emails' = [l \in Leads |-> IF l \in group THEN emails[l] + 1 ELSE emails[l]]
             /\ \E S \in SUBSET group :
                   mem' = [l \in Leads |-> IF l \in group THEN Emailed(mem[l], l \in S) ELSE mem[l]]
             /\ Settling(group)
    <2>1. UNCHANGED <<asked, unrecorded, app>> /\ settle' = group /\ faults' = faults
      BY <1>6 DEF Settling, store, tables, history
    <2>2. ASSUME NEW l \in Leads
          PROVE  /\ mem'[l].id = mem[l].id
                 /\ l \in group => mem'[l].st = "submitted" /\ ColdEmailed(mem'[l])
      <3>1. mem[l] \in Row
        BY Typed DEF EInv
      <3>2. ASSUME NEW recorded
            PROVE  /\ Emailed(mem[l], recorded).id = mem[l].id
                   /\ Emailed(mem[l], recorded).st = "submitted"
                   /\ ColdEmailed(Emailed(mem[l], recorded))
        BY <3>1 DEF Emailed, Row, ColdEmailed
      <3>3. PICK S \in SUBSET group :
               mem' = [k \in Leads |-> IF k \in group THEN Emailed(mem[k], k \in S) ELSE mem[k]]
        BY <1>6
      <3>4. mem'[l] = IF l \in group THEN Emailed(mem[l], l \in S) ELSE mem[l]
        BY <3>3
      <3> HIDE DEF group
      <3> QED
        BY <3>2, <3>4
    <2>3. \A l \in Leads : emails'[l] = emails[l] \/ (l \in group /\ emails'[l] = emails[l] + 1)
      BY <1>2, <1>6
    <2>4. ColdKept(d)'
      <3>1. PICK l \in Leads : l \in group /\ Contact[l] = d
        BY <1>1, <1>2
      <3>2. OnRecord(l)'
        BY <2>1, <2>2, <3>1 DEF OnRecord
      <3>3. \A k \in Leads : Contact[k] = d => ~OnRecord(k)
        BY <1>3, <1>6 DEF RecentlyEmailed, OnRecord, ColdEmailed
      <3>4. \/ faults > 0 \/ \E k \in Leads : Contact[k] = d /\ unrecorded[k]
            \/ coldSent[d] = 0
        BY <3>3 DEF EInv, ColdInv, ColdKept
      <3>5. coldSent[d] = 0 => coldSent'[d] = 1
        BY <1>2, <1>6
      <3> QED
        BY <2>1, <3>1, <3>2, <3>4, <3>5 DEF ColdKept
    <2>5. \A e \in Addresses : coldSent'[e] = coldSent[e] \/ ColdKept(e)'
      BY <1>2, <1>6, <2>4
    <2> HIDE DEF group
    <2> QED
      BY <1>1, <1>6, <2>1, <2>2, <2>3, <2>5, SettlingStep
  <1> QED
    BY <1>4, <1>5, <1>6 DEF SendColdEmail

LEMMA SettleNextStep ==
    ASSUME EInv, IInv', NEW c \in Leads, SettleNext(c)
    PROVE  EInv'
  <1> DEFINE r == mem[c]
             t == <<SaveRow(c, r), SetLead(c, LeadFor(r.st))>>
  <1>1. /\ phase = "settle" /\ phase' = phase /\ todo["run"] = <<>> /\ c \in settle
        /\ batch' = batch /\ cur' = cur /\ cold' = cold /\ settle' = settle \ {c}
        /\ emails' = emails /\ coldSent' = coldSent /\ app' = app
        /\ UNCHANGED <<asked, unrecorded, faults>>
        /\ mem' = [mem EXCEPT ![c] = NoRow] /\ todo' = [todo EXCEPT !["run"] = t]
    BY DEF SettleNext, At, store, tables, history, sent
  <1>2. batch = {} /\ cur = NoLead /\ c \notin cold /\ c # NoLead /\ r.st # "preparing"
    BY <1>1, Typed DEF EInv, ShapeInv
  <1>3. \A l \in Leads : l # c => mem'[l] = mem[l]
    BY <1>1
  <1>4. ShapeInv'
    BY <1>1, <1>3 DEF EInv, IInv, TypeOK, ShapeInv
  <1>5. /\ SavesInv' /\ Saved' = r
        /\ \A k \in Leads : RunSaves(k)' <=> k = c
        /\ \A q \in Requests : todo'[q] = todo[q]
    <2>1. /\ t # <<>> /\ Head(t) = SaveRow(c, r) /\ t[1] = SaveRow(c, r)
          /\ \A n \in 1..Len(t) : n > 1 => t[n].do = "lead"
      BY DEF SetLead
    <2>2. c \notin batch' \cup cold' \cup settle' \cup {cur'}
      BY <1>1, <1>2
    <2>3. todo' = [todo EXCEPT !["run"] = t]
      BY <1>1
    <2> HIDE DEF r, t
    <2> QED
      BY <1>2, <2>1, <2>2, <2>3, SavesOne
  <1> HIDE DEF t
  <1>6. \A k \in Leads : ~RunSaves(k)
    BY <1>1, SavesNothing
  <1>7. ASSUME NEW l \in Leads PROVE LeadMoves(l)
    <2>1. l # NoLead
      BY Typed DEF EInv
    <2>2. Held(l)' => Held(l)
      BY <1>1, <1>2, <1>3, <1>5, <2>1 DEF Held
    <2>3. Waiting(l)' => Waiting(l)
      BY <1>1, <1>2, <1>3, <1>5, <1>6, <2>1 DEF Waiting, Covered
    <2>4. /\ OnRecord(l) => OnRecord(l)'
          /\ InHand(l) => InHand(l)'
      BY <1>1, <1>2, <1>3, <1>5, <1>6, <2>1 DEF OnRecord, InHand
    <2> QED
      BY <1>1, <2>2, <2>3, <2>4 DEF LeadMoves, Spends, EInv, PreparingInv
  <1>8. NoRowInv'
    BY <1>1 DEF EInv, NoRowInv
  <1> QED
    BY <1>1, <1>4, <1>5, <1>7, <1>8, RunStepKeeps

-----------------------------------------------------------------------------
(* The run, or everything, is cut short.  The fault pays for the row that  *)
(* is left to the next run.                                                *)

LEMMA CutShort ==
    ASSUME EInv, IInv', ShapeInv', HandlersInv', todo'["run"] = <<>>,
           UNCHANGED <<app, asked, unrecorded, emails>>, faults' = faults + 1,
           \A l \in Leads : Held(l)' => Held(l)
    PROVE  EInv'
  <1>1. faults \in Nat
    BY DEF EInv, IInv, TypeOK
  <1>2. CreditInv'
    <2>1. ASSUME NEW l \in Leads
          PROVE  emails'[l] + Owed(l)' <= asked'[l] + faults'
      <3>1. emails[l] + Owed(l) <= asked[l] + faults
        BY DEF EInv, CreditInv
      <3>2. emails[l] \in Nat /\ asked[l] \in Nat
        BY Typed DEF EInv
      <3>3. Held(l)' => Held(l)
        OBVIOUS
      <3>4. /\ Owed(l) \in 0..2 /\ Owed(l)' \in 0..2
            /\ Owed(l)' <= Owed(l) + 1
        BY <3>3 DEF Owed
      <3> QED
        BY <1>1, <3>1, <3>2, <3>4
    <2> QED
      BY <2>1 DEF CreditInv
  <1>3. faults' > 0 /\ faults' # 0
    BY <1>1
  <1>4. ColdInv' /\ PreparingInv'
    BY <1>3 DEF ColdInv, ColdKept, PreparingInv
  <1>5. NoRowInv'
    BY DEF EInv, NoRowInv
  <1> QED
    BY <1>2, <1>4, <1>5, SavesNothingNext DEF EInv

LEMMA RunTimesOutStep ==
    ASSUME EInv, IInv', RunTimesOut
    PROVE  EInv'
  <1>1. /\ phase' = "settle" /\ batch' = {} /\ cur' = NoLead /\ cold' = {} /\ settle' = cold
        /\ UNCHANGED <<app, asked, unrecorded, emails>> /\ faults' = faults + 1
        /\ todo' = [todo EXCEPT !["run"] = <<>>]
        /\ mem' = [l \in Leads |-> IF l \in cold THEN [mem[l] EXCEPT !.st = "queued"] ELSE NoRow]
    BY DEF RunTimesOut, store, tables, history, sent
  <1>2. todo'["run"] = <<>> /\ HandlersInv'
    BY <1>1, TodoIs DEF EInv, HandlersInv, Stops
  <1>3. \A l \in Leads : l \in cold => mem'[l].id = mem[l].id /\ mem'[l].st = "queued"
    BY <1>1, HandedBack
  <1>4. cold \subseteq Leads /\ NoLead \notin Leads
    BY LeadsAssumption DEF EInv, IInv, TypeOK, LeadsAssumption
  <1>5. ShapeInv'
    BY <1>1, <1>3, <1>4 DEF ShapeInv
  <1>6. \A l \in Leads : Held(l)' => Held(l)
    BY <1>1, <1>2, <1>4, SavesNothingNext DEF Held
  <1> QED
    BY <1>1, <1>2, <1>5, <1>6, CutShort

LEMMA CrashStep ==
    ASSUME EInv, IInv', Crash
    PROVE  EInv'
  <1>1. /\ phase' = "idle" /\ batch' = {} /\ cur' = NoLead /\ cold' = {} /\ settle' = {}
        /\ UNCHANGED <<app, asked, unrecorded, emails>> /\ faults' = faults + 1
        /\ todo' = [a \in Actors |-> <<>>]
    BY DEF Crash, store, tables, history, sent
  <1>2. todo'["run"] = <<>> /\ \A r \in Requests : todo'[r] = <<>>
    BY <1>1, TodoIs DEF EInv
  <1>3. HandlersInv'
    BY <1>2 DEF HandlersInv, Stops
  <1>4. NoLead \notin Leads
    BY LeadsAssumption DEF LeadsAssumption
  <1>5. ShapeInv'
    BY <1>1 DEF ShapeInv
  <1>6. \A l \in Leads : ~Held(l)'
    BY <1>1, <1>2, <1>4, SavesNothingNext DEF Held
  <1> QED
    BY <1>1, <1>2, <1>3, <1>5, <1>6, CutShort

-----------------------------------------------------------------------------
(* The invariant.                                                          *)

LEMMA InitKeeps == Init => EInv
  <1> SUFFICES ASSUME Init PROVE EInv
    OBVIOUS
  <1>1. IInv
    BY InitFit
  <1>2. /\ phase = "idle" /\ batch = {} /\ cur = NoLead /\ cold = {} /\ settle = {} /\ faults = 0
        /\ \A r \in Requests : todo[r] = <<>>
        /\ todo["run"] = <<>>
        /\ \A l \in Leads : emails[l] = 0 /\ asked[l] = 0
        /\ \A d \in Addresses : coldSent[d] = 0
    BY DEF Init, InitTables, Actors
  <1>3. NoLead \notin Leads
    BY LeadsAssumption DEF LeadsAssumption
  <1>4. \A l \in Leads : app[l].st = "none"
    BY DEF Init, InitTables, NoRow
  <1>5. NoRowInv /\ PreparingInv
    BY <1>4 DEF NoRowInv, PreparingInv
  <1>6. ShapeInv
    BY <1>2 DEF ShapeInv
  <1>7. SavesInv /\ \A l \in Leads : ~RunSaves(l)
    BY <1>2, SavesNothing
  <1>8. HandlersInv
    BY <1>2 DEF HandlersInv, Stops
  <1>9. ColdInv
    BY <1>2 DEF ColdInv, ColdKept
  <1>10. ASSUME NEW l \in Leads PROVE ~Held(l) /\ ~Waiting(l)
    <2>1. l # NoLead
      BY <1>3
    <2> QED
      BY <1>2, <1>4, <1>7, <2>1 DEF Held, Waiting, Due
  <1>11. CreditInv
    <2>1. ASSUME NEW l \in Leads PROVE emails[l] + Owed(l) <= asked[l] + faults
      <3>1. Owed(l) = 0 /\ emails[l] = 0 /\ asked[l] = 0 /\ faults = 0
        BY <1>2, <1>10, OwedIs
      <3> QED
        BY <3>1
    <2> QED
      BY <2>1 DEF CreditInv
  <1> QED
    BY <1>1, <1>5, <1>6, <1>7, <1>8, <1>9, <1>11 DEF EInv

LEMMA NextKeeps == EInv /\ [Next]_vars => EInv'
  <1> SUFFICES ASSUME EInv, [Next]_vars PROVE EInv'
    OBVIOUS
  <1>1. IInv'
    BY NextFit DEF EInv
  <1>2. CASE \E r \in Requests, l \in Leads :
                UserStep(r, l) \/ ClaimNext(r, l) \/ ReportResult(r, l) \/ MatchConfirmation(r, l)
    BY <1>1, <1>2, UserStepStep, ClaimNextStep
  <1>3. CASE \E a \in Actors : Exec(a)
    BY <1>1, <1>3, ExecRequestStep, ExecRunStep DEF Actors
  <1>4. CASE \E r \in Requests : Interrupt(r) \/ \E l \in Leads : DismissUnseen(r, l)
    BY <1>1, <1>4, InterruptStep, DismissUnseenStep
  <1>5. CASE RunStep
    BY <1>1, <1>5, BeginApplyStageStep, PhaseSteps, LoadQueuedStep, PrepareNextStep,
       PrepareFailsStep, PrepareLaterStep, PrepareByColdEmailStep, PrepareWithoutKeyStep,
       PrepareTailoredStep, CheckCancelledStep, SendApplicationStep, SendColdEmailStep,
       SettleNextStep DEF RunStep
  <1>6. CASE Clock
    BY <1>1, <1>6, ClockStep
  <1>7. CASE RunTimesOut
    BY <1>1, <1>7, RunTimesOutStep
  <1>8. CASE Crash
    BY <1>1, <1>8, CrashStep
  <1>9. CASE UNCHANGED vars
    <2>1. UNCHANGED <<app, asked, unrecorded, todo, runVars, sent, faults>>
      BY <1>9 DEF vars, store, tables, history
    <2>2. HandlersInv' /\ faults <= faults'
      BY <2>1 DEF EInv, IInv, TypeOK, HandlersInv, Stops
    <2> QED
      BY <1>1, <2>1, <2>2, SameRows, StoreStep
  <1> QED
    BY <1>2, <1>3, <1>4, <1>5, <1>6, <1>7, <1>8, <1>9 DEF Next

(* Every reachable state satisfies EInv: nobody's emails exceed what was   *)
(* asked, and what the run holds is accounted for.                         *)
THEOREM EmailsInductive == Spec => []EInv
  BY InitKeeps, NextKeeps, PTL DEF Spec

(* An employer gets one application email per decision of the user's to    *)
(* apply, and one more for each run or handler that was cut short, however *)
(* the run's stale copies are written over the user's changes.             *)
THEOREM EmailsAreAsked == Spec => []EmailsNeedAsking
  <1>1. EInv => EmailsNeedAsking
    <2> SUFFICES ASSUME EInv, NEW l \in Leads PROVE emails[l] <= asked[l] + faults
      BY DEF EmailsNeedAsking
    <2>1. emails[l] + Owed(l) <= asked[l] + faults
      BY DEF EInv, CreditInv
    <2>2. emails[l] \in Nat /\ asked[l] \in Nat /\ faults \in Nat
      BY Typed DEF EInv
    <2>3. Owed(l) \in 0..2
      BY DEF Owed
    <2> QED
      BY <2>1, <2>2, <2>3
  <1> QED
    BY <1>1, EmailsInductive, PTL

(* No address is cold-emailed twice in the cooldown, whatever is in        *)
(* progress elsewhere, unless something was cut short or a stale write     *)
(* took the record of the first email away.                                *)
THEOREM CooldownKept == Spec => []ColdEmailCooldown
  <1>1. EInv => ColdEmailCooldown
    <2> SUFFICES ASSUME EInv, NEW d \in Addresses, coldSent[d] > 1
                 PROVE  faults > 0 \/ \E l \in Leads : Contact[l] = d /\ unrecorded[l]
      BY DEF ColdEmailCooldown
    <2>1. ColdKept(d)
      BY DEF EInv, ColdInv
    <2>2. ~(coldSent[d] = 0) /\ ~(coldSent[d] = 1)
      OBVIOUS
    <2> QED
      BY <2>1, <2>2 DEF ColdKept
  <1> QED
    BY <1>1, EmailsInductive, PTL

(* A run that ends of itself leaves no application in preparing: the row   *)
(* it marked is one it still holds, and it ends with nothing in hand.      *)
THEOREM StagesEndClean == Spec => []NothingLeftPreparing
  <1>1. EInv => NothingLeftPreparing
    <2> SUFFICES ASSUME EInv, phase = "idle", todo["run"] = <<>>, faults = 0, NEW l \in Leads,
                        app[l].st = "preparing"
                 PROVE  FALSE
      BY DEF NothingLeftPreparing
    <2>1. InHand(l)
      BY DEF EInv, PreparingInv
    <2>2. cold = {} /\ settle = {} /\ cur = NoLead /\ ~RunSaves(l) /\ l # NoLead
      BY Typed, SavesNothing DEF EInv, ShapeInv
    <2> QED
      BY <2>1, <2>2 DEF InHand
  <1> QED
    BY <1>1, EmailsInductive, PTL
=============================================================================
