-------------------------- MODULE ApplicationStore --------------------------
(***************************************************************************)
(* The two tables every autopilot actor shares, job_leads and              *)
(* applications, as the SQL statements of internal/agent/repo_leads.go     *)
(* leave them.  One operator per statement.  A statement is atomic, a      *)
(* handler is not: SaveApplication writes back the WHOLE row a handler     *)
(* read earlier, whatever happened to the row since.                       *)
(*                                                                         *)
(* A lead has at most one application (idx_applications_lead), so rows are *)
(* indexed by lead; a row deleted and inserted again gets a fresh id, and  *)
(* a stale copy of the old one then matches nothing.                       *)
(***************************************************************************)
EXTENDS Integers, Sequences

CONSTANTS Leads          \* the user's job leads

VARIABLES
    lead,                \* lead[l]: job_leads.status
    applyEmail,          \* applyEmail[l]: the posting asks for an email (lead.ApplyEmail)
    app,                 \* app[l]: the row of applications with lead_id = l
    lastId,              \* lastId[l]: id of the newest row inserted for l
    (* what the properties remember *)
    asked,               \* asked[l]: how often a user decision put l in the queue
    streak,              \* streak[l]: hand-outs of l since its row was last written
    unrecorded           \* unrecorded[l]: a cold email about l has lost its record

tables  == <<lead, applyEmail, app, lastId>>
history == <<asked, streak, unrecorded>>

LeadStatus == {"new", "approved", "dismissed", "applying", "applied", "failed", "expired"}
AppStatus  == {"none", "queued", "preparing", "ready", "in_progress", "needs_input",
               "submitted", "failed", "cancelled"}

Row == [id     : Nat,
        st     : AppStatus,
        ch     : {"browser", "email", "cold_email"},
        job    : BOOLEAN,                      \* job_id is set
        att    : Nat,                          \* attempts
        lease  : {"none", "live", "expired"},  \* claim_expires_at against NOW()
        recent : BOOLEAN]                      \* submitted_at within 24 hours

NoRow == [id |-> 0, st |-> "none", ch |-> "browser", job |-> FALSE, att |-> 0,
          lease |-> "none", recent |-> FALSE]

Exists(l) == app[l].id # 0

ColdEmailed(r) == r.ch = "cold_email" /\ r.st = "submitted"

InitTables ==
    /\ lead = [l \in Leads |-> "new"]
    /\ applyEmail \in [Leads -> BOOLEAN]
    /\ app = [l \in Leads |-> NoRow]
    /\ lastId = [l \in Leads |-> 0]
    /\ asked = [l \in Leads |-> 0]
    /\ streak = [l \in Leads |-> 0]
    /\ unrecorded = [l \in Leads |-> FALSE]

-----------------------------------------------------------------------------
(* Statements.  Each one fixes the next value of every variable above.     *)

SetLeadStatus(l, s) ==
    /\ lead' = [lead EXCEPT ![l] = s]
    /\ UNCHANGED <<applyEmail, app, lastId, history>>

\* UPDATE applications SET <every column> WHERE id = r.id: no condition on the
\* row's current status, and no error when the row is gone.
PutRow(l, r) ==
    /\ app' = [app EXCEPT ![l] = r]
    /\ streak' = [streak EXCEPT ![l] = 0]
    /\ unrecorded' = [unrecorded EXCEPT
                        ![l] = @ \/ (ColdEmailed(app[l]) /\ ~ColdEmailed(r))]

Save(l, r) ==
    IF Exists(l) /\ app[l].id = r.id
    THEN PutRow(l, r)
    ELSE /\ unrecorded' = [unrecorded EXCEPT ![l] = @ \/ ColdEmailed(r)]
         /\ UNCHANGED <<app, streak>>

SaveApplication(l, r) ==
    /\ Save(l, r)
    /\ UNCHANGED <<lead, applyEmail, lastId, asked>>

\* The save of RetryApplication, which is also a decision to apply.
SaveRetried(l, r) ==
    /\ Save(l, r)
    /\ asked' = [asked EXCEPT ![l] = @ + 1]
    /\ UNCHANGED <<lead, applyEmail, lastId>>

\* INSERT ... ON CONFLICT (lead_id) DO UPDATE ... WHERE status IN ('cancelled',
\* 'failed'): attempts, channel and job of an old row are kept.
QueueApplication(l) ==
    /\ \/ /\ ~Exists(l)
          /\ lastId' = [lastId EXCEPT ![l] = @ + 1]
          /\ PutRow(l, [NoRow EXCEPT !.id = lastId[l] + 1, !.st = "queued"])
          /\ asked' = [asked EXCEPT ![l] = @ + 1]
       \/ /\ Exists(l) /\ app[l].st \in {"cancelled", "failed"}
          /\ PutRow(l, [app[l] EXCEPT !.st = "queued", !.lease = "none"])
          /\ asked' = [asked EXCEPT ![l] = @ + 1]
          /\ UNCHANGED lastId
       \/ /\ Exists(l) /\ app[l].st \notin {"cancelled", "failed"}
          /\ UNCHANGED <<app, streak, unrecorded, lastId, asked>>
    /\ UNCHANGED <<lead, applyEmail>>

\* DELETE ... WHERE id = i AND status IN ('queued', 'cancelled').
DeleteApplication(l, i) ==
    /\ IF Exists(l) /\ app[l].id = i /\ app[l].st \in {"queued", "cancelled"}
       THEN PutRow(l, NoRow)
       ELSE UNCHANGED <<app, streak, unrecorded>>
    /\ UNCHANGED <<lead, applyEmail, lastId, asked>>

\* Mutant: nothing is picked up after an interrupted run.
RequeueNone == app

\* UPDATE ... SET status = 'queued' WHERE status = 'preparing'.
RequeueAll ==
    [l \in Leads |-> IF app[l].st = "preparing"
                     THEN [app[l] EXCEPT !.st = "queued"] ELSE app[l]]

RequeueInterrupted ==
    /\ app' = RequeueAll
    /\ UNCHANGED <<lead, applyEmail, lastId, history>>

\* Mutant: an expired lease is not claimed again.
ClaimOrderReadyOnly(r) == r.ch = "browser" /\ r.st = "ready"

\* What ClaimBrowserApplication may lease, and the row it leaves.
ClaimOrder(r) ==
    /\ r.ch = "browser"
    /\ \/ r.st = "ready"
       \/ r.st = "in_progress" /\ r.lease = "expired"

\* Mutant: the lease is not written.
ClaimedUnleased(r) == [r EXCEPT !.st = "in_progress", !.att = @ + 1]

Claimed(r) == [r EXCEPT !.st = "in_progress", !.lease = "live", !.att = @ + 1]

\* handedOut: the caller passes the packet on, rather than give the row up.
ClaimBrowserApplication(l, handedOut) ==
    /\ ClaimOrder(app[l])
    /\ app' = [app EXCEPT ![l] = Claimed(@)]
    /\ streak' = [streak EXCEPT ![l] = IF handedOut THEN @ + 1 ELSE @]
    /\ UNCHANGED <<lead, applyEmail, lastId, asked, unrecorded>>

\* adoptPosting: the posting found names an address the lead had none of.
AdoptEmail(l) ==
    /\ applyEmail' = [applyEmail EXCEPT ![l] = TRUE]
    /\ UNCHANGED <<lead, app, lastId, history>>

-----------------------------------------------------------------------------
(* NOW() moves.                                                            *)

LeaseExpires(l) ==
    /\ app[l].lease = "live"
    /\ app' = [app EXCEPT ![l].lease = "expired"]
    /\ UNCHANGED <<lead, applyEmail, lastId, history>>

\* 24 hours pass: nothing submitted so far counts against the daily limit.
DayPasses ==
    /\ \E l \in Leads : app[l].recent
    /\ app' = [l \in Leads |-> [app[l] EXCEPT !.recent = FALSE]]
    /\ UNCHANGED <<lead, applyEmail, lastId, history>>

\* 21 days pass for a lead nobody reviewed (ExpireStaleLeads).
ExpireStaleLead(l) ==
    /\ lead[l] = "new"
    /\ SetLeadStatus(l, "expired")
=============================================================================
