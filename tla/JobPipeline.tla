---------------------------- MODULE JobPipeline ----------------------------
(***************************************************************************)
(* Adding a job by hand: the dialog of the dashboard (CreateJobModal.tsx)  *)
(* and the pipeline behind POST /jobs (internal/job/service.go), which     *)
(* reads the posting and tailors the resume while the request is open.     *)
(*                                                                         *)
(* A request lives under two contexts.  That of HTTP ends when the client  *)
(* goes away; that of the AI calls does not, but has a deadline.  A        *)
(* statement under a context that has ended does nothing, and nearly every *)
(* statement's error is ignored.                                           *)
(*                                                                         *)
(* Closing the dialog is going back to its first step.  A post has at most *)
(* one row, named after it.  The archive of raw input changes no row.      *)
(***************************************************************************)
EXTENDS Naturals

CONSTANTS
    Modals,                    \* dialogs: one in each tab
    MaxPosts,                  \* bound: requests
    Urls, NoUrl,
    Listed,                    \* URLs of jobs added before, in the list for a day at least
    None,
    MaxFaults                  \* bound: statements that fail though their context lives

Posts == 1..MaxPosts

ASSUME PipelineAssumption ==
    /\ MaxPosts \in Nat /\ None \notin Posts /\ None \notin Modals
    /\ NoUrl \notin Urls /\ Listed \subseteq Urls
    /\ MaxFaults \in Nat

VARIABLES
    modal,                     \* state of the dialogs
    post,                      \* requests, from the click to the answer's arrival
    job,                       \* table jobs
    faults

vars == <<modal, post, job, faults>>

FormSteps == {"input_method", "provide_job", "select_resume"}

(* Stages whose statements and calls are under the context of the AI.      *)
AIStages == {"extract", "extracted", "aligning", "align", "tailored", "misaligned", "discard"}

Stages == AIStages \cup {"validate", "create", "begin", "scrape", "pdf", "fields", "final"}

Errors == {"UNKNOWN_ERROR", "DUPLICATE_JOB", "EXTRACTION_FAILED", "INVALID_JOB_INPUT",
           "AI_TIMEOUT", "RESUME_MISALIGNED"}

Fresh == [step |-> "input_method", method |-> "url", created |-> None,
          error |-> "none", polling |-> FALSE]

NoRequest == [at |-> "unsent", by |-> None, url |-> NoUrl, cancelled |-> FALSE,
              late |-> FALSE, faulty |-> FALSE, answer |-> "none"]

NoRow == [listed |-> "absent", url |-> NoUrl, extraction |-> "pending",
          alignment |-> "pending", pdf |-> FALSE, fields |-> FALSE]

Init ==
    /\ modal = [m \in Modals |-> Fresh]
    /\ post = [p \in Posts |-> NoRequest]
    /\ job = [p \in Posts |-> NoRow]
    /\ faults = 0

Waiting(m, p) == post[p].by = m

(* The client goes away, which ends the context of a handler that runs.    *)
Abandoned(p) == [post[p] EXCEPT !.by = None, !.cancelled = post[p].at # "answered"]

Unheard(p) == [post[p] EXCEPT !.by = None]

-----------------------------------------------------------------------------
(* The dialog.                                                             *)

ChooseMethod(m, method) ==
    /\ modal[m].step = "input_method"
    /\ modal' = [modal EXCEPT ![m].step = "provide_job", ![m].method = method]
    /\ UNCHANGED <<post, job, faults>>

ProvideJob(m) ==
    /\ modal[m].step = "provide_job"
    /\ modal' = [modal EXCEPT ![m].step = "select_resume"]
    /\ UNCHANGED <<post, job, faults>>

Back(m) ==
    /\ \/ /\ modal[m].step = "provide_job"
          /\ modal' = [modal EXCEPT ![m].step = "input_method"]
       \/ /\ modal[m].step = "select_resume"
          /\ modal' = [modal EXCEPT ![m].step = "provide_job"]
    /\ UNCHANGED <<post, job, faults>>

SubmitJob(m, p, url) ==
    /\ modal[m].step = "select_resume"
    /\ post[p].at = "unsent" /\ \A q \in 1..(p - 1) : post[q].at # "unsent"
    /\ url \in IF modal[m].method = "url" THEN Urls ELSE {NoUrl}
    /\ modal' = [modal EXCEPT ![m].step = "processing", ![m].error = "none"]
    /\ post' = [post EXCEPT ![p] = [@ EXCEPT !.at = "validate", !.by = m, !.url = url]]
    /\ UNCHANGED <<job, faults>>

\* Mutant: the dialog may be left while a request is out.
LeavesAnytime(m) == modal[m].step # "mismatch"

(* Every way out of the dialog, and "Add another" and "Start over" in it.  *)
Leaves(m) == modal[m].step # "processing"

Reset(m) ==
    /\ Leaves(m)
    /\ modal' = [modal EXCEPT ![m] = Fresh]
    /\ UNCHANGED <<post, job, faults>>

RetryWithText(m) ==
    /\ modal[m].step = "result" /\ modal[m].method = "url"
    /\ modal[m].error = "INVALID_JOB_INPUT"
    /\ modal' = [modal EXCEPT ![m] = [Fresh EXCEPT !.method = "text", !.step = "provide_job"]]
    /\ UNCHANGED <<post, job, faults>>

\* Mutant: an unfinished job is not polled.
ToldOnce(m, p, answer) ==
    CASE answer = "created"    -> [modal[m] EXCEPT !.created = p, !.step = "result"]
      [] answer = "unfinished" -> [modal[m] EXCEPT !.created = p]
      [] answer = "mismatch"   -> [modal[m] EXCEPT !.step = "mismatch"]
      [] OTHER                 -> [modal[m] EXCEPT !.step = "result", !.error = answer]

(* What the dialog makes of an answer.                                     *)
Told(m, p, answer) ==
    CASE answer = "created"    -> [modal[m] EXCEPT !.created = p, !.step = "result"]
      [] answer = "unfinished" -> [modal[m] EXCEPT !.created = p, !.polling = TRUE]
      [] answer = "mismatch"   -> [modal[m] EXCEPT !.step = "mismatch"]
      [] OTHER                 -> [modal[m] EXCEPT !.step = "result", !.error = answer]

Receive(m, p) ==
    /\ Waiting(m, p) /\ post[p].at = "answered"
    /\ modal' = [modal EXCEPT ![m] = Told(m, p, post[p].answer)]
    /\ post' = [post EXCEPT ![p] = Unheard(p)]
    /\ UNCHANGED <<job, faults>>

(* The connection breaks, or the client's 180 seconds are over.            *)
LoseConnection(m, p) ==
    /\ Waiting(m, p)
    /\ modal' = [modal EXCEPT ![m] = Told(m, p, "UNKNOWN_ERROR")]
    /\ post' = [post EXCEPT ![p] = Abandoned(p)]
    /\ UNCHANGED <<job, faults>>

(* The tab is closed or loaded anew, or another page of the dashboard is   *)
(* shown: then the request goes on, and nobody hears its answer.           *)
LeavePage(m) ==
    /\ modal' = [modal EXCEPT ![m] = Fresh]
    /\ \/ post' = [p \in Posts |-> IF Waiting(m, p) THEN Abandoned(p) ELSE post[p]]
       \/ post' = [p \in Posts |-> IF Waiting(m, p) THEN Unheard(p) ELSE post[p]]
    /\ UNCHANGED <<job, faults>>

IsTerminal(status) == status \in {"completed", "failed", "misaligned"}

(* GET /jobs/:id every 3 seconds: only one that finds the row done changes *)
(* anything; a row that was deleted is not found.                          *)
Poll(m) ==
    LET p == modal[m].created IN
    /\ modal[m].polling
    /\ job[p].listed = "live"
    /\ IsTerminal(job[p].extraction) /\ IsTerminal(job[p].alignment)
    /\ modal' = [modal EXCEPT ![m].polling = FALSE, ![m].step = "result"]
    /\ UNCHANGED <<post, job, faults>>

(* DELETE /jobs/:id, from the list of any tab.                             *)
Delete(p) ==
    /\ job[p].listed = "live"
    /\ job' = [job EXCEPT ![p].listed = "deleted"]
    /\ UNCHANGED <<modal, post, faults>>

-----------------------------------------------------------------------------
(* The server.                                                             *)

At(p, stage) == [post[p] EXCEPT !.at = stage]

(* The handler returns; its contexts are gone.                             *)
Answers(p, answer) ==
    [post[p] EXCEPT !.at = "answered", !.answer = answer, !.cancelled = FALSE, !.late = FALSE]

Alive(p) == ~post[p].cancelled
InTime(p) == ~post[p].late

(* A statement that makes the row of p into row, its error ignored: the    *)
(* request goes on as after says, whatever became of it.                   *)
Update(p, lives, row, after) ==
    /\ \/ /\ lives
          /\ job' = [job EXCEPT ![p] = row]
          /\ post' = [post EXCEPT ![p] = after]
          /\ UNCHANGED faults
       \/ /\ ~lives
          /\ post' = [post EXCEPT ![p] = after]
          /\ UNCHANGED <<job, faults>>
       \/ /\ lives /\ faults < MaxFaults
          /\ faults' = faults + 1
          /\ post' = [post EXCEPT ![p] = [after EXCEPT !.faulty = TRUE]]
          /\ UNCHANGED job
    /\ UNCHANGED modal

Goes(p, after) ==
    /\ post' = [post EXCEPT ![p] = after]
    /\ UNCHANGED <<modal, job, faults>>

(* FindDuplicate: a request that was cancelled or whose resume has gone    *)
(* ends here; one for a text is never a duplicate.                         *)
Duplicate(p) ==
    \/ post[p].url \in Listed
    \/ \E q \in Posts : post[p].url \in Urls /\ job[q].url = post[p].url /\ job[q].listed = "live"

Validate(p) ==
    /\ post[p].at = "validate"
    /\ \/ Goes(p, Answers(p, "UNKNOWN_ERROR"))
       \/ Alive(p) /\ Duplicate(p) /\ Goes(p, Answers(p, "DUPLICATE_JOB"))
       \/ Alive(p) /\ ~Duplicate(p) /\ Goes(p, At(p, "create"))

CreateRow(p) ==
    /\ post[p].at = "create"
    /\ \/ /\ Alive(p)
          /\ job' = [job EXCEPT ![p].listed = "live", ![p].url = post[p].url]
          /\ post' = [post EXCEPT ![p] = At(p, "begin")]
          /\ UNCHANGED <<modal, faults>>
       \/ Goes(p, Answers(p, "UNKNOWN_ERROR"))

Begin(p) ==
    /\ post[p].at = "begin"
    /\ Update(p, Alive(p), [job[p] EXCEPT !.extraction = "processing"], At(p, "scrape"))

ScrapeJob(p) ==
    /\ post[p].at = "scrape"
    /\ \/ (post[p].url \in Urls => Alive(p)) /\ Goes(p, At(p, "extract"))
       \/ /\ post[p].url \in Urls
          /\ Update(p, Alive(p), [job[p] EXCEPT !.extraction = "failed"],
                    Answers(p, "EXTRACTION_FAILED"))

(* The deadline of the AI calls passes.                                    *)
Expire(p) ==
    /\ post[p].at \in AIStages /\ InTime(p)
    /\ Goes(p, [post[p] EXCEPT !.late = TRUE])

(* The AI reads the posting; it fails, is too slow by its own clock or by  *)
(* the deadline, or says that there is no posting.                         *)
RunExtraction(p) ==
    /\ post[p].at = "extract"
    /\ \/ InTime(p) /\ Goes(p, At(p, "extracted"))
       \/ \E answer \in {"EXTRACTION_FAILED", "INVALID_JOB_INPUT", "AI_TIMEOUT"} :
             Update(p, InTime(p), [job[p] EXCEPT !.extraction = "failed"], Answers(p, answer))

SaveExtraction(p) ==
    /\ post[p].at = "extracted"
    /\ Update(p, InTime(p), [job[p] EXCEPT !.extraction = "completed"], At(p, "aligning"))

BeginAlignment(p) ==
    /\ post[p].at = "aligning"
    /\ Update(p, InTime(p), [job[p] EXCEPT !.alignment = "processing"], At(p, "align"))

(* The AI tailors the resume; it fails, or finds that it does not fit.     *)
RunAlignment(p) ==
    /\ post[p].at = "align"
    /\ \/ InTime(p) /\ Goes(p, At(p, "tailored"))
       \/ InTime(p) /\ Goes(p, At(p, "misaligned"))
       \/ \E answer \in {"RESUME_MISALIGNED", "AI_TIMEOUT"} :
             Update(p, InTime(p), [job[p] EXCEPT !.alignment = "failed"], Answers(p, answer))

SaveMisalignment(p) ==
    /\ post[p].at = "misaligned"
    /\ Update(p, InTime(p), [job[p] EXCEPT !.alignment = "misaligned"], At(p, "discard"))

SoftDelete(p) ==
    /\ post[p].at = "discard"
    /\ Update(p, InTime(p), [job[p] EXCEPT !.listed = "deleted"], Answers(p, "mismatch"))

SaveAlignment(p) ==
    /\ post[p].at = "tailored"
    /\ Update(p, InTime(p), [job[p] EXCEPT !.alignment = "completed"], At(p, "pdf"))

(* There may be no PDF to make, or making or storing it fails.             *)
SavePDF(p) ==
    /\ post[p].at = "pdf"
    /\ \/ Goes(p, At(p, "fields"))
       \/ Update(p, Alive(p), [job[p] EXCEPT !.pdf = TRUE], At(p, "fields"))

SaveFields(p) ==
    /\ post[p].at = "fields"
    /\ Update(p, Alive(p), [job[p] EXCEPT !.fields = TRUE], At(p, "final"))

\* Mutant: the dialog takes a posting that was read for a job that is done.
FinishedEarly(p) == job[p].extraction = "completed"

(* The last read; when it fails, or finds the row deleted, the answer is   *)
(* the row as it was first.  The dialog tells by the statuses.             *)
Finished(p) ==
    job[p].extraction = "completed" /\ IsTerminal(job[p].alignment)

Answer(p) ==
    /\ post[p].at = "final"
    /\ \/ Alive(p) /\ job[p].listed = "live" /\ Finished(p) /\ Goes(p, Answers(p, "created"))
       \/ ~(Alive(p) /\ job[p].listed = "live" /\ Finished(p)) /\ Goes(p, Answers(p, "unfinished"))
       \/ /\ Alive(p) /\ faults < MaxFaults
          /\ faults' = faults + 1
          /\ post' = [post EXCEPT ![p] = [Answers(p, "unfinished") EXCEPT !.faulty = TRUE]]
          /\ UNCHANGED <<modal, job>>

Serve(p) ==
    \/ Validate(p) \/ CreateRow(p) \/ Begin(p) \/ ScrapeJob(p)
    \/ RunExtraction(p) \/ SaveExtraction(p)
    \/ BeginAlignment(p) \/ RunAlignment(p) \/ SaveAlignment(p)
    \/ SaveMisalignment(p) \/ SoftDelete(p)
    \/ SavePDF(p) \/ SaveFields(p) \/ Answer(p)

Next ==
    \/ \E m \in Modals :
          \/ \E method \in {"url", "text"} : ChooseMethod(m, method)
          \/ ProvideJob(m) \/ Back(m) \/ Reset(m) \/ RetryWithText(m) \/ LeavePage(m) \/ Poll(m)
          \/ \E p \in Posts :
                \/ \E url \in Urls \cup {NoUrl} : SubmitJob(m, p, url)
                \/ Receive(m, p) \/ LoseConnection(m, p)
    \/ \E p \in Posts : Delete(p) \/ Expire(p) \/ Serve(p)

Spec == Init /\ [][Next]_vars

(* Handlers go on, answers arrive, the dialog polls.                       *)
Fairness ==
    /\ \A p \in Posts : WF_vars(Serve(p))
    /\ \A m \in Modals : WF_vars(Poll(m)) /\ WF_vars(\E p \in Posts : Receive(m, p))

FairSpec == Spec /\ Fairness

-----------------------------------------------------------------------------
(* Properties.                                                             *)

ModalRec ==
    [step : FormSteps \cup {"processing", "mismatch", "result"}, method : {"url", "text"},
     created : Posts \cup {None}, error : {"none"} \cup Errors, polling : BOOLEAN]

PostRec ==
    [at : {"unsent", "answered"} \cup Stages, by : Modals \cup {None}, url : Urls \cup {NoUrl},
     cancelled : BOOLEAN, late : BOOLEAN, faulty : BOOLEAN,
     answer : {"none", "created", "unfinished", "mismatch"} \cup Errors]

JobRec ==
    [listed : {"absent", "live", "deleted"}, url : Urls \cup {NoUrl},
     extraction : {"pending", "processing", "completed", "failed"},
     alignment : {"pending", "processing", "completed", "failed", "misaligned"},
     pdf : BOOLEAN, fields : BOOLEAN]

TypeOK ==
    /\ modal \in [Modals -> ModalRec]
    /\ post \in [Posts -> PostRec]
    /\ job \in [Posts -> JobRec]
    /\ faults \in 0..MaxFaults

(* An answer never takes over a form that the user fills in: the dialog    *)
(* cannot be left while a request is out, so the answer that comes late    *)
(* finds the step that waits for it or no dialog at all.                   *)
FormNotTakenOver ==
    [][\A m \in Modals : modal[m].step \in FormSteps =>
          modal'[m].step \notin {"result", "mismatch"}]_vars

Complete(p) ==
    job[p].extraction = "completed" /\ job[p].alignment = "completed" /\ job[p].fields

(* When the dialog says that the job was created, the job is complete and  *)
(* named, whatever deadline passed or connection broke on the way: unless  *)
(* a statement failed of its own.                                          *)
SavedWhenTold ==
    \A m \in Modals, p \in Posts :
            /\ modal[m].step = "result" /\ modal[m].error = "none" /\ modal[m].created = p
            /\ ~post[p].faulty
            => Complete(p)

(* A row that no poll will ever find done: it was deleted, or its request  *)
(* ended without its last status.                                          *)
Unpollable(p) ==
    /\ post[p].at = "answered"
    /\ \/ job[p].listed = "deleted"
       \/ ~(IsTerminal(job[p].extraction) /\ IsTerminal(job[p].alignment))

(* The dialog stops processing, whatever fails, is lost or runs late, or   *)
(* else polls a row that cannot be found done.                             *)
ProcessingEnds ==
    \A m \in Modals :
        modal[m].step = "processing" ~>
            \/ modal[m].step # "processing"
            \/ modal[m].created \in Posts /\ Unpollable(modal[m].created)
=============================================================================
