-------------------------- MODULE Dashboard_proofs --------------------------
(* Two pages of the dashboard, for any instance of them.  The job dialog: no *)
(* answer takes over a form, and a job that is said to be created is         *)
(* complete.  A dialog waits for one request at most and shows nothing else  *)
(* meanwhile; a request that is not faulty writes its row in the order of    *)
(* its stages, and a deadline that cuts a write short keeps it from the      *)
(* stage that would hide the gap.  The review page: a hidden lead is shown   *)
(* again or left its tab, a list read by offset to its end misses no lead,   *)
(* and the queue follows the leads.                                          *)
EXTENDS JobPipeline, LeadReview, FiniteSetTheorems, WellFoundedInduction, TLAPS

-----------------------------------------------------------------------------
(* The job dialog.                                                           *)


(* Stages that are reached only after the posting's extraction was due.      *)
Aligns == {"aligning", "align"}
Aligned == {"tailored", "misaligned", "discard", "pdf", "fields", "final"}

CompleteRow(j) == j.extraction = "completed" /\ j.alignment = "completed" /\ j.fields

NeverDone(j) ==
    j.listed # "live" \/ ~IsTerminal(j.extraction) \/ ~IsTerminal(j.alignment)

(* What a request r has left in its row j, unless a statement failed.        *)
Serves(r, j) ==
    /\ r.at \in Aligns /\ ~r.faulty /\ ~r.late => j.extraction = "completed"
    /\ r.at \in Aligned /\ ~r.faulty => j.extraction = "completed"
    /\ r.at \notin {"discard", "answered"} => j.alignment \in {"pending", "processing", "completed"}
    /\ r.at = "final" /\ ~r.faulty /\ ~r.cancelled => j.fields
    /\ r.at = "answered" /\ ~r.faulty /\ r.answer = "created" => CompleteRow(j)
    /\ r.at = "answered" /\ ~r.faulty /\ r.answer = "unfinished" /\ r.by # None => NeverDone(j)
    /\ r.cancelled => r.by = None /\ r.at # "unsent"

(* What a dialog shows of the job that was created.                          *)
Shown(m) ==
    /\ modal[m].step \in FormSteps \cup {"mismatch"} => modal[m].created = None /\ ~modal[m].polling
    /\ modal[m].polling => modal[m].step = "processing" /\ modal[m].created \in Posts
    /\ \A p \in Posts : modal[m].created = p =>
          /\ post[p].at = "answered"
          /\ modal[m].polling => post[p].faulty \/ NeverDone(job[p])
          /\ modal[m].step = "result" => post[p].faulty \/ CompleteRow(job[p])

(* What a dialog is while it waits for a request.                            *)
Awaited(m, p) ==
    Waiting(m, p) =>
        /\ modal[m].step = "processing" /\ modal[m].created = None /\ ~modal[m].polling
        /\ post[p].at # "unsent"
        /\ \A q \in Posts : Waiting(m, q) => q = p

IInv ==
    /\ TypeOK
    /\ \A p \in Posts : Serves(post[p], job[p])
    /\ \A m \in Modals : Shown(m)
    /\ \A m \in Modals, p \in Posts : Awaited(m, p)

-----------------------------------------------------------------------------
(* The steps of the server.                                                  *)

(* What such a step leaves alone, and what it does to its own request.       *)
ServerStep(p) ==
    /\ post[p].at \notin {"unsent", "answered"}
    /\ TypeOK'
    /\ modal' = modal
    /\ \A q \in Posts \ {p} : post'[q] = post[q] /\ job'[q] = job[q]
    /\ post'[p].by = post[p].by /\ post'[p].at # "unsent"
    /\ Serves(post'[p], job'[p])

SameBut(r, old, at) ==
    /\ r \in PostRec
    /\ r.at = at /\ r.by = old.by /\ r.faulty = old.faulty /\ r.url = old.url

LEMMA AtIs ==
    ASSUME TypeOK, NEW p \in Posts, NEW stage \in Stages
    PROVE  /\ SameBut(At(p, stage), post[p], stage)
           /\ At(p, stage).cancelled = post[p].cancelled /\ At(p, stage).late = post[p].late
  BY DEF TypeOK, PostRec, At, SameBut

LEMMA AnswerIs ==
    ASSUME TypeOK, NEW p \in Posts,
           NEW answer \in {"none", "created", "unfinished", "mismatch"} \cup Errors
    PROVE  /\ SameBut(Answers(p, answer), post[p], "answered")
           /\ Answers(p, answer).answer = answer
           /\ ~Answers(p, answer).cancelled /\ ~Answers(p, answer).late
  BY DEF TypeOK, PostRec, Answers, SameBut

LEMMA FaultyIs ==
    ASSUME NEW r \in PostRec
    PROVE  LET f == [r EXCEPT !.faulty = TRUE] IN
           /\ f \in PostRec /\ f.faulty
           /\ f.at = r.at /\ f.by = r.by /\ f.cancelled = r.cancelled
  BY DEF PostRec

(* A request whose statement failed owes its row little.                     *)
LEMMA FaultyServes ==
    ASSUME NEW r \in PostRec, NEW j,
           r.at \notin {"discard", "answered"} =>
               j.alignment \in {"pending", "processing", "completed"},
           r.cancelled => r.by = None /\ r.at # "unsent"
    PROVE  Serves([r EXCEPT !.faulty = TRUE], j)
  BY FaultyIs DEF Serves

(* The three outcomes of a statement whose error is ignored.                 *)
LEMMA UpdateServes ==
    ASSUME IInv, NEW p \in Posts, post[p].at \notin {"unsent", "answered"},
           NEW lives \in BOOLEAN, NEW row \in JobRec, NEW after,
           NEW at \in Stages \cup {"answered"}, SameBut(after, post[p], at),
           Update(p, lives, row, after),
           lives => Serves(after, row),
           ~lives => Serves(after, job[p]),
           Serves([after EXCEPT !.faulty = TRUE], job[p])
    PROVE  ServerStep(p)
  <1>1. after \in PostRec /\ after.by = post[p].by /\ after.at # "unsent"
    BY DEF SameBut, Stages, AIStages
  <1>2. [after EXCEPT !.faulty = TRUE] \in PostRec
        /\ [after EXCEPT !.faulty = TRUE].by = post[p].by
        /\ [after EXCEPT !.faulty = TRUE].at # "unsent"
    BY <1>1, FaultyIs
  <1>3. faults' \in 0..MaxFaults /\ modal' = modal
    BY PipelineAssumption DEF TypeOK, Update, IInv
  <1>4. CASE lives /\ job' = [job EXCEPT ![p] = row] /\ post' = [post EXCEPT ![p] = after]
    BY <1>1, <1>3, <1>4 DEF ServerStep, TypeOK, IInv
  <1>5. CASE ~lives /\ job' = job /\ post' = [post EXCEPT ![p] = after]
    BY <1>1, <1>3, <1>5 DEF ServerStep, TypeOK, IInv
  <1>6. CASE job' = job /\ post' = [post EXCEPT ![p] = [after EXCEPT !.faulty = TRUE]]
    <2> DEFINE f == [after EXCEPT !.faulty = TRUE]
    <2>1. f \in PostRec /\ f.by = post[p].by /\ f.at # "unsent" /\ Serves(f, job[p])
      BY <1>2
    <2>2. job' = job /\ post' = [post EXCEPT ![p] = f]
      BY <1>6
    <2> HIDE DEF f
    <2> QED
      BY <1>3, <2>1, <2>2 DEF ServerStep, TypeOK, IInv
  <1> QED
    BY <1>4, <1>5, <1>6 DEF Update

LEMMA GoesServes ==
    ASSUME IInv, NEW p \in Posts, post[p].at \notin {"unsent", "answered"}, NEW after,
           NEW at \in Stages \cup {"answered"}, SameBut(after, post[p], at),
           Goes(p, after), Serves(after, job[p])
    PROVE  ServerStep(p)
  BY DEF Goes, SameBut, ServerStep, TypeOK, IInv, Stages, AIStages

LEMMA GoesAt ==
    ASSUME IInv, NEW p \in Posts, post[p].at \notin {"unsent", "answered"},
           NEW stage \in Stages, Goes(p, At(p, stage)), Serves(At(p, stage), job[p])
    PROVE  ServerStep(p)
  BY AtIs, GoesServes DEF IInv

LEMMA GoesAnswer ==
    ASSUME IInv, NEW p \in Posts, post[p].at \notin {"unsent", "answered"},
           NEW answer \in {"none", "created", "unfinished", "mismatch"} \cup Errors,
           Goes(p, Answers(p, answer)), Serves(Answers(p, answer), job[p])
    PROVE  ServerStep(p)
  BY AnswerIs, GoesServes DEF IInv

LEMMA UpdateAt ==
    ASSUME IInv, NEW p \in Posts, post[p].at \notin {"unsent", "discard", "answered"},
           NEW lives \in BOOLEAN, NEW row \in JobRec, NEW stage \in Stages,
           Update(p, lives, row, At(p, stage)),
           lives => Serves(At(p, stage), row),
           ~lives => Serves(At(p, stage), job[p])
    PROVE  ServerStep(p)
  <1> DEFINE after == At(p, stage)
  <1>1. SameBut(after, post[p], stage) /\ after.cancelled = post[p].cancelled
    BY AtIs DEF IInv
  <1>2. Serves(post[p], job[p])
    BY DEF IInv
  <1>3. Serves([after EXCEPT !.faulty = TRUE], job[p])
    <2>1. after \in PostRec /\ (after.cancelled => after.by = None /\ after.at # "unsent")
      BY <1>1, <1>2 DEF SameBut, Serves, Stages, AIStages
    <2>2. job[p].alignment \in {"pending", "processing", "completed"}
      BY <1>2 DEF Serves
    <2> HIDE DEF after
    <2> QED
      BY <2>1, <2>2, FaultyServes
  <1>4. stage \in Stages \cup {"answered"}
    OBVIOUS
  <1> QED
    BY <1>1, <1>3, <1>4, UpdateServes

LEMMA UpdateAnswer ==
    ASSUME IInv, NEW p \in Posts, post[p].at \notin {"unsent", "answered"},
           NEW lives \in BOOLEAN, NEW row \in JobRec,
           NEW answer \in {"mismatch"} \cup Errors,
           Update(p, lives, row, Answers(p, answer))
    PROVE  ServerStep(p)
  <1> DEFINE after == Answers(p, answer)
  <1>1. SameBut(after, post[p], "answered") /\ after.answer = answer /\ ~after.cancelled
    BY AnswerIs DEF IInv
  <1>2. \A j : Serves(after, j)
    BY <1>1 DEF Serves, SameBut, Aligns, Aligned, Errors
  <1>3. Serves([after EXCEPT !.faulty = TRUE], job[p])
    <2>1. after \in PostRec /\ after.at = "answered" /\ ~after.cancelled
      BY <1>1 DEF SameBut
    <2> HIDE DEF after
    <2> QED
      BY <2>1, FaultyServes
  <1> QED
    BY <1>1, <1>2, <1>3, UpdateServes

(* The facts that the lemmas on the stages start from.                       *)
LEMMA OwnRow ==
    ASSUME IInv, NEW p \in Posts
    PROVE  /\ Serves(post[p], job[p]) /\ job[p] \in JobRec /\ post[p] \in PostRec
           /\ Alive(p) \in BOOLEAN /\ InTime(p) \in BOOLEAN
           /\ (Alive(p) <=> ~post[p].cancelled) /\ (InTime(p) <=> ~post[p].late)
  BY DEF IInv, TypeOK, PostRec, Alive, InTime

(* A request that ends with an error owes its row nothing.                   *)
LEMMA ErrorServes ==
    ASSUME IInv, NEW p \in Posts, NEW answer \in Errors, NEW j
    PROVE  Serves(Answers(p, answer), j)
  BY AnswerIs DEF IInv, Serves, SameBut, Aligns, Aligned, Errors

LEMMA ValidateServes ==
    ASSUME IInv, NEW p \in Posts, Validate(p)
    PROVE  ServerStep(p)
  <1>1. post[p].at = "validate" /\ "create" \in Stages
    BY DEF Validate, Stages
  <1>2. CASE Goes(p, Answers(p, "UNKNOWN_ERROR"))
    BY <1>1, <1>2, ErrorServes, GoesAnswer DEF Errors
  <1>3. CASE Goes(p, Answers(p, "DUPLICATE_JOB"))
    BY <1>1, <1>3, ErrorServes, GoesAnswer DEF Errors
  <1>4. CASE Goes(p, At(p, "create"))
    <2>1. Serves(At(p, "create"), job[p])
      BY <1>1, AtIs, OwnRow DEF Serves, SameBut, Aligns, Aligned, IInv
    <2> QED
      BY <1>1, <1>4, <2>1, GoesAt
  <1> QED
    BY <1>2, <1>3, <1>4 DEF Validate

LEMMA CreateRowServes ==
    ASSUME IInv, NEW p \in Posts, CreateRow(p)
    PROVE  ServerStep(p)
  <1>1. post[p].at = "create" /\ "begin" \in Stages
    BY DEF CreateRow, Stages
  <1>2. CASE Goes(p, Answers(p, "UNKNOWN_ERROR"))
    BY <1>1, <1>2, ErrorServes, GoesAnswer DEF Errors
  <1>3. CASE /\ job' = [job EXCEPT ![p].listed = "live", ![p].url = post[p].url]
             /\ post' = [post EXCEPT ![p] = At(p, "begin")]
             /\ UNCHANGED <<modal, faults>>
    <2> DEFINE row == [job[p] EXCEPT !.listed = "live", !.url = post[p].url]
    <2>1. row \in JobRec /\ row.alignment = job[p].alignment
      BY OwnRow DEF JobRec, PostRec
    <2>2. job' = [job EXCEPT ![p] = row]
      BY <1>3 DEF IInv, TypeOK, JobRec
    <2>3. Serves(At(p, "begin"), row)
      BY <1>1, <2>1, AtIs, OwnRow DEF Serves, SameBut, Aligns, Aligned, IInv
    <2>4. At(p, "begin") \in PostRec /\ At(p, "begin").by = post[p].by /\ At(p, "begin").at = "begin"
      BY <1>1, AtIs DEF SameBut, IInv
    <2> HIDE DEF row
    <2> QED
      BY <1>1, <1>3, <2>1, <2>2, <2>3, <2>4 DEF ServerStep, TypeOK, IInv
  <1> QED
    BY <1>2, <1>3 DEF CreateRow

LEMMA BeginServes ==
    ASSUME IInv, NEW p \in Posts, Begin(p)
    PROVE  ServerStep(p)
  <1> DEFINE row == [job[p] EXCEPT !.extraction = "processing"]
  <1>1. post[p].at = "begin" /\ "scrape" \in Stages
    BY DEF Begin, Stages
  <1>2. row \in JobRec /\ row.alignment = job[p].alignment
    BY OwnRow DEF JobRec
  <1>3. \A j : j.alignment = job[p].alignment => Serves(At(p, "scrape"), j)
    BY <1>1, AtIs, OwnRow DEF Serves, SameBut, Aligns, Aligned, IInv
  <1>4. Update(p, Alive(p), row, At(p, "scrape"))
    BY DEF Begin
  <1> HIDE DEF row
  <1> QED
    BY <1>1, <1>2, <1>3, <1>4, OwnRow, UpdateAt

LEMMA ScrapeServes ==
    ASSUME IInv, NEW p \in Posts, ScrapeJob(p)
    PROVE  ServerStep(p)
  <1> DEFINE row == [job[p] EXCEPT !.extraction = "failed"]
  <1>1. post[p].at = "scrape" /\ "extract" \in Stages
    BY DEF ScrapeJob, Stages, AIStages
  <1>2. CASE Goes(p, At(p, "extract"))
    <2>1. Serves(At(p, "extract"), job[p])
      BY <1>1, AtIs, OwnRow DEF Serves, SameBut, Aligns, Aligned, IInv
    <2> QED
      BY <1>1, <1>2, <2>1, GoesAt
  <1>3. CASE Update(p, Alive(p), row, Answers(p, "EXTRACTION_FAILED"))
    <2>1. row \in JobRec
      BY OwnRow DEF JobRec
    <2> HIDE DEF row
    <2> QED
      BY <1>1, <1>3, <2>1, OwnRow, UpdateAnswer DEF Errors
  <1> QED
    BY <1>2, <1>3 DEF ScrapeJob

LEMMA ExpireServes ==
    ASSUME IInv, NEW p \in Posts, Expire(p)
    PROVE  ServerStep(p)
  <1> DEFINE after == [post[p] EXCEPT !.late = TRUE]
  <1>1. post[p].at \in AIStages
    BY DEF Expire
  <1>2. SameBut(after, post[p], post[p].at) /\ after.cancelled = post[p].cancelled /\ after.late
        /\ post[p].at \in Stages /\ post[p].at \notin {"unsent", "answered"}
    BY <1>1, OwnRow DEF SameBut, PostRec, Stages, AIStages
  <1>3. Serves(after, job[p])
    BY <1>2, OwnRow DEF Serves, SameBut
  <1>4. Goes(p, after)
    BY DEF Expire
  <1> HIDE DEF after
  <1> QED
    BY <1>2, <1>3, <1>4, GoesServes

LEMMA RunExtractionServes ==
    ASSUME IInv, NEW p \in Posts, RunExtraction(p)
    PROVE  ServerStep(p)
  <1> DEFINE row == [job[p] EXCEPT !.extraction = "failed"]
  <1>1. post[p].at = "extract" /\ "extracted" \in Stages
    BY DEF RunExtraction, Stages, AIStages
  <1>2. CASE Goes(p, At(p, "extracted"))
    <2>1. Serves(At(p, "extracted"), job[p])
      BY <1>1, AtIs, OwnRow DEF Serves, SameBut, Aligns, Aligned, IInv
    <2> QED
      BY <1>1, <1>2, <2>1, GoesAt
  <1>3. ASSUME NEW answer \in Errors, Update(p, InTime(p), row, Answers(p, answer))
        PROVE  ServerStep(p)
    <2>1. row \in JobRec
      BY OwnRow DEF JobRec
    <2> HIDE DEF row
    <2> QED
      BY <1>1, <1>3, <2>1, OwnRow, UpdateAnswer
  <1>4. {"EXTRACTION_FAILED", "INVALID_JOB_INPUT", "AI_TIMEOUT"} \subseteq Errors
    BY DEF Errors
  <1>5. \/ Goes(p, At(p, "extracted"))
        \/ \E answer \in Errors : Update(p, InTime(p), row, Answers(p, answer))
    BY <1>4 DEF RunExtraction
  <1> HIDE DEF row
  <1> QED
    BY <1>2, <1>3, <1>5

LEMMA RunAlignmentServes ==
    ASSUME IInv, NEW p \in Posts, RunAlignment(p)
    PROVE  ServerStep(p)
  <1> DEFINE row == [job[p] EXCEPT !.alignment = "failed"]
  <1>1. post[p].at = "align" /\ {"tailored", "misaligned"} \subseteq Stages
    BY DEF RunAlignment, Stages, AIStages
  <1>2. ASSUME NEW stage \in {"tailored", "misaligned"}, InTime(p), Goes(p, At(p, stage))
        PROVE  ServerStep(p)
    <2>1. Serves(At(p, stage), job[p])
      BY <1>1, <1>2, AtIs, OwnRow DEF Serves, SameBut, Aligns, Aligned, IInv
    <2> QED
      BY <1>1, <1>2, <2>1, GoesAt
  <1>3. ASSUME NEW answer \in {"RESUME_MISALIGNED", "AI_TIMEOUT"},
               Update(p, InTime(p), row, Answers(p, answer))
        PROVE  ServerStep(p)
    <2>1. row \in JobRec /\ answer \in Errors
      BY OwnRow DEF JobRec, Errors
    <2> HIDE DEF row
    <2> QED
      BY <1>1, <1>3, <2>1, OwnRow, UpdateAnswer
  <1> QED
    BY <1>2, <1>3 DEF RunAlignment

LEMMA SoftDeleteServes ==
    ASSUME IInv, NEW p \in Posts, SoftDelete(p)
    PROVE  ServerStep(p)
  <1> DEFINE row == [job[p] EXCEPT !.listed = "deleted"]
  <1>1. post[p].at = "discard" /\ Update(p, InTime(p), row, Answers(p, "mismatch"))
    BY DEF SoftDelete
  <1>2. row \in JobRec
    BY OwnRow DEF JobRec
  <1> HIDE DEF row
  <1> QED
    BY <1>1, <1>2, OwnRow, UpdateAnswer

LEMMA SaveExtractionServes ==
    ASSUME IInv, NEW p \in Posts, SaveExtraction(p)
    PROVE  ServerStep(p)
  <1> DEFINE row == [job[p] EXCEPT !.extraction = "completed"]
  <1>1. post[p].at = "extracted" /\ "aligning" \in Stages
    BY DEF SaveExtraction, Stages, AIStages
  <1>2. /\ row \in JobRec /\ row.extraction = "completed"
        /\ \A f \in {"listed", "extraction", "alignment", "fields"} \ {"extraction"} : row[f] = job[p][f]
    BY OwnRow DEF JobRec
  <1>3. InTime(p) => Serves(At(p, "aligning"), row)
    BY <1>1, <1>2, AtIs, OwnRow DEF Serves, SameBut, Aligns, Aligned, IInv
  <1>4. ~InTime(p) => Serves(At(p, "aligning"), job[p])
    BY <1>1, AtIs, OwnRow DEF Serves, SameBut, Aligns, Aligned, IInv
  <1>5. Update(p, InTime(p), row, At(p, "aligning"))
    BY DEF SaveExtraction
  <1> HIDE DEF row
  <1> QED
    BY <1>1, <1>2, <1>3, <1>4, <1>5, OwnRow, UpdateAt

LEMMA BeginAlignmentServes ==
    ASSUME IInv, NEW p \in Posts, BeginAlignment(p)
    PROVE  ServerStep(p)
  <1> DEFINE row == [job[p] EXCEPT !.alignment = "processing"]
  <1>1. post[p].at = "aligning" /\ "align" \in Stages
    BY DEF BeginAlignment, Stages, AIStages
  <1>2. /\ row \in JobRec /\ row.alignment = "processing"
        /\ \A f \in {"listed", "extraction", "alignment", "fields"} \ {"alignment"} : row[f] = job[p][f]
    BY OwnRow DEF JobRec
  <1>3. InTime(p) => Serves(At(p, "align"), row)
    BY <1>1, <1>2, AtIs, OwnRow DEF Serves, SameBut, Aligns, Aligned, IInv
  <1>4. ~InTime(p) => Serves(At(p, "align"), job[p])
    BY <1>1, AtIs, OwnRow DEF Serves, SameBut, Aligns, Aligned, IInv
  <1>5. Update(p, InTime(p), row, At(p, "align"))
    BY DEF BeginAlignment
  <1> HIDE DEF row
  <1> QED
    BY <1>1, <1>2, <1>3, <1>4, <1>5, OwnRow, UpdateAt

LEMMA SaveMisalignmentServes ==
    ASSUME IInv, NEW p \in Posts, SaveMisalignment(p)
    PROVE  ServerStep(p)
  <1> DEFINE row == [job[p] EXCEPT !.alignment = "misaligned"]
  <1>1. post[p].at = "misaligned" /\ "discard" \in Stages
    BY DEF SaveMisalignment, Stages, AIStages
  <1>2. /\ row \in JobRec /\ row.alignment = "misaligned"
        /\ \A f \in {"listed", "extraction", "alignment", "fields"} \ {"alignment"} : row[f] = job[p][f]
    BY OwnRow DEF JobRec
  <1>3. InTime(p) => Serves(At(p, "discard"), row)
    BY <1>1, <1>2, AtIs, OwnRow DEF Serves, SameBut, Aligns, Aligned, IInv
  <1>4. ~InTime(p) => Serves(At(p, "discard"), job[p])
    BY <1>1, AtIs, OwnRow DEF Serves, SameBut, Aligns, Aligned, IInv
  <1>5. Update(p, InTime(p), row, At(p, "discard"))
    BY DEF SaveMisalignment
  <1> HIDE DEF row
  <1> QED
    BY <1>1, <1>2, <1>3, <1>4, <1>5, OwnRow, UpdateAt

LEMMA SaveAlignmentServes ==
    ASSUME IInv, NEW p \in Posts, SaveAlignment(p)
    PROVE  ServerStep(p)
  <1> DEFINE row == [job[p] EXCEPT !.alignment = "completed"]
  <1>1. post[p].at = "tailored" /\ "pdf" \in Stages
    BY DEF SaveAlignment, Stages, AIStages
  <1>2. /\ row \in JobRec /\ row.alignment = "completed"
        /\ \A f \in {"listed", "extraction", "alignment", "fields"} \ {"alignment"} : row[f] = job[p][f]
    BY OwnRow DEF JobRec
  <1>3. InTime(p) => Serves(At(p, "pdf"), row)
    BY <1>1, <1>2, AtIs, OwnRow DEF Serves, SameBut, Aligns, Aligned, IInv
  <1>4. ~InTime(p) => Serves(At(p, "pdf"), job[p])
    BY <1>1, AtIs, OwnRow DEF Serves, SameBut, Aligns, Aligned, IInv
  <1>5. Update(p, InTime(p), row, At(p, "pdf"))
    BY DEF SaveAlignment
  <1> HIDE DEF row
  <1> QED
    BY <1>1, <1>2, <1>3, <1>4, <1>5, OwnRow, UpdateAt

LEMMA SaveFieldsServes ==
    ASSUME IInv, NEW p \in Posts, SaveFields(p)
    PROVE  ServerStep(p)
  <1> DEFINE row == [job[p] EXCEPT !.fields = TRUE]
  <1>1. post[p].at = "fields" /\ "final" \in Stages
    BY DEF SaveFields, Stages, AIStages
  <1>2. /\ row \in JobRec /\ row.fields = TRUE
        /\ \A f \in {"listed", "extraction", "alignment", "fields"} \ {"fields"} : row[f] = job[p][f]
    BY OwnRow DEF JobRec
  <1>3. Alive(p) => Serves(At(p, "final"), row)
    BY <1>1, <1>2, AtIs, OwnRow DEF Serves, SameBut, Aligns, Aligned, IInv
  <1>4. ~Alive(p) => Serves(At(p, "final"), job[p])
    BY <1>1, AtIs, OwnRow DEF Serves, SameBut, Aligns, Aligned, IInv
  <1>5. Update(p, Alive(p), row, At(p, "final"))
    BY DEF SaveFields
  <1> HIDE DEF row
  <1> QED
    BY <1>1, <1>2, <1>3, <1>4, <1>5, OwnRow, UpdateAt

LEMMA SavePDFServes ==
    ASSUME IInv, NEW p \in Posts, SavePDF(p)
    PROVE  ServerStep(p)
  <1> DEFINE row == [job[p] EXCEPT !.pdf = TRUE]
  <1>1. post[p].at = "pdf" /\ "fields" \in Stages
    BY DEF SavePDF, Stages
  <1>2. row \in JobRec /\ row.extraction = job[p].extraction /\ row.alignment = job[p].alignment
    BY OwnRow DEF JobRec
  <1>3. \A j : j.extraction = job[p].extraction /\ j.alignment = job[p].alignment
               => Serves(At(p, "fields"), j)
    BY <1>1, AtIs, OwnRow DEF Serves, SameBut, Aligns, Aligned, IInv
  <1>4. CASE Goes(p, At(p, "fields"))
    BY <1>1, <1>3, <1>4, GoesAt
  <1>5. CASE Update(p, Alive(p), row, At(p, "fields"))
    <2> HIDE DEF row
    <2> QED
      BY <1>1, <1>2, <1>3, <1>5, OwnRow, UpdateAt
  <1> QED
    BY <1>4, <1>5 DEF SavePDF

(* The last read: "created" is said of a complete row only, and a row said   *)
(* to be unfinished stays so, for its request writes it no more.             *)
LEMMA AnswerServes ==
    ASSUME IInv, NEW p \in Posts, Answer(p)
    PROVE  ServerStep(p)
  <1>1. post[p].at = "final"
    BY DEF Answer
  <1>2. CASE Alive(p) /\ Finished(p) /\ Goes(p, Answers(p, "created"))
    <2>1. Serves(Answers(p, "created"), job[p])
      BY <1>1, <1>2, AnswerIs, OwnRow
      DEF Serves, SameBut, Aligns, Aligned, IInv, Finished, IsTerminal, CompleteRow
    <2> QED
      BY <1>1, <1>2, <2>1, GoesAnswer
  <1>3. CASE ~(Alive(p) /\ job[p].listed = "live" /\ Finished(p)) /\ Goes(p, Answers(p, "unfinished"))
    <2>1. Serves(Answers(p, "unfinished"), job[p])
      BY <1>1, <1>3, AnswerIs, OwnRow
      DEF Serves, SameBut, Aligns, Aligned, IInv, Finished, IsTerminal, NeverDone
    <2> QED
      BY <1>1, <1>3, <2>1, GoesAnswer
  <1>4. CASE /\ faults < MaxFaults /\ faults' = faults + 1
             /\ post' = [post EXCEPT ![p] = [Answers(p, "unfinished") EXCEPT !.faulty = TRUE]]
             /\ UNCHANGED <<modal, job>>
    <2> DEFINE after == Answers(p, "unfinished")
               f == [after EXCEPT !.faulty = TRUE]
    <2>1. after \in PostRec /\ after.at = "answered" /\ after.by = post[p].by /\ ~after.cancelled
      BY AnswerIs DEF SameBut, IInv
    <2>2. f \in PostRec /\ f.at = "answered" /\ f.by = post[p].by /\ Serves(f, job[p])
      <3> HIDE DEF after
      <3> QED
        BY <2>1, FaultyIs, FaultyServes
    <2>3. post' = [post EXCEPT ![p] = f]
      BY <1>4
    <2> HIDE DEF f
    <2>4. faults' \in 0..MaxFaults
      BY <1>4, PipelineAssumption DEF TypeOK, IInv
    <2>5. TypeOK'
      BY <1>4, <2>2, <2>3, <2>4 DEF TypeOK, IInv
    <2> QED
      BY <1>1, <1>4, <2>2, <2>3, <2>5 DEF ServerStep, TypeOK, IInv
  <1> QED
    BY <1>2, <1>3, <1>4 DEF Answer

LEMMA ServeIsServerStep ==
    ASSUME IInv, NEW p \in Posts, Serve(p) \/ Expire(p)
    PROVE  ServerStep(p)
  BY ValidateServes, CreateRowServes, BeginServes, ScrapeServes, RunExtractionServes,
     SaveExtractionServes, BeginAlignmentServes, RunAlignmentServes, SaveAlignmentServes,
     SaveMisalignmentServes, SoftDeleteServes, SavePDFServes, SaveFieldsServes, AnswerServes,
     ExpireServes DEF Serve

(* What a step of the server leaves of the dialogs: they show rows whose     *)
(* requests are over.                                                        *)
LEMMA ServerStepPreserves ==
    ASSUME IInv, NEW p \in Posts, ServerStep(p)
    PROVE  IInv'
  <1>1. \A q \in Posts : Serves(post'[q], job'[q])
    BY DEF IInv, ServerStep
  <1>2. ASSUME NEW m \in Modals
        PROVE  Shown(m)'
    <2>1. \A q \in Posts : modal[m].created = q =>
              post'[q] = post[q] /\ job'[q] = job[q]
      BY DEF IInv, Shown, ServerStep
    <2> QED
      BY <2>1 DEF IInv, Shown, ServerStep
  <1>3. ASSUME NEW m \in Modals, NEW q \in Posts
        PROVE  Awaited(m, q)'
    <2>1. \A x \in Posts : post'[x].by = post[x].by /\ (post[x].at # "unsent" => post'[x].at # "unsent")
      BY DEF ServerStep
    <2>2. Awaited(m, q) /\ modal' = modal
      BY DEF IInv, ServerStep
    <2> QED
      BY <2>1, <2>2 DEF Awaited, Waiting
  <1> QED
    BY <1>1, <1>2, <1>3 DEF IInv, ServerStep

-----------------------------------------------------------------------------
(* The steps of the dialogs.                                                 *)

(* A dialog m becomes d while the requests and rows stay as they are.        *)
LEMMA DialogStepPreserves ==
    ASSUME IInv, NEW m \in Modals, NEW d \in ModalRec,
           modal' = [modal EXCEPT ![m] = d], UNCHANGED <<post, job, faults>>,
           Shown(m)', \A p \in Posts : ~Waiting(m, p)
    PROVE  IInv'
  <1>1. TypeOK'
    BY DEF IInv, TypeOK
  <1>2. \A n \in Modals \ {m} : modal'[n] = modal[n]
    BY DEF IInv, TypeOK
  <1>3. \A n \in Modals : Shown(n)'
    BY <1>2 DEF IInv, Shown
  <1>4. \A n \in Modals, p \in Posts : Awaited(n, p)'
    BY <1>2 DEF IInv, Awaited, Waiting
  <1> QED
    BY <1>1, <1>3, <1>4 DEF IInv

(* m goes to the form step of d.                                             *)
Forms(m, d) ==
    /\ d \in ModalRec /\ modal' = [modal EXCEPT ![m] = d]
    /\ d.step \in FormSteps /\ d.created = None /\ ~d.polling

LEMMA FormsPreserves ==
    ASSUME IInv, NEW m \in Modals, NEW d, Forms(m, d),
           modal[m].step # "processing", UNCHANGED <<post, job, faults>>
    PROVE  IInv' /\ modal'[m].step \in FormSteps
  <1>1. \A p \in Posts : ~Waiting(m, p)
    BY DEF IInv, Awaited
  <1>2. modal'[m] = d
    BY DEF IInv, TypeOK, Forms
  <1>3. Shown(m)'
    BY <1>2, PipelineAssumption DEF Shown, FormSteps, Forms
  <1> QED
    BY <1>1, <1>2, <1>3, DialogStepPreserves DEF Forms

LEMMA FormStepPreserves ==
    ASSUME IInv, NEW m \in Modals,
           \/ \E method \in {"url", "text"} : ChooseMethod(m, method)
           \/ ProvideJob(m) \/ Back(m) \/ Reset(m) \/ RetryWithText(m)
    PROVE  IInv' /\ modal'[m].step \in FormSteps
  <1>1. modal[m] \in ModalRec /\ modal \in [Modals -> ModalRec]
    BY DEF IInv, TypeOK
  <1>2. modal[m].step # "processing" /\ UNCHANGED <<post, job, faults>>
    BY DEF ChooseMethod, ProvideJob, Back, Reset, RetryWithText, Leaves
  <1>3. modal[m].step \in FormSteps => modal[m].created = None /\ ~modal[m].polling
    BY DEF IInv, Shown
  <1>4. ASSUME NEW method \in {"url", "text"}, ChooseMethod(m, method)
        PROVE  \E d : Forms(m, d)
    <2> DEFINE d == [modal[m] EXCEPT !.step = "provide_job", !.method = method]
    <2>1. d \in ModalRec /\ d.step = "provide_job"
          /\ d.created = modal[m].created /\ d.polling = modal[m].polling
      BY <1>1 DEF ModalRec, FormSteps
    <2>2. modal' = [modal EXCEPT ![m] = d] /\ modal[m].step \in FormSteps
      BY <1>1, <1>4 DEF ChooseMethod, ModalRec, FormSteps
    <2> HIDE DEF d
    <2> QED
      BY <1>3, <2>1, <2>2 DEF Forms, FormSteps
  <1>5. ASSUME NEW step \in FormSteps, modal[m].step \in FormSteps,
               modal' = [modal EXCEPT ![m].step = step]
        PROVE  \E d : Forms(m, d)
    <2> DEFINE d == [modal[m] EXCEPT !.step = step]
    <2>1. d \in ModalRec /\ d.step = step
          /\ d.created = modal[m].created /\ d.polling = modal[m].polling
      BY <1>1 DEF ModalRec, FormSteps
    <2>2. modal' = [modal EXCEPT ![m] = d]
      BY <1>1, <1>5 DEF ModalRec
    <2> HIDE DEF d
    <2> QED
      BY <1>3, <1>5, <2>1, <2>2 DEF Forms
  <1>6. CASE ProvideJob(m) \/ Back(m)
    BY <1>2, <1>5, <1>6, FormsPreserves DEF ProvideJob, Back, FormSteps
  <1>7. CASE Reset(m)
    <2>1. Fresh \in ModalRec /\ Fresh.step \in FormSteps /\ Fresh.created = None /\ ~Fresh.polling
      BY DEF Fresh, ModalRec, FormSteps
    <2>2. Forms(m, Fresh)
      BY <1>7, <2>1 DEF Reset, Forms
    <2> QED
      BY <1>2, <2>2, FormsPreserves
  <1>8. CASE RetryWithText(m)
    <2> DEFINE d == [Fresh EXCEPT !.method = "text", !.step = "provide_job"]
    <2>1. d \in ModalRec /\ d.step \in FormSteps /\ d.created = None /\ ~d.polling
      BY DEF Fresh, ModalRec, FormSteps
    <2>2. modal' = [modal EXCEPT ![m] = d]
      BY <1>8 DEF RetryWithText
    <2> HIDE DEF d
    <2>3. Forms(m, d)
      BY <2>1, <2>2 DEF Forms
    <2> QED
      BY <1>2, <2>3, FormsPreserves
  <1> QED
    BY <1>2, <1>4, <1>6, <1>7, <1>8, FormsPreserves

LEMMA PollPreserves ==
    ASSUME IInv, NEW m \in Modals, Poll(m)
    PROVE  IInv'
  <1> DEFINE p == modal[m].created
             d == [modal[m] EXCEPT !.polling = FALSE, !.step = "result"]
  <1>1. modal[m] \in ModalRec /\ modal[m].polling
    BY DEF IInv, TypeOK, Poll
  <1>2. p \in Posts /\ post[p].at = "answered" /\ post[p].faulty
    BY <1>1 DEF IInv, Shown, Poll, NeverDone
  <1>3. d \in ModalRec /\ d.created = p /\ ~d.polling /\ d.step = "result"
    BY <1>1 DEF ModalRec
  <1>4. modal' = [modal EXCEPT ![m] = d] /\ UNCHANGED <<post, job, faults>>
    BY <1>1 DEF Poll, IInv, TypeOK, ModalRec
  <1>5. \A q \in Posts : ~Waiting(m, q)
    BY <1>1 DEF IInv, Awaited
  <1>6. Shown(m)'
    BY <1>2, <1>3, <1>4 DEF Shown, FormSteps, IInv, TypeOK
  <1> HIDE DEF d
  <1> QED
    BY <1>3, <1>4, <1>5, <1>6, DialogStepPreserves

(* A dialog m that waits for nothing becomes d and sends p as r, or one that *)
(* waits for p becomes d and p becomes r.                                    *)
LEMMA ExchangePreserves ==
    ASSUME IInv, NEW m \in Modals, NEW p \in Posts, NEW d \in ModalRec, NEW r \in PostRec,
           modal' = [modal EXCEPT ![m] = d], post' = [post EXCEPT ![p] = r],
           UNCHANGED <<job, faults>>,
           Serves(r, job[p]), Shown(m)', Awaited(m, p)',
           r.by \in {m, None},
           post[p].at = "answered" => r.at = "answered" /\ r.faulty = post[p].faulty,
           \A q \in Posts \ {p} : ~Waiting(m, q)
    PROVE  IInv'
  <1>1. TypeOK'
    BY DEF IInv, TypeOK
  <1>2. /\ \A n \in Modals \ {m} : modal'[n] = modal[n]
        /\ \A q \in Posts \ {p} : post'[q] = post[q]
        /\ modal'[m] = d /\ post'[p] = r /\ job' = job
    BY DEF IInv, TypeOK
  <1>3. \A q \in Posts : Serves(post'[q], job'[q])
    BY <1>2 DEF IInv
  <1>4. ASSUME NEW n \in Modals \ {m}
        PROVE  Shown(n)'
    <2>1. Shown(n) /\ modal'[n] = modal[n]
      BY <1>2 DEF IInv
    <2>2. \A q \in Posts : modal[n].created = q =>
              post'[q].at = "answered" /\ post'[q].faulty = post[q].faulty
      BY <1>2, <2>1 DEF Shown
    <2> QED
      BY <1>2, <2>1, <2>2 DEF Shown
  <1>5. ASSUME NEW n \in Modals, NEW q \in Posts
        PROVE  Awaited(n, q)'
    <2>1. CASE n = m
      BY <1>2, <2>1 DEF Awaited, Waiting
    <2>2. CASE n # m
      <3>1. modal'[n] = modal[n] /\ Awaited(n, q) /\ None # n
        BY <1>2, <2>2, PipelineAssumption DEF IInv
      <3>2. r.by # n
        BY <2>2, <3>1
      <3>3. \A x \in Posts : Waiting(n, x)' => Waiting(n, x) /\ x # p
        BY <1>2, <3>2 DEF Waiting
      <3> QED
        BY <1>2, <3>1, <3>3 DEF Awaited
    <2> QED
      BY <2>1, <2>2
  <1> QED
    BY <1>1, <1>3, <1>4, <1>5 DEF IInv

LEMMA SubmitPreserves ==
    ASSUME IInv, NEW m \in Modals, NEW p \in Posts, NEW url \in Urls \cup {NoUrl},
           SubmitJob(m, p, url)
    PROVE  IInv'
  <1> DEFINE d == [modal[m] EXCEPT !.step = "processing", !.error = "none"]
             r == [post[p] EXCEPT !.at = "validate", !.by = m, !.url = url]
  <1>1. modal[m] \in ModalRec /\ post[p] \in PostRec /\ post[p].at = "unsent"
        /\ modal[m].step = "select_resume"
    BY DEF IInv, TypeOK, SubmitJob
  <1>2. modal[m].created = None /\ ~modal[m].polling
    BY <1>1 DEF IInv, Shown, FormSteps
  <1>3. /\ d \in ModalRec /\ d.step = "processing" /\ d.created = None /\ ~d.polling
        /\ modal' = [modal EXCEPT ![m] = d]
    BY <1>1, <1>2 DEF ModalRec, SubmitJob, IInv, TypeOK
  <1>4. /\ r \in PostRec /\ r.at = "validate" /\ r.by = m /\ r.cancelled = post[p].cancelled
        /\ post' = [post EXCEPT ![p] = r] /\ UNCHANGED <<job, faults>>
    BY <1>1 DEF PostRec, SubmitJob, Stages
  <1>5. \A q \in Posts : post[q].by # m
    BY <1>1 DEF IInv, Awaited, Waiting
  <1>6. Serves(r, job[p])
    BY <1>1, <1>4 DEF Serves, IInv, Aligns, Aligned
  <1> HIDE DEF d, r
  <1>7. Shown(m)'
    BY <1>3, PipelineAssumption DEF Shown, FormSteps, IInv, TypeOK
  <1>8. Awaited(m, p)'
    BY <1>3, <1>4, <1>5 DEF Awaited, Waiting, IInv, TypeOK
  <1> QED
    BY <1>1, <1>3, <1>4, <1>5, <1>6, <1>7, <1>8, ExchangePreserves DEF Waiting

(* What a dialog makes of an answer that its request could give.             *)
LEMMA ToldIs ==
    ASSUME IInv, NEW m \in Modals, NEW p \in Posts, Waiting(m, p),
           NEW answer \in {"none", "created", "unfinished", "mismatch"} \cup Errors
    PROVE  LET d == Told(m, p, answer) IN
           /\ d \in ModalRec
           /\ d.created \in {p, None}
           /\ d.step \notin FormSteps
           /\ d.step = "mismatch" => d.created = None
           /\ d.polling => d.step = "processing"
           /\ d.polling => d.created = p /\ answer = "unfinished"
           /\ d.created = p /\ d.step = "result" => answer = "created"
           /\ d.created = p => answer \in {"created", "unfinished"}
           /\ d.step = "mismatch" => ~d.polling
  <1>1. /\ modal[m] \in ModalRec /\ modal[m].step = "processing"
        /\ modal[m].created = None /\ ~modal[m].polling /\ None # p
    BY PipelineAssumption DEF IInv, TypeOK, Awaited
  <1>2. CASE answer = "created"
    BY <1>1, <1>2 DEF Told, ModalRec, FormSteps
  <1>3. CASE answer = "unfinished"
    BY <1>1, <1>3 DEF Told, ModalRec, FormSteps
  <1>4. CASE answer = "mismatch"
    BY <1>1, <1>4 DEF Told, ModalRec, FormSteps
  <1>5. CASE answer \notin {"created", "unfinished", "mismatch"}
    BY <1>1, <1>5 DEF Told, ModalRec, FormSteps
  <1> QED
    BY <1>2, <1>3, <1>4, <1>5

LEMMA ReceivePreserves ==
    ASSUME IInv, NEW m \in Modals, NEW p \in Posts, Receive(m, p)
    PROVE  IInv' /\ modal[m].step = "processing"
  <1> DEFINE answer == post[p].answer
             d == Told(m, p, answer)
             r == Unheard(p)
  <1>1. /\ post[p] \in PostRec /\ post[p].at = "answered" /\ Waiting(m, p) /\ post[p].by = m
        /\ m # None /\ modal[m].step = "processing"
    BY PipelineAssumption DEF IInv, TypeOK, Receive, Waiting, Awaited
  <1>2. /\ r \in PostRec /\ r.at = "answered" /\ r.by = None /\ r.faulty = post[p].faulty
        /\ r.answer = answer /\ r.cancelled = post[p].cancelled
        /\ post' = [post EXCEPT ![p] = r]
        /\ modal' = [modal EXCEPT ![m] = d] /\ UNCHANGED <<job, faults>>
    BY <1>1 DEF PostRec, Receive, Unheard, IInv, TypeOK
  <1>3. answer \in {"none", "created", "unfinished", "mismatch"} \cup Errors
    BY <1>1 DEF PostRec
  <1>4. /\ d \in ModalRec
        /\ d.created \in {p, None}
        /\ d.step \notin FormSteps
        /\ d.step = "mismatch" => d.created = None /\ ~d.polling
        /\ d.polling => d.step = "processing" /\ d.created = p /\ answer = "unfinished"
        /\ d.created = p /\ d.step = "result" => answer = "created"
    BY <1>1, <1>3, ToldIs
  <1>5. Serves(post[p], job[p])
    BY DEF IInv
  <1>6. post'[p] = r /\ modal'[m] = d /\ job' = job
    BY <1>2 DEF IInv, TypeOK
  <1> HIDE DEF d, r, answer
  <1>7. Serves(r, job[p])
    BY <1>1, <1>2, <1>5 DEF Serves, Aligns, Aligned, answer
  <1>8. Shown(m)'
    <2>1. answer = "created" => post[p].faulty \/ CompleteRow(job[p])
      BY <1>1, <1>5 DEF Serves, answer
    <2>2. answer = "unfinished" => post[p].faulty \/ NeverDone(job[p])
      BY <1>1, <1>5 DEF Serves, answer
    <2> QED
      BY <1>2, <1>4, <1>6, <2>1, <2>2, PipelineAssumption DEF Shown
  <1>9. \A q \in Posts \ {p} : ~Waiting(m, q)
    BY <1>1 DEF IInv, Awaited
  <1>10. Awaited(m, p)'
    BY <1>1, <1>2, <1>6 DEF Awaited, Waiting
  <1> QED
    BY <1>1, <1>2, <1>4, <1>7, <1>8, <1>9, <1>10, ExchangePreserves

LEMMA AbandonedIs ==
    ASSUME IInv, NEW m \in Modals, NEW p \in Posts, Waiting(m, p)
    PROVE  /\ Abandoned(p) \in PostRec /\ Abandoned(p).by = None
           /\ Abandoned(p).at = post[p].at /\ Abandoned(p).faulty = post[p].faulty
           /\ Serves(Abandoned(p), job[p])
  <1>1. post[p] \in PostRec /\ Serves(post[p], job[p]) /\ post[p].at # "unsent"
    BY DEF IInv, TypeOK, Awaited
  <1>2. /\ Abandoned(p) \in PostRec /\ Abandoned(p).by = None
        /\ Abandoned(p).at = post[p].at /\ Abandoned(p).faulty = post[p].faulty
        /\ Abandoned(p).late = post[p].late /\ Abandoned(p).answer = post[p].answer
        /\ Abandoned(p).cancelled <=> post[p].at # "answered"
    BY <1>1 DEF PostRec, Abandoned
  <1> QED
    BY <1>1, <1>2 DEF Serves, Aligns, Aligned

LEMMA UnheardIs ==
    ASSUME IInv, NEW m \in Modals, NEW p \in Posts, Waiting(m, p)
    PROVE  /\ Unheard(p) \in PostRec /\ Unheard(p).by = None
           /\ Unheard(p).at = post[p].at /\ Unheard(p).faulty = post[p].faulty
           /\ Serves(Unheard(p), job[p])
  <1>1. post[p] \in PostRec /\ Serves(post[p], job[p]) /\ post[p].at # "unsent"
    BY DEF IInv, TypeOK, Awaited
  <1>2. /\ Unheard(p) \in PostRec /\ Unheard(p).by = None
        /\ Unheard(p).at = post[p].at /\ Unheard(p).faulty = post[p].faulty
        /\ Unheard(p).late = post[p].late /\ Unheard(p).answer = post[p].answer
        /\ Unheard(p).cancelled = post[p].cancelled
    BY <1>1 DEF PostRec, Unheard
  <1> QED
    BY <1>1, <1>2 DEF Serves, Aligns, Aligned

LEMMA LosePreserves ==
    ASSUME IInv, NEW m \in Modals, NEW p \in Posts, LoseConnection(m, p)
    PROVE  IInv' /\ modal[m].step = "processing"
  <1> DEFINE d == Told(m, p, "UNKNOWN_ERROR")
             r == Abandoned(p)
  <1>1. Waiting(m, p) /\ post[p].by = m /\ m # None /\ modal[m].step = "processing"
    BY PipelineAssumption DEF IInv, LoseConnection, Waiting, Awaited
  <1>2. /\ r \in PostRec /\ r.by = None /\ r.at = post[p].at /\ r.faulty = post[p].faulty
        /\ Serves(r, job[p])
    BY <1>1, AbandonedIs
  <1>3. post' = [post EXCEPT ![p] = r] /\ modal' = [modal EXCEPT ![m] = d] /\ UNCHANGED <<job, faults>>
    BY DEF LoseConnection
  <1>4. d \in ModalRec /\ d.created = None /\ ~d.polling /\ d.step \notin FormSteps
    BY <1>1, ToldIs, PipelineAssumption DEF Errors
  <1>5. post'[p] = r /\ modal'[m] = d
    BY <1>3 DEF IInv, TypeOK
  <1> HIDE DEF d, r
  <1>6. Shown(m)'
    BY <1>4, <1>5, PipelineAssumption DEF Shown
  <1>7. \A q \in Posts \ {p} : ~Waiting(m, q)
    BY <1>1 DEF IInv, Awaited
  <1>8. Awaited(m, p)'
    BY <1>1, <1>2, <1>5 DEF Awaited, Waiting
  <1> QED
    BY <1>1, <1>2, <1>3, <1>4, <1>6, <1>7, <1>8, ExchangePreserves

LEMMA LeavePreserves ==
    ASSUME IInv, NEW m \in Modals, LeavePage(m)
    PROVE  IInv' /\ modal'[m].step \in FormSteps
  <1>1. /\ modal'[m] = Fresh /\ Fresh \in ModalRec /\ Fresh.step \in FormSteps
        /\ Fresh.created = None /\ ~Fresh.polling
    BY DEF LeavePage, IInv, TypeOK, Fresh, ModalRec, FormSteps
  <1>2. \A p \in Posts :
            /\ post'[p] \in PostRec /\ Serves(post'[p], job[p])
            /\ post'[p].at = post[p].at /\ post'[p].faulty = post[p].faulty
            /\ post'[p].by # m
            /\ post'[p].by # None => post'[p].by = post[p].by
    <2> SUFFICES ASSUME NEW p \in Posts
                 PROVE  /\ post'[p] \in PostRec /\ Serves(post'[p], job[p])
                        /\ post'[p].at = post[p].at /\ post'[p].faulty = post[p].faulty
                        /\ post'[p].by # m
                        /\ post'[p].by # None => post'[p].by = post[p].by
      OBVIOUS
    <2>1. CASE Waiting(m, p)
      <3>1. post'[p] = Abandoned(p) \/ post'[p] = Unheard(p)
        BY <2>1 DEF LeavePage
      <3> QED
        BY <2>1, <3>1, AbandonedIs, UnheardIs, PipelineAssumption
    <2>2. CASE ~Waiting(m, p)
      <3>1. post'[p] = post[p]
        BY <2>2 DEF LeavePage
      <3> QED
        BY <2>2, <3>1 DEF IInv, TypeOK, Waiting
    <2> QED
      BY <2>1, <2>2
  <1>3. /\ \A n \in Modals \ {m} : modal'[n] = modal[n]
        /\ job' = job /\ faults' = faults
    BY DEF LeavePage, IInv, TypeOK
  <1>4. TypeOK'
    <2>1. modal' \in [Modals -> ModalRec]
      BY <1>1 DEF LeavePage, IInv, TypeOK
    <2>2. post' \in [Posts -> PostRec]
      BY <1>2 DEF LeavePage
    <2> QED
      BY <1>3, <2>1, <2>2 DEF IInv, TypeOK
  <1>5. \A n \in Modals : Shown(n)'
    <2>1. Shown(m)'
      BY <1>1, PipelineAssumption DEF Shown, FormSteps
    <2>2. ASSUME NEW n \in Modals \ {m}
          PROVE  Shown(n)'
      BY <1>2, <1>3 DEF IInv, Shown
    <2> QED
      BY <2>1, <2>2
  <1>6. ASSUME NEW n \in Modals, NEW q \in Posts
        PROVE  Awaited(n, q)'
    <2>1. \A x \in Posts : Waiting(n, x)' => Waiting(n, x) /\ n # m
      BY <1>2, PipelineAssumption DEF Waiting
    <2> QED
      BY <1>2, <1>3, <2>1 DEF IInv, Awaited
  <1> QED
    BY <1>1, <1>2, <1>3, <1>4, <1>5, <1>6 DEF IInv

LEMMA DeletePreserves ==
    ASSUME IInv, NEW p \in Posts, Delete(p)
    PROVE  IInv'
  <1> DEFINE row == [job[p] EXCEPT !.listed = "deleted"]
  <1>1. /\ row \in JobRec /\ row.listed = "deleted" /\ row.extraction = job[p].extraction
        /\ row.alignment = job[p].alignment /\ row.fields = job[p].fields
    BY OwnRow DEF JobRec
  <1>2. job' = [job EXCEPT ![p] = row] /\ UNCHANGED <<modal, post, faults>>
    BY OwnRow DEF Delete, IInv, TypeOK, JobRec
  <1> HIDE DEF row
  <1>3. /\ \A q \in Posts : CompleteRow(job[q]) => CompleteRow(job'[q])
        /\ \A q \in Posts : NeverDone(job[q]) => NeverDone(job'[q])
        /\ \A q \in Posts : job'[q].extraction = job[q].extraction
              /\ job'[q].alignment = job[q].alignment /\ job'[q].fields = job[q].fields
    BY <1>1, <1>2 DEF CompleteRow, NeverDone, IInv, TypeOK
  <1>4. TypeOK'
    BY <1>1, <1>2 DEF IInv, TypeOK
  <1>5. \A q \in Posts : Serves(post'[q], job'[q])
    BY <1>2, <1>3 DEF IInv, Serves
  <1>6. \A m \in Modals : Shown(m)'
    BY <1>2, <1>3 DEF IInv, Shown
  <1> QED
    BY <1>2, <1>4, <1>5, <1>6 DEF IInv, Awaited, Waiting

-----------------------------------------------------------------------------
(* The theorems.                                                             *)

LEMMA InitInv == Init => IInv
  <1> SUFFICES ASSUME Init PROVE IInv
    OBVIOUS
  <1>1. Fresh \in ModalRec /\ NoRequest \in PostRec /\ NoRow \in JobRec
    BY DEF Fresh, NoRequest, NoRow, ModalRec, PostRec, JobRec, FormSteps
  <1>2. TypeOK
    BY <1>1, PipelineAssumption DEF Init, TypeOK
  <1>3. \A p \in Posts : Serves(post[p], job[p])
    BY DEF Init, Serves, NoRequest, NoRow, Aligns, Aligned
  <1>4. \A m \in Modals : Shown(m)
    <2> SUFFICES ASSUME NEW m \in Modals
                 PROVE  Shown(m)
      OBVIOUS
    <2>1. PICK d : d = modal[m]
      OBVIOUS
    <2>2. d.step = "input_method" /\ d.created = None /\ ~d.polling
      BY <2>1 DEF Init, Fresh
    <2>3. \A p \in Posts : p # None
      BY PipelineAssumption
    <2> QED
      BY <2>1, <2>2, <2>3 DEF Shown
  <1>5. \A m \in Modals, p \in Posts : Awaited(m, p)
    BY PipelineAssumption DEF Init, Awaited, Waiting, NoRequest
  <1> QED
    BY <1>2, <1>3, <1>4, <1>5 DEF IInv

LEMMA NextInv == IInv /\ [Next]_vars => IInv'
  <1> SUFFICES ASSUME IInv, [Next]_vars PROVE IInv'
    OBVIOUS
  <1>1. ASSUME NEW m \in Modals,
               \/ \E method \in {"url", "text"} : ChooseMethod(m, method)
               \/ ProvideJob(m) \/ Back(m) \/ Reset(m) \/ RetryWithText(m)
        PROVE  IInv'
    BY <1>1, FormStepPreserves
  <1>2. ASSUME NEW m \in Modals, LeavePage(m) \/ Poll(m)
        PROVE  IInv'
    BY <1>2, LeavePreserves, PollPreserves
  <1>3. ASSUME NEW m \in Modals, NEW p \in Posts,
               \/ \E url \in Urls \cup {NoUrl} : SubmitJob(m, p, url)
               \/ Receive(m, p) \/ LoseConnection(m, p)
        PROVE  IInv'
    BY <1>3, SubmitPreserves, ReceivePreserves, LosePreserves
  <1>4. ASSUME NEW p \in Posts, Delete(p) \/ Expire(p) \/ Serve(p)
        PROVE  IInv'
    BY <1>4, DeletePreserves, ServeIsServerStep, ServerStepPreserves
  <1>5. CASE UNCHANGED vars
    BY <1>5 DEF vars, IInv, TypeOK, Shown, Awaited, Waiting
  <1> QED
    BY <1>1, <1>2, <1>3, <1>4, <1>5 DEF Next

(* The strengthening that the theorems below follow from.                    *)
THEOREM PipelineInv == Spec => []IInv
  BY InitInv, NextInv, PTL DEF Spec

(* The dialogs, the requests and the rows are of their types.                *)
THEOREM PipelineTypeCorrect == Spec => []TypeOK
  <1>1. IInv => TypeOK
    BY DEF IInv
  <1> QED
    BY <1>1, PipelineInv, PTL

(* A dialog that reports a new job and no error reports a job that was read, *)
(* tailored and named, unless one of its statements failed of its own: the   *)
(* deadline and the connection cannot cut such a job short (Create, in       *)
(* service.go, under its two contexts).                                      *)
THEOREM CreatedIsComplete == Spec => []SavedWhenTold
  <1>1. IInv => SavedWhenTold
    BY DEF IInv, Shown, SavedWhenTold, CompleteRow, Complete
  <1> QED
    BY <1>1, PipelineInv, PTL

(* An answer that arrives never replaces a form that is being filled in: the *)
(* dialog (CreateJobModal.tsx) is not left while its request is out.         *)
THEOREM FormStays == Spec => FormNotTakenOver
  <1>1. ASSUME IInv, [Next]_vars, NEW m \in Modals, modal[m].step \in FormSteps
        PROVE  modal'[m].step \notin {"result", "mismatch"}
    <2>0. modal[m].step # "processing" /\ modal \in [Modals -> ModalRec]
      BY <1>1 DEF FormSteps, IInv, TypeOK
    <2>1. ASSUME NEW n \in Modals,
                 \/ \E method \in {"url", "text"} : ChooseMethod(n, method)
                 \/ ProvideJob(n) \/ Back(n) \/ Reset(n) \/ RetryWithText(n) \/ LeavePage(n)
          PROVE  modal'[m].step \in FormSteps
      <3>1. CASE n = m
        BY <1>1, <2>1, <3>1, FormStepPreserves, LeavePreserves
      <3>2. CASE n # m
        <4>1. modal'[m] = modal[m]
          BY <2>0, <2>1, <3>2
          DEF ChooseMethod, ProvideJob, Back, Reset, RetryWithText, LeavePage
        <4> QED
          BY <1>1, <4>1
      <3> QED
        BY <3>1, <3>2
    <2>2. ASSUME NEW n \in Modals, Poll(n)
          PROVE  modal'[m] = modal[m]
      <3>1. modal[n].step = "processing"
        BY <1>1, <2>2 DEF IInv, Shown, Poll
      <3> QED
        BY <2>0, <2>2, <3>1 DEF Poll
    <2>3. ASSUME NEW n \in Modals, NEW p \in Posts, Receive(n, p) \/ LoseConnection(n, p)
          PROVE  modal'[m] = modal[m]
      <3>1. modal[n].step = "processing"
        BY <1>1, <2>3, ReceivePreserves, LosePreserves
      <3> QED
        BY <2>0, <2>3, <3>1 DEF Receive, LoseConnection
    <2>4. ASSUME NEW n \in Modals, NEW p \in Posts, NEW url \in Urls \cup {NoUrl},
                 SubmitJob(n, p, url)
          PROVE  modal'[m].step \in {modal[m].step, "processing"}
      BY <2>0, <2>4 DEF SubmitJob, ModalRec
    <2>5. ASSUME NEW p \in Posts, Delete(p) \/ Expire(p) \/ Serve(p)
          PROVE  modal' = modal
      BY <1>1, <2>5, ServeIsServerStep DEF ServerStep, Delete
    <2>6. CASE UNCHANGED vars
      BY <1>1, <2>6 DEF vars, FormSteps
    <2> QED
      BY <1>1, <2>1, <2>2, <2>3, <2>4, <2>5, <2>6 DEF Next, FormSteps
  <1>2. IInv /\ [Next]_vars => [\A m \in Modals : modal[m].step \in FormSteps =>
            modal'[m].step \notin {"result", "mismatch"}]_vars
    BY <1>1
  <1> QED
    BY <1>2, PipelineInv, PTL DEF Spec, FormNotTakenOver


-----------------------------------------------------------------------------
(* The review page: what is hidden, what its lists have, what is queued.     *)

RowsOf(t) == [id : Leads, status : TAB_STATUS[t]]
PagesOf(t) == Seq(SUBSET RowsOf(t))
FetchesOf(t) == [kind : {"idle", "all", "next"}, got : PagesOf(t), shifted : BOOLEAN, joined : SUBSET Leads]
ListsOf(t) == [pages : PagesOf(t), next : BOOLEAN, invalid : BOOLEAN, dirty : BOOLEAN,
               shifted : BOOLEAN, joined : SUBSET Leads, fetch : FetchesOf(t)]

LeadInv == lead \in [Leads -> [status : LeadStatuses, app : AppStatuses]]

Undos == [leads : (SUBSET Leads) \ {{}}, decision : Decisions]

ScreenInv ==
    /\ UNION {unscored, preparing, excused, cut, unseen} \subseteq Leads
    /\ tab \in Tabs /\ hiddenIn \in [Leads -> Tabs \cup {"none"}]
    /\ undoStack \in Seq(Undos)

Mutations == [pc : {"idle", "sent", "orphan"}, kind : {"decide", "undo"}, steps : Seq(Decisions),
              ids : SUBSET Leads, todo : SUBSET Leads, failed : SUBSET Leads]

MutationFits(r) ==
    /\ r \in Mutations
    /\ r.todo \cup r.failed \subseteq r.ids
    /\ r.pc # "idle" => r.steps # <<>>
    /\ r.todo # {} => r.pc # "idle"

MutationsInv == req = [i \in Requests |-> req[i]] /\ \A i \in Requests : MutationFits(req[i])

\* A fetch of a next page follows pages that have one, and reads one page.
ListFits(q) ==
    /\ q.next => q.pages # <<>>
    /\ q.fetch.kind = "next" => q.next /\ q.fetch.got = <<>>

\* The decision takes a lead out of the tab it was decided in.
TakesOut(d, t) ==
    \/ d = "approve" /\ t \in {"new", "dismissed"}
    \/ d = "dismiss" /\ t \in {"new", "approved"}
    \/ d = "reset" /\ t = "dismissed"

On(i, l) == req[i].pc # "idle" /\ l \in req[i].ids

\* A hidden lead that is not excused has one decision under way on it at most,
\* which will take it out of its tab, show it again, or did so.
HiddenAt(l) ==
    hiddenIn[l] # "none" /\ l \notin excused =>
        /\ \A i \in Requests : On(i, l) =>
              /\ req[i].kind = "decide" /\ req[i].pc = "sent"
              /\ TakesOut(Head(req[i].steps), hiddenIn[l])
              /\ l \in req[i].todo \cup req[i].failed \/ ~InTab(l, hiddenIn[l])
              /\ \A k \in Requests : On(k, l) => k = i
        /\ (\A i \in Requests : ~On(i, l)) => ~InTab(l, hiddenIn[l])

HiddenInv == \A l \in Leads : HiddenAt(l)

Ids(pages) == {r.id : r \in UNION Range(pages)}

\* The pages show the leads of the tab up to an offset, but for those that joined.
UpTo(t, pages, joined, n) ==
    \A l \in Leads : InTab(l, t) => l \in Ids(pages) \/ l \in joined \/ Rank(l, t) > n * PageSize

AllOf(t, pages, joined) ==
    \A l \in Leads : InTab(l, t) => l \in Ids(pages) \/ l \in joined

Covers(q, t) ==
    /\ q.pages # <<>> /\ ~q.shifted /\ ~q.next => AllOf(t, q.pages, q.joined)
    /\ q.pages # <<>> /\ ~q.shifted /\ q.next /\ ~(q.dirty /\ q.fetch.kind # "next") =>
          UpTo(t, q.pages, q.joined, Len(q.pages))
    /\ q.fetch.kind = "all" /\ ~q.fetch.shifted => UpTo(t, q.fetch.got, q.fetch.joined, Len(q.fetch.got))

\* What is known of the lists ls, one for each tab.
Kept(ls) ==
    /\ ls = [t \in Tabs |-> ls[t]]
    /\ \A t \in Tabs : ls[t] \in ListsOf(t) /\ ListFits(ls[t]) /\ Covers(ls[t], t)

AwaitingInv == awaiting \subseteq Tabs /\ \A t \in awaiting : list[t].fetch.kind # "idle"

ReviewInv ==
    /\ LeadInv /\ ScreenInv /\ MutationsInv
    /\ QueueExplained /\ HiddenInv /\ Kept(list) /\ AwaitingInv

-----------------------------------------------------------------------------
(* Tabs, leads, and their places in a list.                                  *)

LEMMA TabsHold ==
    /\ \A t \in Tabs : TAB_STATUS[t] \subseteq LeadStatuses
    /\ TAB_STATUS["new"] = {"new"}
    /\ TAB_STATUS["approved"] = {"approved", "applying", "applied", "failed"}
    /\ TAB_STATUS["dismissed"] = {"dismissed", "expired"}
    /\ LeadStatuses = {"new", "approved", "applying", "applied", "failed", "dismissed", "expired", "absent"}
  <1>1. /\ TAB_STATUS["new"] = {"new"}
        /\ TAB_STATUS["approved"] = {"approved", "applying", "applied", "failed"}
        /\ TAB_STATUS["dismissed"] = {"dismissed", "expired"}
    BY DEF TAB_STATUS
  <1>2. \A t \in Tabs : TAB_STATUS[t] \subseteq LeadStatuses
    BY Zenon DEF LeadStatuses
  <1>3. \A x : x \in LeadStatuses <=> x \in {"absent"} \/ \E t \in Tabs : x \in TAB_STATUS[t]
    <2> DEFINE U == UNION {TAB_STATUS[t] : t \in Tabs}
    <2>1. \A x : x \in U <=> \E t \in Tabs : x \in TAB_STATUS[t]
      OBVIOUS
    <2>2. LeadStatuses = {"absent"} \cup U
      BY DEF LeadStatuses
    <2> HIDE DEF U
    <2> QED
      BY <2>1, <2>2
  <1>4. \A x : (\E t \in Tabs : x \in TAB_STATUS[t]) <=>
              x \in {"new", "approved", "applying", "applied", "failed", "dismissed", "expired"}
    BY <1>1 DEF Tabs
  <1> QED
    BY <1>1, <1>2, <1>3, <1>4

LEMMA FirstIsIn ==
    ASSUME NEW S, S \subseteq Leads, S # {}
    PROVE  First(S) \in S
  <1> DEFINE Less == {ss \in Nat \X Nat : ss[1] < ss[2]}
  <1>1. IsWellFoundedOn(Less, Nat)
    BY NatLessThanWellFounded, Zenon DEF OpToRel
  <1>2. S \subseteq Nat
    BY DEF Leads
  <1>3. \A n, m \in Nat : n < m => <<n, m>> \in Less
    OBVIOUS
  <1> HIDE DEF Less
  <1>4. PICK x \in S : \A y \in S : <<y, x>> \notin Less
    BY <1>1, <1>2, WFMin
  <1>5. \A y \in S : x <= y
    <2> SUFFICES ASSUME NEW y \in S, y < x
                 PROVE  FALSE
      BY <1>2
    <2>1. x \in Nat /\ y \in Nat
      BY <1>2
    <2> QED
      BY <1>3, <1>4, <2>1
  <1> QED
    BY <1>5 DEF First

LEMMA FiniteLeads ==
    ASSUME NEW S, S \subseteq Leads
    PROVE  IsFiniteSet(S) /\ Cardinality(S) \in Nat
  <1>1. NLeads \in Int /\ 1 \in Int
    BY ReviewAssumption
  <1>2. IsFiniteSet(1..NLeads)
    BY <1>1, FS_Interval
  <1> QED
    BY <1>2, FS_Subset, FS_CardinalityType DEF Leads

LEMMA RanksAre ==
    ASSUME NEW t, NEW l \in Leads
    PROVE  /\ Rank(l, t) \in Nat /\ Cardinality(Stored(t)) \in Nat
           /\ Rank(l, t) <= Cardinality(Stored(t))
           /\ InTab(l, t) => l \in Stored(t) /\ Rank(l, t) >= 1
  <1> DEFINE S == {k \in Stored(t) : k <= l}
  <1>1. Stored(t) \subseteq Leads /\ S \subseteq Stored(t)
    BY DEF Stored
  <1>2. /\ IsFiniteSet(S) /\ Cardinality(S) \in Nat /\ IsFiniteSet(Stored(t))
        /\ Cardinality(Stored(t)) \in Nat
    BY <1>1, FiniteLeads
  <1>3. Cardinality(S) <= Cardinality(Stored(t))
    BY <1>1, <1>2, FS_Subset
  <1>4. Rank(l, t) = Cardinality(S)
    BY DEF Rank
  <1>5. InTab(l, t) => l \in Stored(t) /\ l \in S
    BY DEF Stored, Leads
  <1>6. l \in S => Cardinality(S) >= 1
    <2>1. Cardinality(S) = 0 <=> S = {}
      BY <1>2, FS_EmptySet
    <2> HIDE DEF S
    <2> QED
      BY <1>2, <2>1
  <1> QED
    BY <1>2, <1>3, <1>4, <1>5, <1>6

\* Where nothing leaves the tab, a lead only moves towards the end of the list.
LEMMA RanksGrow ==
    ASSUME NEW t, NEW l \in Leads, Stored(t) \subseteq Stored(t)'
    PROVE  Rank(l, t)' \in Nat /\ Rank(l, t) <= Rank(l, t)'
  <1> DEFINE S == {k \in Stored(t) : k <= l}
             T == {k \in Stored(t)' : k <= l}
  <1>1. S \subseteq T /\ T \subseteq Leads
    BY DEF Stored, Leads
  <1>2. Rank(l, t) = Cardinality(S) /\ Rank(l, t)' = Cardinality(T)
    BY DEF Rank, Leads
  <1> HIDE DEF S, T
  <1>3. IsFiniteSet(T) /\ Cardinality(T) \in Nat
    BY <1>1, FiniteLeads
  <1>4. Cardinality(S) <= Cardinality(T)
    BY <1>1, <1>3, FS_Subset
  <1> QED
    BY <1>2, <1>3, <1>4

\* The same leads, the same lists.
LEMMA SameCovers ==
    ASSUME lead' = lead
    PROVE  \A t \in Tabs : \A q : Covers(q, t)' <=> Covers(q, t)
  <1>1. \A t \in Tabs, l \in Leads : InTab(l, t)' <=> InTab(l, t)
    BY DEF InTab
  <1>2. \A t \in Tabs : Stored(t)' = Stored(t)
    BY <1>1 DEF Stored, Leads
  <1>3. \A t \in Tabs, l \in Leads : Rank(l, t)' = Rank(l, t)
    BY <1>2 DEF Rank
  <1>4. \A t \in Tabs : \A p, j, n : UpTo(t, p, j, n)' <=> UpTo(t, p, j, n)
    BY <1>1, <1>3 DEF UpTo, Leads, Ids
  <1>5. \A t \in Tabs : \A p, j : AllOf(t, p, j)' <=> AllOf(t, p, j)
    BY <1>1 DEF AllOf, Leads, Ids
  <1> QED
    BY <1>4, <1>5 DEF Covers

LEMMA SameKept ==
    ASSUME lead' = lead, NEW ls, Kept(ls), list' = ls
    PROVE  Kept(list)'
  BY SameCovers DEF Kept

-----------------------------------------------------------------------------
(* Operations on a list.                                                     *)

\* What is known of one list.
Fits(q, t) == q \in ListsOf(t) /\ ListFits(q) /\ Covers(q, t)

LEMMA ListParts ==
    ASSUME NEW t, NEW q \in ListsOf(t)
    PROVE  /\ q.pages \in PagesOf(t) /\ q.next \in BOOLEAN /\ q.dirty \in BOOLEAN /\ q.invalid \in BOOLEAN
           /\ q.shifted \in BOOLEAN /\ q.joined \in SUBSET Leads /\ q.fetch \in FetchesOf(t)
           /\ q.fetch.kind \in {"idle", "all", "next"} /\ q.fetch.got \in PagesOf(t)
           /\ q.fetch.shifted \in BOOLEAN /\ q.fetch.joined \in SUBSET Leads
  BY DEF ListsOf, FetchesOf

LEMMA NothingFetched ==
    ASSUME NEW t
    PROVE  /\ <<>> \in PagesOf(t) /\ NoFetch \in FetchesOf(t) /\ NoList \in ListsOf(t)
           /\ NoFetch.kind = "idle" /\ NoFetch.got = <<>> /\ ~NoFetch.shifted /\ NoFetch.joined = {}
           /\ NoList.pages = <<>> /\ NoList.fetch = NoFetch /\ ~NoList.next
           /\ Fits(NoList, t)
  <1>1. <<>> \in PagesOf(t)
    BY DEF PagesOf
  <1>2. NoFetch \in FetchesOf(t) /\ NoList \in ListsOf(t)
    BY <1>1 DEF FetchesOf, ListsOf, NoFetch, NoList
  <1>3. /\ NoFetch.kind = "idle" /\ NoFetch.got = <<>> /\ ~NoFetch.shifted /\ NoFetch.joined = {}
        /\ NoList.pages = <<>> /\ NoList.fetch = NoFetch /\ ~NoList.next
    BY DEF NoFetch, NoList
  <1> QED
    BY <1>1, <1>2, <1>3 DEF Fits, ListFits, Covers

LEMMA NothingRead ==
    ASSUME NEW t, NEW j
    PROVE  UpTo(t, <<>>, j, Len(<<>>))
  <1>1. Len(<<>>) = 0 /\ 0 * PageSize = 0
    BY ReviewAssumption
  <1> QED
    BY <1>1, RanksAre DEF UpTo

LEMMA StartedAll ==
    ASSUME NEW t, NEW q, Fits(q, t)
    PROVE  /\ Fits(Started(q, "all"), t) /\ Started(q, "all").fetch.kind = "all"
           /\ Started(q, "all").pages = q.pages
  <1> DEFINE f == [NoFetch EXCEPT !.kind = "all"]
  <1>1. q \in ListsOf(t) /\ ListFits(q) /\ Covers(q, t)
    BY DEF Fits
  <1>2. f \in FetchesOf(t) /\ f.kind = "all" /\ f.got = <<>> /\ f.joined = {}
    BY NothingFetched DEF FetchesOf, NoFetch
  <1>3. PICK p : p = Started(q, "all")
    OBVIOUS
  <1>4. p = [q EXCEPT !.fetch = f]
    BY <1>3 DEF Started
  <1> HIDE DEF f
  <1>5. /\ p \in ListsOf(t) /\ p.pages = q.pages /\ p.next = q.next /\ p.dirty = q.dirty
        /\ p.shifted = q.shifted /\ p.joined = q.joined /\ p.fetch = f
    BY <1>1, <1>2, <1>4 DEF ListsOf
  <1>6. ListFits(p)
    BY <1>1, <1>2, <1>5 DEF ListFits
  <1>7. UpTo(t, p.fetch.got, p.fetch.joined, Len(p.fetch.got))
    BY <1>2, <1>5, NothingRead
  <1>8. Covers(p, t)
    BY <1>1, <1>2, <1>5, <1>7 DEF Covers
  <1> QED
    BY <1>2, <1>3, <1>5, <1>6, <1>8 DEF Fits

LEMMA RefetchedFits ==
    ASSUME NEW t, NEW q, Fits(q, t)
    PROVE  Fits(Refetched(q), t) /\ (Refetched(q).fetch.kind = "idle" => FALSE)
  BY StartedAll DEF Refetched

\* A next page is fetched of a list that is not dirty, or known to be shifted.
LEMMA NextStarted ==
    ASSUME NEW t, NEW q, Fits(q, t), q.dirty => q.shifted
    PROVE  Fits(FetchNext(q), t) /\ (q.fetch.kind # "idle" => FetchNext(q).fetch.kind # "idle")
  <1>1. CASE ~q.next
    BY <1>1 DEF FetchNext
  <1>2. CASE q.next
    <2> DEFINE f == [NoFetch EXCEPT !.kind = "next"]
    <2>1. q \in ListsOf(t) /\ ListFits(q) /\ Covers(q, t)
      BY DEF Fits
    <2>2. f \in FetchesOf(t) /\ f.kind = "next" /\ f.got = <<>> /\ f.joined = {}
      BY NothingFetched DEF FetchesOf, NoFetch
    <2>3. PICK p : p = FetchNext(q)
      OBVIOUS
    <2>4. p = [q EXCEPT !.fetch = f]
      BY <1>2, <2>3 DEF FetchNext, Started
    <2> HIDE DEF f
    <2>5. /\ p \in ListsOf(t) /\ p.pages = q.pages /\ p.next = q.next /\ p.dirty = q.dirty
          /\ p.shifted = q.shifted /\ p.joined = q.joined /\ p.fetch = f
      BY <2>1, <2>2, <2>4 DEF ListsOf
    <2>6. ListFits(p)
      BY <1>2, <2>1, <2>2, <2>5 DEF ListFits
    <2>7. Covers(p, t)
      BY <1>2, <2>1, <2>2, <2>5 DEF Covers
    <2> QED
      BY <2>2, <2>3, <2>5, <2>6, <2>7 DEF Fits
  <1> QED
    BY <1>1, <1>2

\* Marks of a list that only make it claim less.
LEMMA Marked ==
    ASSUME NEW t, NEW q, Fits(q, t), NEW p \in ListsOf(t),
           p.pages = q.pages, p.next = q.next, p.joined = q.joined, p.fetch = q.fetch \/ p.fetch = NoFetch,
           q.shifted => p.shifted, q.dirty /\ q.pages # <<>> => p.dirty
    PROVE  Fits(p, t)
  <1>1. ListFits(p)
    BY NothingFetched DEF Fits, ListFits
  <1>2. Covers(p, t)
    BY NothingFetched DEF Fits, Covers
  <1> QED
    BY <1>1, <1>2 DEF Fits

-----------------------------------------------------------------------------
(* Pages that are read.                                                      *)

LEMMA IdsAppend ==
    ASSUME NEW t, NEW p \in PagesOf(t), NEW x \in SUBSET RowsOf(t)
    PROVE  /\ Append(p, x) \in PagesOf(t) /\ Append(p, x) # <<>> /\ Len(Append(p, x)) = Len(p) + 1
           /\ \A l : l \in Ids(Append(p, x)) <=> l \in Ids(p) \/ \E r \in x : r.id = l
           /\ p \o <<x>> = Append(p, x) /\ Len(p) \in Nat
  <1>1. p \in Seq(SUBSET RowsOf(t))
    BY DEF PagesOf
  <1>2. PICK q : q = Append(p, x)
    OBVIOUS
  <1>3. /\ q \in Seq(SUBSET RowsOf(t)) /\ Len(q) = Len(p) + 1 /\ Len(p) \in Nat
        /\ q[Len(p) + 1] = x /\ \A n \in 1..Len(p) : q[n] = p[n]
    BY <1>1, <1>2
  <1>4. \A y : y \in Range(q) <=> y \in Range(p) \/ y = x
    <2>1. DOMAIN q = 1..Len(p)+1 /\ DOMAIN p = 1..Len(p)
      BY <1>1, <1>3
    <2>2. \A y : y \in Range(q) <=> \E n \in 1..Len(p)+1 : q[n] = y
      BY <2>1 DEF Range
    <2>3. \A y : y \in Range(p) <=> \E n \in 1..Len(p) : p[n] = y
      BY <2>1 DEF Range
    <2>4. \A n : n \in 1..Len(p)+1 <=> n \in 1..Len(p) \/ n = Len(p) + 1
      BY <1>3
    <2> QED
      BY <1>3, <2>2, <2>3, <2>4
  <1>5. \A l : l \in Ids(q) <=> l \in Ids(p) \/ \E r \in x : r.id = l
    BY <1>4 DEF Ids
  <1>6. p \o <<x>> = q
    BY <1>1, <1>2
  <1>7. q # <<>>
    BY <1>3
  <1> QED
    BY <1>2, <1>3, <1>5, <1>6, <1>7 DEF PagesOf

LEMMA PageRead ==
    ASSUME LeadInv, NEW t \in Tabs, NEW n \in Nat, NEW p, NEW j, UpTo(t, p, j, n),
           p \in PagesOf(t), n = Len(p)
    PROVE  LET x == ListLeads(t, n + 1) IN
           /\ x \in SUBSET RowsOf(t) /\ Append(p, x) \in PagesOf(t)
           /\ UpTo(t, Append(p, x), j, n + 1)
           /\ ~HasNext(t, n + 1) => AllOf(t, Append(p, x), j)
  <1> DEFINE x == ListLeads(t, n + 1)
             m == (n + 1) * PageSize
  <1>1. (n + 1 - 1) * PageSize = n * PageSize /\ n * PageSize \in Nat /\ m \in Nat
    <2>1. PageSize \in Nat /\ n + 1 - 1 = n /\ n + 1 \in Nat
      BY ReviewAssumption
    <2> QED
      BY <2>1
  <1>2. x = {[id |-> l, status |-> lead[l].status] :
                l \in {l \in Stored(t) : n * PageSize < Rank(l, t) /\ Rank(l, t) <= m}}
    BY <1>1 DEF ListLeads
  <1> HIDE DEF x, m
  <1>3. x \in SUBSET RowsOf(t)
    <2> SUFFICES ASSUME NEW r \in x
                 PROVE  r \in RowsOf(t)
      OBVIOUS
    <2>1. PICK l \in Stored(t) : r = [id |-> l, status |-> lead[l].status]
      BY <1>2
    <2>2. l \in Leads /\ lead[l].status \in TAB_STATUS[t]
      BY DEF Stored, InTab
    <2> QED
      BY <2>1, <2>2 DEF RowsOf
  <1>4. \A l \in Leads : InTab(l, t) /\ n * PageSize < Rank(l, t) /\ Rank(l, t) <= m
           => \E r \in x : r.id = l
    <2> SUFFICES ASSUME NEW l \in Leads, InTab(l, t), n * PageSize < Rank(l, t), Rank(l, t) <= m
                 PROVE  \E r \in x : r.id = l
      OBVIOUS
    <2>1. l \in {k \in Stored(t) : n * PageSize < Rank(k, t) /\ Rank(k, t) <= m}
      BY DEF Stored
    <2>2. [id |-> l, status |-> lead[l].status] \in x
      BY <1>2, <2>1
    <2> QED
      BY <2>2
  <1>5. UpTo(t, Append(p, x), j, n + 1)
    <2> SUFFICES ASSUME NEW l \in Leads, InTab(l, t)
                 PROVE  l \in Ids(Append(p, x)) \/ l \in j \/ Rank(l, t) > m
      BY DEF UpTo, m
    <2>1. l \in Ids(p) \/ l \in j \/ Rank(l, t) > n * PageSize
      BY DEF UpTo
    <2>2. Rank(l, t) \in Nat
      BY RanksAre
    <2> QED
      BY <1>1, <1>3, <1>4, <2>1, <2>2, IdsAppend
  <1>6. ASSUME ~HasNext(t, n + 1)
        PROVE  AllOf(t, Append(p, x), j)
    <2> SUFFICES ASSUME NEW l \in Leads, InTab(l, t)
                 PROVE  l \in Ids(Append(p, x)) \/ l \in j
      BY DEF AllOf
    <2>1. Cardinality(Stored(t)) \in Nat /\ Rank(l, t) \in Nat /\ Rank(l, t) <= Cardinality(Stored(t))
      BY RanksAre
    <2>2. Cardinality(Stored(t)) <= m
      BY <1>1, <1>6, <2>1 DEF HasNext, m
    <2>3. l \in Ids(Append(p, x)) \/ l \in j \/ Rank(l, t) > m
      BY <1>5 DEF UpTo, m
    <2> QED
      BY <1>1, <2>1, <2>2, <2>3
  <1> QED
    BY <1>3, <1>5, <1>6, IdsAppend DEF x

-----------------------------------------------------------------------------
(* All lists.                                                                *)

LEMMA KeptParts ==
    ASSUME NEW ls, Kept(ls)
    PROVE  ls = [t \in Tabs |-> ls[t]] /\ \A t \in Tabs : Fits(ls[t], t)
  BY DEF Kept, Fits

LEMMA KeptFrom ==
    ASSUME NEW ls, ls = [t \in Tabs |-> ls[t]], \A t \in Tabs : Fits(ls[t], t)
    PROVE  Kept(ls)
  BY DEF Kept, Fits

With(ls, t, q) == [ls EXCEPT ![t] = q]

LEMMA OneList ==
    ASSUME NEW ls, Kept(ls), NEW t \in Tabs, NEW q, Fits(q, t)
    PROVE  /\ Kept(With(ls, t, q)) /\ With(ls, t, q)[t] = q
           /\ \A u \in Tabs \ {t} : With(ls, t, q)[u] = ls[u]
  <1>1. ls = [u \in Tabs |-> ls[u]] /\ \A u \in Tabs : Fits(ls[u], u)
    BY KeptParts
  <1>5. PICK new : new = With(ls, t, q)
    OBVIOUS
  <1>2. new = [u \in Tabs |-> new[u]] /\ new[t] = q /\ \A u \in Tabs \ {t} : new[u] = ls[u]
    BY <1>1, <1>5 DEF With
  <1>3. \A u \in Tabs : Fits(new[u], u)
    BY <1>1, <1>2
  <1>4. Kept(new)
    BY <1>2, <1>3, KeptFrom
  <1> QED
    BY <1>2, <1>4, <1>5

LEMMA StaleKept ==
    ASSUME NEW ls, Kept(ls)
    PROVE  /\ Kept(Stale(ls))
           /\ \A t \in Tabs : Fits(Stale(ls)[t], t) /\ Stale(ls)[t].fetch = ls[t].fetch
  <1>1. PICK new : new = Stale(ls)
    OBVIOUS
  <1>2. new = [t \in Tabs |-> new[t]]
    BY <1>1 DEF Stale
  <1>3. ASSUME NEW t \in Tabs
        PROVE  Fits(new[t], t) /\ new[t].fetch = ls[t].fetch
    <2>1. PICK q : q = ls[t]
      OBVIOUS
    <2>2. Fits(q, t) /\ q \in ListsOf(t)
      BY <2>1, KeptParts DEF Fits
    <2>3. new[t] = [q EXCEPT !.invalid = q.pages # <<>>]
      BY <1>1, <2>1 DEF Stale
    <2>4. /\ new[t] \in ListsOf(t) /\ new[t].pages = q.pages /\ new[t].next = q.next
          /\ new[t].joined = q.joined /\ new[t].fetch = q.fetch /\ new[t].shifted = q.shifted
          /\ new[t].dirty = q.dirty
      <3> DEFINE b == q.pages # <<>>
      <3>1. b \in BOOLEAN /\ new[t] = [q EXCEPT !.invalid = b]
        BY <2>3
      <3> HIDE DEF b
      <3> QED
        BY <2>2, <3>1 DEF ListsOf
    <2> QED
      BY <2>1, <2>2, <2>4, Marked
  <1> QED
    BY <1>1, <1>2, <1>3, KeptFrom

LEMMA RefetchKept ==
    ASSUME Kept(list), tab \in Tabs, NEW new, new = [Stale(list) EXCEPT ![tab] = Refetched(@)]
    PROVE  /\ Kept(new)
           /\ \A t \in Tabs : list[t].fetch.kind # "idle" => new[t].fetch.kind # "idle"
  <1>1. PICK ls : ls = Stale(list)
    OBVIOUS
  <1>2. Kept(ls) /\ \A t \in Tabs : Fits(ls[t], t) /\ ls[t].fetch = list[t].fetch
    BY <1>1, StaleKept
  <1>3. PICK q : q = Refetched(ls[tab])
    OBVIOUS
  <1>4. Fits(q, tab) /\ q.fetch.kind # "idle"
    BY <1>2, <1>3, RefetchedFits
  <1>5. new = [ls EXCEPT ![tab] = q]
    BY <1>1, <1>2, <1>3, KeptParts
  <1>6. Kept(new) /\ new[tab] = q /\ \A u \in Tabs \ {tab} : new[u] = ls[u]
    <2>1. PICK u \in Tabs : u = tab
      OBVIOUS
    <2>2. Kept(ls) /\ Fits(q, u)
      BY <1>2, <1>4, <2>1
    <2>3. Kept(With(ls, u, q)) /\ With(ls, u, q)[u] = q
          /\ \A v \in Tabs \ {u} : With(ls, u, q)[v] = ls[v]
      BY <2>2, OneList
    <2>4. new = With(ls, u, q)
      BY <1>5, <2>1 DEF With
    <2> QED
      BY <2>1, <2>3, <2>4
  <1> QED
    BY <1>2, <1>4, <1>6

LEMMA GoneOn ==
    ASSUME tab \in Tabs, NEW t, NEW ls, Kept(ls)
    PROVE  /\ Kept(GoesOn(t, ls))
           /\ \A u \in Tabs : ls[u].fetch.kind # "idle" => GoesOn(t, ls)[u].fetch.kind # "idle"
  <1>1. CASE ~(t \in awaiting /\ ls[tab].next)
    BY <1>1 DEF GoesOn
  <1>2. CASE t \in awaiting /\ ls[tab].next
    <2> DEFINE q == ls[tab]
               b == q.shifted \/ q.dirty
               p == [q EXCEPT !.shifted = b]
    <2>1. Fits(q, tab) /\ q \in ListsOf(tab) /\ q.next
      BY <1>2, KeptParts DEF Fits
    <2>2. b \in BOOLEAN /\ (q.shifted => b) /\ (q.dirty => b)
      OBVIOUS
    <2>3. PICK g : g = GoesOn(t, ls)
      OBVIOUS
    <2>4. g = [ls EXCEPT ![tab] = [FetchNext(q) EXCEPT !.shifted = b]]
      BY <1>2, <2>3 DEF GoesOn
    <2> HIDE DEF b
    <2>5. /\ p \in ListsOf(tab) /\ p.pages = q.pages /\ p.next = q.next /\ p.joined = q.joined
          /\ p.fetch = q.fetch /\ p.shifted = b /\ p.dirty = q.dirty
      BY <2>1, <2>2 DEF ListsOf
    <2>6. Fits(p, tab)
      BY <2>1, <2>2, <2>5, Marked
    <2>7. [FetchNext(q) EXCEPT !.shifted = b] = FetchNext(p)
      <3> DEFINE f == [NoFetch EXCEPT !.kind = "next"]
      <3>1. FetchNext(q) = [q EXCEPT !.fetch = f] /\ FetchNext(p) = [p EXCEPT !.fetch = f]
        BY <2>1, <2>5 DEF FetchNext, Started
      <3> HIDE DEF f
      <3>2. [[q EXCEPT !.fetch = f] EXCEPT !.shifted = b] = [p EXCEPT !.fetch = f]
        BY <2>1 DEF ListsOf
      <3> QED
        BY <3>1, <3>2
    <2> HIDE DEF p, q
    <2>8. PICK r : r = FetchNext(p)
      OBVIOUS
    <2>9. Fits(r, tab) /\ (q.fetch.kind # "idle" => r.fetch.kind # "idle")
      BY <2>2, <2>5, <2>6, <2>8, NextStarted
    <2>10. g = [ls EXCEPT ![tab] = r]
      BY <2>4, <2>7, <2>8
    <2>11. Kept(g) /\ g[tab] = r /\ \A u \in Tabs \ {tab} : g[u] = ls[u]
      <3>1. PICK u \in Tabs : u = tab
        OBVIOUS
      <3>2. Fits(r, u)
        BY <2>9, <3>1
      <3>3. Kept(With(ls, u, r)) /\ With(ls, u, r)[u] = r
            /\ \A v \in Tabs \ {u} : With(ls, u, r)[v] = ls[v]
        BY <3>2, OneList
      <3>4. g = With(ls, u, r)
        BY <2>10, <3>1 DEF With
      <3> QED
        BY <3>1, <3>3, <3>4
    <2> QED
      BY <2>3, <2>9, <2>11 DEF q
  <1> QED
    BY <1>1, <1>2

-----------------------------------------------------------------------------
(* Leads that move under the lists.                                          *)

LEMMA RankPositive ==
    ASSUME NEW S, S \subseteq Leads, NEW l \in S
    PROVE  Cardinality({k \in S : k <= l}) \in Nat /\ Cardinality({k \in S : k <= l}) >= 1
  <1> DEFINE T == {k \in S : k <= l}
  <1>1. l \in T /\ T \subseteq Leads
    <2>1. l \in Leads
      OBVIOUS
    <2>2. l <= l
      BY <2>1 DEF Leads
    <2> QED
      BY <2>2
  <1> HIDE DEF T
  <1>2. IsFiniteSet(T) /\ Cardinality(T) \in Nat
    BY <1>1, FiniteLeads
  <1>3. Cardinality(T) # 0
    BY <1>1, <1>2, FS_EmptySet
  <1> QED
    BY <1>2, <1>3 DEF T

LEMMA MovedKept ==
    ASSUME Kept(list), NEW to, Store(to)
    PROVE  Kept(list)' /\ \A t \in Tabs : list'[t].fetch.kind = list[t].fetch.kind
  <1>1. lead' = to /\ list' = Moved(to)
    BY DEF Store
  <1>2. list' = [t \in Tabs |-> list'[t]]
    BY <1>1, Zenon DEF Moved
  <1>3. ASSUME NEW t \in Tabs
        PROVE  Fits(list[t], t)' /\ list'[t].fetch.kind = list[t].fetch.kind
    <2>1. PICK q : q = list[t]
      OBVIOUS
    <2>2. Fits(q, t) /\ q \in ListsOf(t) /\ q.fetch \in FetchesOf(t)
      BY <2>1, KeptParts, ListParts DEF Fits
    <2>20. PICK leaves \in BOOLEAN : leaves = \E l \in Leads : InTab(l, t) /\ to[l].status \notin TAB_STATUS[t]
      OBVIOUS
    <2>21. PICK comes : comes = {l \in Leads : ~InTab(l, t) /\ to[l].status \in TAB_STATUS[t]}
      OBVIOUS
    <2> DEFINE behind == q.pages # <<>>
               late == q.fetch.got # <<>>
               sh == q.shifted \/ (behind /\ leaves /\ (~q.dirty \/ q.fetch.kind = "next"))
               jo == q.joined \cup IF behind THEN comes ELSE {}
               fsh == q.fetch.shifted \/ (late /\ leaves)
               fjo == q.fetch.joined \cup IF late THEN comes ELSE {}
               f == [q.fetch EXCEPT !.shifted = fsh, !.joined = fjo]
               p == [q EXCEPT !.shifted = sh, !.joined = jo, !.fetch = f]
    <2>3. list'[t] = p
      BY <1>1, <2>1, <2>20, <2>21, Zenon DEF Moved
    <2>4. /\ sh \in BOOLEAN /\ fsh \in BOOLEAN /\ jo \in SUBSET Leads /\ fjo \in SUBSET Leads
      BY <2>2, <2>21, ListParts
    <2>5. /\ ~sh => ~q.shifted /\ ~(behind /\ leaves /\ (~q.dirty \/ q.fetch.kind = "next"))
          /\ ~fsh => ~q.fetch.shifted /\ ~(late /\ leaves)
          /\ q.joined \subseteq jo /\ (behind => comes \subseteq jo)
          /\ q.fetch.joined \subseteq fjo /\ (late => comes \subseteq fjo)
      OBVIOUS
    <2>6. \A l \in Leads : /\ InTab(l, t)' <=> to[l].status \in TAB_STATUS[t]
                           /\ InTab(l, t)' => InTab(l, t) \/ l \in comes
      BY <1>1, <2>21 DEF InTab
    <2>7. ~leaves => Stored(t) \subseteq Stored(t)'
      BY <2>6, <2>20 DEF Stored
    <2> HIDE DEF sh, jo, fsh, fjo
    <2>8. /\ f \in FetchesOf(t) /\ f.kind = q.fetch.kind /\ f.got = q.fetch.got
          /\ f.shifted = fsh /\ f.joined = fjo
      BY <2>2, <2>4 DEF FetchesOf
    <2> HIDE DEF f
    <2>9. /\ p \in ListsOf(t) /\ p.pages = q.pages /\ p.next = q.next /\ p.dirty = q.dirty
          /\ p.shifted = sh /\ p.joined = jo /\ p.fetch = f
      BY <2>2, <2>4, <2>8 DEF ListsOf
    <2> HIDE DEF p
    <2>10. ListFits(p)
      BY <2>2, <2>8, <2>9 DEF Fits, ListFits
    <2>11. q.pages # <<>> /\ ~sh /\ ~q.next => AllOf(t, q.pages, jo)'
      <3> SUFFICES ASSUME q.pages # <<>>, ~sh, ~q.next, NEW l \in Leads, InTab(l, t)'
                   PROVE  l \in Ids(q.pages) \/ l \in jo
        BY DEF AllOf, Ids
      <3>1. AllOf(t, q.pages, q.joined)
        BY <2>2, <2>5 DEF Fits, Covers
      <3> QED
        BY <2>5, <2>6, <3>1 DEF AllOf
    <2>12. ASSUME NEW pages, NEW j, NEW k, j \subseteq k, comes \subseteq k, ~leaves,
                  NEW n \in Nat, UpTo(t, pages, j, n)
           PROVE  UpTo(t, pages, k, n)'
      <3> SUFFICES ASSUME NEW l \in Leads, InTab(l, t)'
                   PROVE  l \in Ids(pages) \/ l \in k \/ Rank(l, t)' > n * PageSize
        BY DEF UpTo, Ids
      <3>1. CASE l \in comes
        BY <2>12, <3>1
      <3>2. CASE InTab(l, t)
        <4>1. l \in Ids(pages) \/ l \in j \/ Rank(l, t) > n * PageSize
          BY <2>12, <3>2 DEF UpTo
        <4>2. Rank(l, t) \in Nat /\ Rank(l, t)' \in Nat /\ Rank(l, t) <= Rank(l, t)'
          BY <2>7, <2>12, RanksAre, RanksGrow
        <4>3. n * PageSize \in Nat
          BY ReviewAssumption
        <4> QED
          BY <2>12, <4>1, <4>2, <4>3
      <3> QED
        BY <2>6, <3>1, <3>2
    <2>13. q.pages # <<>> /\ ~sh /\ q.next /\ ~(q.dirty /\ q.fetch.kind # "next")
              => UpTo(t, q.pages, jo, Len(q.pages))'
      <3> SUFFICES ASSUME q.pages # <<>>, ~sh, q.next, ~(q.dirty /\ q.fetch.kind # "next")
                   PROVE  UpTo(t, q.pages, jo, Len(q.pages))'
        OBVIOUS
      <3>1. UpTo(t, q.pages, q.joined, Len(q.pages)) /\ ~leaves
        BY <2>2, <2>5 DEF Fits, Covers
      <3>2. Len(q.pages) \in Nat
        BY <2>2, ListParts DEF PagesOf
      <3> QED
        BY <2>5, <2>12, <3>1, <3>2
    <2>14. q.fetch.kind = "all" /\ ~fsh => UpTo(t, q.fetch.got, fjo, Len(q.fetch.got))'
      <3> SUFFICES ASSUME q.fetch.kind = "all", ~fsh
                   PROVE  UpTo(t, q.fetch.got, fjo, Len(q.fetch.got))'
        OBVIOUS
      <3>1. CASE q.fetch.got = <<>>
        <4> SUFFICES ASSUME NEW l \in Leads, InTab(l, t)'
                     PROVE  Rank(l, t)' > 0 * PageSize
          BY <3>1 DEF UpTo, Ids
        <4>1. l \in Stored(t)' /\ Stored(t)' \subseteq Leads
          BY DEF Stored
        <4>2. Rank(l, t)' \in Nat /\ Rank(l, t)' >= 1
          BY <4>1, RankPositive DEF Rank
        <4>3. 0 * PageSize = 0
          BY ReviewAssumption
        <4> QED
          BY <4>2, <4>3
      <3>2. CASE q.fetch.got # <<>>
        <4>1. UpTo(t, q.fetch.got, q.fetch.joined, Len(q.fetch.got)) /\ ~leaves
          BY <2>2, <2>5, <3>2 DEF Fits, Covers
        <4>2. Len(q.fetch.got) \in Nat
          BY <2>2, ListParts DEF PagesOf
        <4> QED
          BY <2>5, <2>12, <3>2, <4>1, <4>2
      <3> QED
        BY <3>1, <3>2
    <2>15. Covers(p, t)'
      BY <2>8, <2>9, <2>11, <2>13, <2>14 DEF Covers
    <2> QED
      BY <2>1, <2>3, <2>8, <2>9, <2>10, <2>15 DEF Fits
  <1> QED
    BY <1>2, <1>3 DEF Kept, Fits

-----------------------------------------------------------------------------
(* What a decision writes.                                                   *)

LeadRecord == [status : LeadStatuses, app : AppStatuses]

Unqueued(y) == y.status = "approved" /\ y.app \in {"none", "cancelled"}
Orphaned(y) == y.app = "queued" /\ y.status # "approved"

LEMMA WritesAre ==
    ASSUME NEW x \in LeadRecord, NEW d \in Decisions, ~Refused(x, d), NEW w, w = Writes(x, d)
    PROVE  /\ Len(w) \in {1, 2} /\ w[1] \in LeadRecord /\ w[Len(w)] \in LeadRecord
           /\ w[Len(w)] = x \/ ~Unqueued(w[Len(w)])
           /\ Orphaned(w[Len(w)]) => Orphaned(x)
           /\ Len(w) = 2 => ~Orphaned(w[1])
           /\ \A t \in Tabs : TakesOut(d, t) => w[Len(w)].status \notin TAB_STATUS[t]
  <1>1. x.status \in LeadStatuses /\ x.app \in AppStatuses
    BY DEF LeadRecord
  <1> DEFINE Ends(y) == /\ y \in LeadRecord /\ (y = x \/ ~Unqueued(y)) /\ (Orphaned(y) => Orphaned(x))
                        /\ \A t \in Tabs : TakesOut(d, t) => y.status \notin TAB_STATUS[t]
             Begins(y) == y \in LeadRecord /\ ~Orphaned(y)
  <1>2. SUFFICES (\E y : w = <<y>> /\ Ends(y)) \/ (\E y, z : w = <<y, z>> /\ Begins(y) /\ Ends(z))
    <2>1. CASE \E y : w = <<y>> /\ Ends(y)
      <3>1. PICK y : w = <<y>> /\ Ends(y)
        BY <2>1
      <3>2. Len(w) = 1 /\ w[1] = y
        BY <3>1
      <3> QED
        BY <3>1, <3>2
    <2>2. CASE \E y, z : w = <<y, z>> /\ Begins(y) /\ Ends(z)
      <3>1. PICK y, z : w = <<y, z>> /\ Begins(y) /\ Ends(z)
        BY <2>2
      <3>2. Len(w) = 2 /\ w[1] = y /\ w[2] = z
        BY <3>1
      <3> QED
        BY <3>1, <3>2
    <2> QED
      BY <1>2, <2>1, <2>2
  <1>3. CASE d = "approve" /\ x.status \in {"approved", "applying"}
    <2>1. w = <<x>>
      BY <1>3 DEF Writes
    <2>2. Ends(x)
      BY <1>3, TabsHold DEF TakesOut
    <2> QED
      BY <2>1, <2>2
  <1>4. CASE d = "approve" /\ x.status \notin {"approved", "applying"}
    <2> DEFINE y == [x EXCEPT !.status = "approved"]
               z == [status |-> "approved", app |-> QueueApplication(x.app)]
    <2>1. w = <<y, z>>
      BY <1>4 DEF Writes
    <2>2. QueueApplication(x.app) \in AppStatuses \ {"none", "cancelled"}
      BY <1>1 DEF QueueApplication, AppStatuses
    <2>3. Begins(y)
      BY <1>1, TabsHold DEF LeadRecord, Orphaned
    <2>4. Ends(z)
      BY <1>4, <2>2, TabsHold DEF LeadRecord, Orphaned, Unqueued, TakesOut
    <2> QED
      BY <2>1, <2>3, <2>4
  <1>5. CASE d = "dismiss" /\ x.app = "none"
    <2> DEFINE y == [x EXCEPT !.status = "dismissed"]
    <2>1. w = <<y>>
      BY <1>5 DEF Writes
    <2>2. Ends(y)
      BY <1>1, <1>5, TabsHold DEF LeadRecord, Orphaned, Unqueued, TakesOut
    <2> QED
      BY <2>1, <2>2
  <1>6. CASE d = "dismiss" /\ x.app # "none"
    <2> DEFINE y == [x EXCEPT !.app = "cancelled"]
               z == [status |-> "dismissed", app |-> "cancelled"]
    <2>1. w = <<y, z>>
      BY <1>6 DEF Writes
    <2>2. Begins(y)
      BY <1>1 DEF LeadRecord, Orphaned, AppStatuses
    <2>3. Ends(z)
      BY <1>6, TabsHold DEF LeadRecord, Orphaned, Unqueued, TakesOut, AppStatuses
    <2> QED
      BY <2>1, <2>2, <2>3
  <1>7. CASE d = "reset" /\ x.status \in {"dismissed", "expired"}
    <2> DEFINE y == [x EXCEPT !.status = "new"]
    <2>1. w = <<y>>
      BY <1>7 DEF Writes
    <2>2. Ends(y)
      BY <1>1, <1>7, TabsHold DEF LeadRecord, Orphaned, Unqueued, TakesOut
    <2> QED
      BY <2>1, <2>2
  <1>8. CASE d = "reset" /\ x.status = "approved"
    <2> DEFINE y == [x EXCEPT !.app = "none"]
               z == [status |-> "new", app |-> "none"]
    <2>1. w = <<y, z>>
      BY <1>8 DEF Writes
    <2>2. Begins(y)
      BY <1>1, <1>8 DEF LeadRecord, Orphaned, AppStatuses
    <2>3. Ends(z)
      BY <1>8, TabsHold DEF LeadRecord, Orphaned, Unqueued, TakesOut, AppStatuses
    <2> QED
      BY <2>1, <2>2, <2>3
  <1>9. CASE d = "reset" /\ x.status \notin {"dismissed", "expired", "approved"}
    <2>1. w = <<x>>
      BY <1>9 DEF Writes
    <2>2. Ends(x)
      BY <1>9, TabsHold DEF TakesOut
    <2> QED
      BY <2>1, <2>2
  <1> QED
    BY <1>3, <1>4, <1>5, <1>6, <1>7, <1>8, <1>9 DEF Decisions

LEMMA StoreOne ==
    ASSUME LeadInv, Kept(list), AwaitingInv, NEW l \in Leads, NEW y \in LeadRecord,
           Store([lead EXCEPT ![l] = y]), awaiting' = awaiting
    PROVE  /\ LeadInv' /\ Kept(list)' /\ AwaitingInv'
           /\ lead'[l] = y /\ \A k \in Leads \ {l} : lead'[k] = lead[k]
  <1>1. PICK to : to = [lead EXCEPT ![l] = y]
    OBVIOUS
  <1>2. Store(to) /\ lead' = to
    BY <1>1 DEF Store
  <1>3. Kept(list)' /\ \A t \in Tabs : list'[t].fetch.kind = list[t].fetch.kind
    BY <1>2, MovedKept
  <1>4. LeadInv' /\ lead'[l] = y /\ \A k \in Leads \ {l} : lead'[k] = lead[k]
    BY <1>1, <1>2 DEF LeadInv, LeadRecord
  <1>5. AwaitingInv'
    BY <1>3 DEF AwaitingInv
  <1> QED
    BY <1>3, <1>4, <1>5

LEMMA QueueOne ==
    ASSUME QueueExplained, NEW l \in Leads,
           \A k \in Leads \ {l} : lead'[k] = lead[k] /\ (k \in cut => k \in cut') /\ (k \in unseen => k \in unseen'),
           Unqueued(lead'[l]) => l \in cut', Orphaned(lead'[l]) => l \in unseen'
    PROVE  QueueExplained'
  BY DEF QueueExplained, Unqueued, Orphaned

-----------------------------------------------------------------------------
(* Requests, and the leads they hide.                                        *)

\* Nothing happens to lead l, nor to what is under way on it.
Unmoved(l) ==
    /\ hiddenIn'[l] = hiddenIn[l] /\ l \notin excused /\ lead'[l] = lead[l]
    /\ \A k \in Requests : /\ On(k, l)' <=> On(k, l)
                           /\ On(k, l) => /\ req'[k].kind = req[k].kind /\ req'[k].pc = req[k].pc
                                          /\ req'[k].steps = req[k].steps
                                          /\ l \in req[k].todo \cup req[k].failed
                                                => l \in req'[k].todo \cup req'[k].failed

LEMMA UnmovedStays ==
    ASSUME NEW l \in Leads, HiddenAt(l), Unmoved(l)
    PROVE  HiddenAt(l)'
  BY DEF HiddenAt, Unmoved, InTab

\* Nothing happens to any lead or request.
LEMMA SameHidden ==
    ASSUME HiddenInv, lead' = lead, req' = req, hiddenIn' = hiddenIn, excused' = excused
    PROVE  HiddenInv'
  BY DEF HiddenInv, HiddenAt, On, InTab

LEMMA NoMutationFits == MutationFits(NoMutation) /\ NoMutation.pc = "idle"
  <1>1. <<>> \in Seq(Decisions)
    OBVIOUS
  <1> QED
    BY <1>1 DEF MutationFits, NoMutation, Mutations

LEMMA OneMutation ==
    ASSUME MutationsInv, NEW i \in Requests, NEW r, MutationFits(r), req' = [req EXCEPT ![i] = r]
    PROVE  MutationsInv' /\ req'[i] = r /\ \A k \in Requests \ {i} : req'[k] = req[k]
  <1>1. req'[i] = r /\ \A k \in Requests \ {i} : req'[k] = req[k]
    BY DEF MutationsInv
  <1>2. req' = [k \in Requests |-> req'[k]]
    BY DEF MutationsInv
  <1> QED
    BY <1>1, <1>2 DEF MutationsInv

LEMMA MutationParts ==
    ASSUME MutationsInv, NEW i \in Requests
    PROVE  /\ MutationFits(req[i]) /\ req[i] \in Mutations
           /\ req[i].pc \in {"idle", "sent", "orphan"} /\ req[i].kind \in {"decide", "undo"}
           /\ req[i].steps \in Seq(Decisions) /\ req[i].ids \in SUBSET Leads
           /\ req[i].todo \in SUBSET Leads /\ req[i].failed \in SUBSET Leads
           /\ req[i].todo \subseteq req[i].ids /\ req[i].failed \subseteq req[i].ids
           /\ req[i].pc # "idle" => req[i].steps # <<>> /\ Head(req[i].steps) \in Decisions
           /\ req[i].todo # {} => req[i].pc # "idle"
  <1>1. MutationFits(req[i]) /\ req[i] \in Mutations
    BY DEF MutationsInv, MutationFits
  <1>2. req[i].steps \in Seq(Decisions)
    BY <1>1 DEF Mutations
  <1>3. req[i].steps # <<>> => Head(req[i].steps) \in Decisions
    BY <1>2
  <1> QED
    BY <1>1, <1>2, <1>3 DEF MutationFits, Mutations

LEMMA TriedIs ==
    ASSUME MutationsInv, NEW i \in Requests, NEW l, NEW refused \in BOOLEAN, Tried(i, l, refused), l \in req[i].todo
    PROVE  /\ MutationsInv' /\ \A k \in Requests \ {i} : req'[k] = req[k]
           /\ req'[i].pc = req[i].pc /\ req'[i].kind = req[i].kind /\ req'[i].steps = req[i].steps
           /\ req'[i].ids = req[i].ids /\ req'[i].todo = req[i].todo \ {l}
           /\ req[i].failed \subseteq req'[i].failed /\ (refused => l \in req'[i].failed)
  <1> DEFINE td == req[i].todo \ {l}
             fl == req[i].failed \cup IF refused THEN {l} ELSE {}
             r == [req[i] EXCEPT !.todo = td, !.failed = fl]
  <1>1. req' = [req EXCEPT ![i] = r]
    BY DEF Tried
  <1>2. req[i] \in Mutations /\ td \in SUBSET Leads /\ fl \in SUBSET Leads /\ td \cup fl \subseteq req[i].ids
        /\ (td # {} => req[i].todo # {}) /\ req[i].failed \subseteq fl /\ (refused => l \in fl)
    BY MutationParts
  <1> HIDE DEF fl
  <1>3. /\ r \in Mutations /\ r.pc = req[i].pc /\ r.kind = req[i].kind /\ r.steps = req[i].steps
        /\ r.ids = req[i].ids /\ r.todo = td /\ r.failed = fl
    BY <1>2 DEF Mutations
  <1> HIDE DEF r
  <1>4. MutationFits(r)
    BY <1>2, <1>3, MutationParts DEF MutationFits
  <1> QED
    BY <1>1, <1>2, <1>3, <1>4, OneMutation

-----------------------------------------------------------------------------
(* The server's steps.                                                       *)

LEMMA DecideLeadKeeps ==
    ASSUME ReviewInv, NEW i \in Requests, DecideLead(i)
    PROVE  ReviewInv'
  <1>1. PICK l : l = First(req[i].todo)
    OBVIOUS
  <1>2. PICK d : d = Head(req[i].steps)
    OBVIOUS
  <1>3. PICK refused \in BOOLEAN : refused = Refused(lead[l], d)
    <2>1. d \in Decisions
      BY <1>2, MutationParts DEF ReviewInv, DecideLead
    <2> QED
      BY <2>1 DEF Refused, Decisions
  <1>4. PICK w : w = Writes(lead[l], d)
    OBVIOUS
  <1>5. /\ req[i].todo # {} /\ Tried(i, l, refused)
        /\ IF refused THEN UNCHANGED <<lead, list, cut>>
           ELSE /\ Store([lead EXCEPT ![l] = w[Len(w)]])
                /\ cut' = IF w[Len(w)] = lead[l] THEN cut ELSE cut \ {l}
        /\ unscored' = unscored /\ preparing' = preparing /\ unseen' = unseen
        /\ tab' = tab /\ hiddenIn' = hiddenIn /\ undoStack' = undoStack /\ excused' = excused
        /\ awaiting' = awaiting
    BY <1>1, <1>2, <1>3, <1>4 DEF DecideLead, page
  <1>6. /\ MutationsInv /\ l \in req[i].todo /\ l \in Leads /\ On(i, l) /\ d \in Decisions
    BY <1>1, <1>2, <1>5, FirstIsIn, MutationParts DEF ReviewInv, On
  <1>7. lead[l] \in LeadRecord
    BY <1>6 DEF ReviewInv, LeadInv, LeadRecord
  <1>8. /\ MutationsInv' /\ \A k \in Requests \ {i} : req'[k] = req[k]
        /\ req'[i].pc = req[i].pc /\ req'[i].kind = req[i].kind /\ req'[i].steps = req[i].steps
        /\ req'[i].ids = req[i].ids /\ req'[i].todo = req[i].todo \ {l}
        /\ req[i].failed \subseteq req'[i].failed /\ (refused => l \in req'[i].failed)
    BY <1>5, <1>6, TriedIs
  <1>9. ~refused => /\ w[Len(w)] \in LeadRecord
                    /\ w[Len(w)] = lead[l] \/ ~Unqueued(w[Len(w)])
                    /\ Orphaned(w[Len(w)]) => Orphaned(lead[l])
                    /\ \A t \in Tabs : TakesOut(d, t) => w[Len(w)].status \notin TAB_STATUS[t]
    BY <1>3, <1>4, <1>6, <1>7, WritesAre
  <1>10. /\ LeadInv' /\ Kept(list)' /\ AwaitingInv' /\ \A k \in Leads \ {l} : lead'[k] = lead[k]
         /\ ~refused => lead'[l] = w[Len(w)]
    <2>1. CASE refused
      <3>1. lead' = lead /\ list' = list
        BY <1>5, <2>1
      <3>2. Kept(list)'
        BY <3>1, SameKept DEF ReviewInv
      <3> QED
        BY <1>5, <2>1, <3>1, <3>2 DEF ReviewInv, LeadInv, AwaitingInv
    <2>2. CASE ~refused
      <3>1. PICK y \in LeadRecord : y = w[Len(w)]
        BY <1>9, <2>2
      <3>2. Store([lead EXCEPT ![l] = y])
        BY <1>5, <2>2, <3>1
      <3> QED
        BY <1>5, <1>6, <3>1, <3>2, StoreOne DEF ReviewInv
    <2> QED
      BY <2>1, <2>2
  <1>11. QueueExplained'
    <2>1. CASE refused
      BY <1>5, <2>1 DEF ReviewInv, QueueExplained
    <2>2. CASE ~refused
      <3>1. cut' = IF lead'[l] = lead[l] THEN cut ELSE cut \ {l}
        BY <1>5, <1>10, <2>2
      <3>2. \A k \in Leads \ {l} : lead'[k] = lead[k] /\ (k \in cut => k \in cut') /\ (k \in unseen => k \in unseen')
        BY <1>5, <1>10, <3>1
      <3>3. Unqueued(lead'[l]) => l \in cut'
        BY <1>6, <1>9, <1>10, <2>2, <3>1 DEF ReviewInv, QueueExplained, Unqueued
      <3>4. Orphaned(lead'[l]) => l \in unseen'
        BY <1>5, <1>6, <1>9, <1>10, <2>2 DEF ReviewInv, QueueExplained, Orphaned
      <3> QED
        BY <1>6, <3>2, <3>3, <3>4, QueueOne DEF ReviewInv
    <2> QED
      BY <2>1, <2>2
  <1>12. ScreenInv'
    BY <1>5 DEF ReviewInv, ScreenInv
  <1>13. ASSUME NEW k \in Leads
         PROVE  HiddenAt(k)'
    <2> SUFFICES ASSUME hiddenIn[k] # "none", k \notin excused
                 PROVE  HiddenAt(k)'
      BY <1>5 DEF HiddenAt
    <2>1. HiddenAt(k)
      BY DEF ReviewInv, HiddenInv
    <2>2. CASE k # l
      <3>1. Unmoved(k)
        BY <1>5, <1>8, <1>10, <2>2 DEF Unmoved, On
      <3> QED
        BY <2>1, <3>1, UnmovedStays
    <2>3. CASE k = l
      <3>1. /\ req[i].kind = "decide" /\ req[i].pc = "sent" /\ TakesOut(d, hiddenIn[l])
            /\ \A n \in Requests : On(n, l) => n = i
        BY <1>2, <1>6, <2>1, <2>3 DEF HiddenAt
      <3>2. hiddenIn[l] \in Tabs
        BY <1>6, <2>3 DEF ReviewInv, ScreenInv
      <3>3. l \in req'[i].failed \/ ~InTab(l, hiddenIn[l])'
        BY <1>5, <1>8, <1>9, <1>10, <3>1, <3>2 DEF InTab
      <3>4. \A n \in Requests : On(n, l)' <=> On(n, l)
        BY <1>8 DEF On
      <3> QED
        BY <1>2, <1>5, <1>6, <1>8, <2>3, <3>1, <3>3, <3>4 DEF HiddenAt
    <2> QED
      BY <2>2, <2>3
  <1> QED
    BY <1>8, <1>10, <1>11, <1>12, <1>13 DEF ReviewInv, HiddenInv

LEMMA DecideLeadFailsKeeps ==
    ASSUME ReviewInv, NEW i \in Requests, DecideLeadFails(i)
    PROVE  ReviewInv'
  <1>1. PICK l : l = First(req[i].todo)
    OBVIOUS
  <1>2. PICK d : d = Head(req[i].steps)
    OBVIOUS
  <1>4. PICK w : w = Writes(lead[l], d)
    OBVIOUS
  <1>5. /\ req[i].todo # {} /\ ~Refused(lead[l], d) /\ Tried(i, l, TRUE)
        /\ \/ Len(w) = 2 /\ Store([lead EXCEPT ![l] = w[1]]) /\ cut' = cut \cup {l}
           \/ UNCHANGED <<lead, list, cut>>
        /\ unscored' = unscored /\ preparing' = preparing /\ unseen' = unseen
        /\ tab' = tab /\ hiddenIn' = hiddenIn /\ undoStack' = undoStack /\ excused' = excused
        /\ awaiting' = awaiting
    BY <1>1, <1>2, <1>4 DEF DecideLeadFails, page
  <1>6. /\ MutationsInv /\ l \in req[i].todo /\ l \in Leads /\ On(i, l) /\ d \in Decisions
    BY <1>1, <1>2, <1>5, FirstIsIn, MutationParts DEF ReviewInv, On
  <1>7. lead[l] \in LeadRecord
    BY <1>6 DEF ReviewInv, LeadInv, LeadRecord
  <1>8. /\ MutationsInv' /\ \A k \in Requests \ {i} : req'[k] = req[k]
        /\ req'[i].pc = req[i].pc /\ req'[i].kind = req[i].kind /\ req'[i].steps = req[i].steps
        /\ req'[i].ids = req[i].ids /\ req'[i].todo = req[i].todo \ {l}
        /\ req[i].failed \subseteq req'[i].failed /\ l \in req'[i].failed
    <2>1. PICK yes \in BOOLEAN : yes = TRUE
      OBVIOUS
    <2>2. Tried(i, l, yes)
      BY <1>5, <2>1
    <2> QED
      BY <1>6, <2>1, <2>2, TriedIs
  <1>9. w[1] \in LeadRecord /\ (Len(w) = 2 => ~Orphaned(w[1]))
    BY <1>4, <1>5, <1>6, <1>7, WritesAre
  <1>10. /\ LeadInv' /\ Kept(list)' /\ AwaitingInv' /\ \A k \in Leads \ {l} : lead'[k] = lead[k]
         /\ QueueExplained' /\ cut' \subseteq cut \cup {l}
    <2>1. CASE UNCHANGED <<lead, list, cut>>
      <3>1. lead' = lead /\ list' = list /\ cut' = cut
        BY <2>1
      <3>2. Kept(list)'
        BY <3>1, SameKept DEF ReviewInv
      <3>3. QueueExplained'
        BY <1>5, <3>1 DEF ReviewInv, QueueExplained
      <3> QED
        BY <1>5, <3>1, <3>2, <3>3 DEF ReviewInv, LeadInv, AwaitingInv
    <2>2. CASE Len(w) = 2 /\ Store([lead EXCEPT ![l] = w[1]]) /\ cut' = cut \cup {l}
      <3>1. PICK y \in LeadRecord : y = w[1]
        BY <1>9
      <3>2. Store([lead EXCEPT ![l] = y])
        BY <2>2, <3>1
      <3>3. /\ LeadInv' /\ Kept(list)' /\ AwaitingInv' /\ lead'[l] = y
            /\ \A k \in Leads \ {l} : lead'[k] = lead[k]
        BY <1>5, <1>6, <3>1, <3>2, StoreOne DEF ReviewInv
      <3>4. \A k \in Leads \ {l} : lead'[k] = lead[k] /\ (k \in cut => k \in cut') /\ (k \in unseen => k \in unseen')
        BY <1>5, <2>2, <3>3
      <3>5. (Unqueued(lead'[l]) => l \in cut') /\ (Orphaned(lead'[l]) => l \in unseen')
        BY <1>9, <2>2, <3>1, <3>3
      <3>6. QueueExplained'
        BY <1>6, <3>4, <3>5, QueueOne DEF ReviewInv
      <3> QED
        BY <2>2, <3>3, <3>6
    <2> QED
      BY <1>5, <2>1, <2>2
  <1>12. ScreenInv'
    BY <1>5, <1>6, <1>10 DEF ReviewInv, ScreenInv
  <1>13. ASSUME NEW k \in Leads
         PROVE  HiddenAt(k)'
    <2> SUFFICES ASSUME hiddenIn[k] # "none", k \notin excused
                 PROVE  HiddenAt(k)'
      BY <1>5 DEF HiddenAt
    <2>1. HiddenAt(k)
      BY DEF ReviewInv, HiddenInv
    <2>2. CASE k # l
      <3>1. Unmoved(k)
        BY <1>5, <1>8, <1>10, <2>2 DEF Unmoved, On
      <3> QED
        BY <2>1, <3>1, UnmovedStays
    <2>3. CASE k = l
      <3>1. /\ req[i].kind = "decide" /\ req[i].pc = "sent" /\ TakesOut(d, hiddenIn[l])
            /\ \A n \in Requests : On(n, l) => n = i
        BY <1>2, <1>6, <2>1, <2>3 DEF HiddenAt
      <3>4. \A n \in Requests : On(n, l)' <=> On(n, l)
        BY <1>8 DEF On
      <3> QED
        BY <1>2, <1>5, <1>6, <1>8, <2>3, <3>1, <3>4 DEF HiddenAt
    <2> QED
      BY <2>2, <2>3
  <1> QED
    BY <1>8, <1>10, <1>12, <1>13 DEF ReviewInv, HiddenInv

(* A dismissal that could not read the application.                          *)
LEMMA DismissUnseenKeeps ==
    ASSUME ReviewInv, NEW i \in Requests, DismissUnseen(i)
    PROVE  ReviewInv'
  <1>1. PICK l : l = First(req[i].todo)
    OBVIOUS
  <1>2. PICK d : d = Head(req[i].steps)
    OBVIOUS
  <1>3. PICK no \in BOOLEAN : no = FALSE
    OBVIOUS
  <1>4. PICK y : y = [lead[l] EXCEPT !.status = "dismissed"]
    OBVIOUS
  <1>5. /\ req[i].todo # {} /\ d = "dismiss" /\ Tried(i, l, no)
        /\ Store([lead EXCEPT ![l] = y])
        /\ unscored' = unscored /\ preparing' = preparing /\ cut' = cut /\ unseen' = unseen \cup {l}
        /\ tab' = tab /\ hiddenIn' = hiddenIn /\ undoStack' = undoStack /\ excused' = excused
        /\ awaiting' = awaiting
    BY <1>1, <1>2, <1>3, <1>4 DEF DismissUnseen, page
  <1>6. /\ MutationsInv /\ l \in req[i].todo /\ l \in Leads /\ On(i, l) /\ d \in Decisions
    BY <1>1, <1>2, <1>5, FirstIsIn, MutationParts DEF ReviewInv, On
  <1>7. y \in LeadRecord /\ y.status = "dismissed"
    <2>1. lead[l] \in LeadRecord
      BY <1>6 DEF ReviewInv, LeadInv, LeadRecord
    <2> QED
      BY <1>4, <2>1, TabsHold DEF LeadRecord
  <1>8. /\ MutationsInv' /\ \A k \in Requests \ {i} : req'[k] = req[k]
        /\ req'[i].pc = req[i].pc /\ req'[i].kind = req[i].kind /\ req'[i].steps = req[i].steps
        /\ req'[i].ids = req[i].ids /\ req'[i].todo = req[i].todo \ {l}
        /\ req[i].failed \subseteq req'[i].failed
    BY <1>5, <1>6, TriedIs
  <1>9. \A t \in Tabs : TakesOut(d, t) => y.status \notin TAB_STATUS[t]
    BY <1>5, <1>7, TabsHold DEF TakesOut
  <1>10. /\ LeadInv' /\ Kept(list)' /\ AwaitingInv' /\ \A k \in Leads \ {l} : lead'[k] = lead[k]
         /\ lead'[l] = y
    BY <1>5, <1>6, <1>7, StoreOne DEF ReviewInv
  <1>11. QueueExplained'
    <2>1. \A k \in Leads \ {l} : lead'[k] = lead[k] /\ (k \in cut => k \in cut') /\ (k \in unseen => k \in unseen')
      BY <1>5, <1>10
    <2>2. ~Unqueued(lead'[l]) /\ l \in unseen'
      BY <1>5, <1>7, <1>10 DEF Unqueued
    <2> QED
      BY <1>6, <2>1, <2>2, QueueOne DEF ReviewInv
  <1>12. ScreenInv'
    BY <1>5, <1>6 DEF ReviewInv, ScreenInv
  <1>13. ASSUME NEW k \in Leads
         PROVE  HiddenAt(k)'
    <2> SUFFICES ASSUME hiddenIn[k] # "none", k \notin excused
                 PROVE  HiddenAt(k)'
      BY <1>5 DEF HiddenAt
    <2>1. HiddenAt(k)
      BY DEF ReviewInv, HiddenInv
    <2>2. CASE k # l
      <3>1. Unmoved(k)
        BY <1>5, <1>8, <1>10, <2>2 DEF Unmoved, On
      <3> QED
        BY <2>1, <3>1, UnmovedStays
    <2>3. CASE k = l
      <3>1. /\ req[i].kind = "decide" /\ req[i].pc = "sent" /\ TakesOut(d, hiddenIn[l])
            /\ \A n \in Requests : On(n, l) => n = i
        BY <1>2, <1>6, <2>1, <2>3 DEF HiddenAt
      <3>2. hiddenIn[l] \in Tabs
        BY <1>6, <2>3 DEF ReviewInv, ScreenInv
      <3>3. ~InTab(l, hiddenIn[l])'
        BY <1>5, <1>9, <1>10, <3>1, <3>2 DEF InTab
      <3>4. \A n \in Requests : On(n, l)' <=> On(n, l)
        BY <1>8 DEF On
      <3> QED
        BY <1>2, <1>5, <1>6, <1>8, <2>3, <3>1, <3>3, <3>4 DEF HiddenAt
    <2> QED
      BY <2>2, <2>3
  <1> QED
    BY <1>8, <1>10, <1>11, <1>12, <1>13 DEF ReviewInv, HiddenInv

-----------------------------------------------------------------------------
(* The autopilot's steps.                                                    *)

LEMMA OtherKeeps ==
    ASSUME ReviewInv, NEW l \in Leads, NEW x \in LeadRecord, Other(l, x),
           UNION {unscored', preparing', cut', unseen'} \subseteq Leads,
           \A k \in Leads \ {l} : (k \in cut => k \in cut') /\ (k \in unseen => k \in unseen'),
           Unqueued(x) => l \in cut', Orphaned(x) => l \in unseen'
    PROVE  ReviewInv'
  <1>1. /\ Store([lead EXCEPT ![l] = x]) /\ awaiting' = awaiting /\ req' = req
        /\ tab' = tab /\ hiddenIn' = hiddenIn /\ undoStack' = undoStack
        /\ excused' = IF hiddenIn[l] = "none" THEN excused ELSE excused \cup {l}
    BY DEF Other
  <1>2. /\ LeadInv' /\ Kept(list)' /\ AwaitingInv'
        /\ lead'[l] = x /\ \A k \in Leads \ {l} : lead'[k] = lead[k]
    BY <1>1, StoreOne DEF ReviewInv
  <1>3. QueueExplained'
    BY <1>2, QueueOne DEF ReviewInv
  <1>4. excused' \subseteq Leads
    BY <1>1 DEF ReviewInv, ScreenInv
  <1>5. ScreenInv'
    <2>1. tab' \in Tabs /\ hiddenIn' \in [Leads -> Tabs \cup {"none"}] /\ undoStack' \in Seq(Undos)
      BY <1>1 DEF ReviewInv, ScreenInv
    <2> QED
      BY <1>4, <2>1 DEF ScreenInv
  <1>6. MutationsInv'
    BY <1>1 DEF ReviewInv, MutationsInv
  <1>7. ASSUME NEW k \in Leads
        PROVE  HiddenAt(k)'
    <2> SUFFICES ASSUME hiddenIn'[k] # "none", k \notin excused'
                 PROVE  HiddenAt(k)'
      BY DEF HiddenAt
    <2>1. k # l /\ hiddenIn[k] # "none" /\ k \notin excused
      BY <1>1
    <2>2. Unmoved(k)
      BY <1>1, <1>2, <2>1 DEF Unmoved, On
    <2> QED
      BY <2>2, UnmovedStays DEF ReviewInv, HiddenInv
  <1> QED
    BY <1>2, <1>3, <1>5, <1>6, <1>7 DEF ReviewInv, HiddenInv

LEMMA LeadTyped ==
    ASSUME ReviewInv, NEW l \in Leads
    PROVE  /\ lead[l] \in LeadRecord /\ lead[l].status \in LeadStatuses /\ lead[l].app \in AppStatuses
           /\ {unscored, preparing, cut, unseen, excused} \subseteq SUBSET Leads
           /\ Unqueued(lead[l]) => l \in cut
           /\ Orphaned(lead[l]) => l \in unseen
           /\ \A s \in LeadStatuses, a \in AppStatuses : [status |-> s, app |-> a] \in LeadRecord
           /\ \A s \in LeadStatuses : [lead[l] EXCEPT !.status = s] = [status |-> s, app |-> lead[l].app]
           /\ \A a \in AppStatuses : [lead[l] EXCEPT !.app = a] = [status |-> lead[l].status, app |-> a]
  <1>1. lead[l] \in LeadRecord
    BY DEF ReviewInv, LeadInv, LeadRecord
  <1>2. {unscored, preparing, cut, unseen, excused} \subseteq SUBSET Leads
    BY DEF ReviewInv, ScreenInv
  <1>3. (Unqueued(lead[l]) => l \in cut) /\ (Orphaned(lead[l]) => l \in unseen)
    BY DEF ReviewInv, QueueExplained, Unqueued, Orphaned
  <1> QED
    BY <1>1, <1>2, <1>3 DEF LeadRecord

\* What the autopilot may write of a lead: nothing that needs an excuse.
LEMMA AutopilotKeeps ==
    ASSUME ReviewInv, NEW l \in Leads, NEW s \in LeadStatuses, NEW a \in AppStatuses,
           Other(l, [status |-> s, app |-> a]),
           unscored' \subseteq Leads, preparing' \subseteq Leads,
           cut' \subseteq cut, cut \subseteq cut' \cup {l}, unseen \subseteq unseen', unseen' \subseteq unseen \cup {l},
           s = "approved" => a \notin {"none", "cancelled"} \/ (l \in cut /\ cut' = cut),
           a = "queued" => s = "approved" \/ l \in unseen'
    PROVE  ReviewInv'
  <1>1. PICK x : x = [status |-> s, app |-> a]
    OBVIOUS
  <1>2. x \in LeadRecord /\ x.status = s /\ x.app = a
    BY <1>1 DEF LeadRecord
  <1>3. UNION {unscored', preparing', cut', unseen'} \subseteq Leads
    BY LeadTyped
  <1>4. Other(l, x) /\ (Unqueued(x) => l \in cut') /\ (Orphaned(x) => l \in unseen')
    BY <1>1, <1>2 DEF Unqueued, Orphaned
  <1>5. \A k \in Leads \ {l} : (k \in cut => k \in cut') /\ (k \in unseen => k \in unseen')
    OBVIOUS
  <1> QED
    BY <1>2, <1>3, <1>4, <1>5, OtherKeeps

LEMMA InsertLeadKeeps ==
    ASSUME ReviewInv, NEW l \in Leads, InsertLead(l)
    PROVE  ReviewInv'
  <1>1. PICK s \in {"new", "dismissed"} : Other(l, [status |-> s, app |-> "none"])
    BY DEF InsertLead
  <1>2. unscored' = unscored /\ preparing' = preparing /\ cut' = cut /\ unseen' = unseen
    BY DEF InsertLead
  <1>3. s \in LeadStatuses /\ s # "approved" /\ "none" \in AppStatuses
    BY TabsHold DEF AppStatuses
  <1>4. unscored' \subseteq Leads /\ preparing' \subseteq Leads
    BY <1>2, LeadTyped
  <1> QED
    BY <1>1, <1>2, <1>3, <1>4, AutopilotKeeps

LEMMA ExpireStaleLeadKeeps ==
    ASSUME ReviewInv, NEW l \in Leads, ExpireStaleLead(l)
    PROVE  ReviewInv'
  <1>1. Other(l, [lead[l] EXCEPT !.status = "expired"]) /\ lead[l].status = "new"
        /\ unscored' = unscored /\ preparing' = preparing /\ cut' = cut /\ unseen' = unseen
    BY DEF ExpireStaleLead
  <1>2. PICK s : s = "expired"
    OBVIOUS
  <1>3. PICK a \in AppStatuses : a = lead[l].app
    BY LeadTyped
  <1>4. s \in LeadStatuses
    BY <1>2, TabsHold
  <1>5. Other(l, [status |-> s, app |-> a])
    BY <1>1, <1>2, <1>3, <1>4, LeadTyped
  <1>6. a = "queued" => l \in unseen'
    BY <1>1, <1>3, LeadTyped DEF Orphaned
  <1>7. unscored' \subseteq Leads /\ preparing' \subseteq Leads
    BY <1>1, LeadTyped
  <1> QED
    BY <1>1, <1>2, <1>4, <1>5, <1>6, <1>7, AutopilotKeeps

LEMMA UnscoredLeadsKeeps ==
    ASSUME ReviewInv, NEW l \in Leads, UnscoredLeads(l)
    PROVE  ReviewInv'
  <1>1. /\ unscored' = unscored \cup {l} /\ lead' = lead /\ preparing' = preparing /\ cut' = cut
        /\ unseen' = unseen /\ tab' = tab /\ hiddenIn' = hiddenIn /\ undoStack' = undoStack
        /\ excused' = excused /\ req' = req /\ list' = list /\ awaiting' = awaiting
    BY DEF UnscoredLeads, page, queries
  <1>2. Kept(list)'
    BY <1>1, SameKept DEF ReviewInv
  <1>3. HiddenInv'
    BY <1>1, SameHidden DEF ReviewInv
  <1> QED
    BY <1>1, <1>2, <1>3 DEF ReviewInv, LeadInv, ScreenInv, MutationsInv, QueueExplained, AwaitingInv

LEMMA RescoreKeeps ==
    ASSUME ReviewInv, NEW l \in Leads, Rescore(l)
    PROVE  ReviewInv'
  <1>1. Other(l, [lead[l] EXCEPT !.status = "dismissed"])
        /\ unscored' = unscored \ {l} /\ preparing' = preparing /\ cut' = cut /\ unseen' = unseen \cup {l}
    BY DEF Rescore
  <1>2. PICK s : s = "dismissed"
    OBVIOUS
  <1>3. PICK a \in AppStatuses : a = lead[l].app
    BY LeadTyped
  <1>4. s \in LeadStatuses
    BY <1>2, TabsHold
  <1>5. Other(l, [status |-> s, app |-> a])
    BY <1>1, <1>2, <1>3, <1>4, LeadTyped
  <1>7. unscored' \subseteq Leads /\ preparing' \subseteq Leads
    BY <1>1, LeadTyped
  <1> QED
    BY <1>1, <1>2, <1>4, <1>5, <1>7, AutopilotKeeps

LEMMA PrepareKeeps ==
    ASSUME ReviewInv, NEW l \in Leads, Prepare(l)
    PROVE  ReviewInv'
  <1>1. Other(l, [status |-> "applying", app |-> "preparing"])
        /\ unscored' = unscored /\ preparing' = preparing \cup {l} /\ cut' = cut /\ unseen' = unseen
    BY DEF Prepare
  <1>2. PICK s : s = "applying"
    OBVIOUS
  <1>3. PICK a : a = "preparing"
    OBVIOUS
  <1>4. s \in LeadStatuses /\ a \in AppStatuses
    BY <1>2, <1>3, TabsHold DEF AppStatuses
  <1>7. unscored' \subseteq Leads /\ preparing' \subseteq Leads
    BY <1>1, LeadTyped
  <1> QED
    BY <1>1, <1>2, <1>3, <1>4, <1>7, AutopilotKeeps

LEMMA PreparedKeeps ==
    ASSUME ReviewInv, NEW l \in Leads, Prepared(l)
    PROVE  ReviewInv'
  <1>1. PICK x \in {[lead[l] EXCEPT !.app = "ready"], [status |-> "failed", app |-> "failed"],
                    [status |-> "approved", app |-> "queued"]} : Other(l, x)
    BY DEF Prepared
  <1>2. unscored' = unscored /\ preparing' = preparing \ {l} /\ cut' = cut \ {l} /\ unseen' = unseen
    BY DEF Prepared
  <1>3. "ready" \in AppStatuses /\ "failed" \in AppStatuses /\ "queued" \in AppStatuses
        /\ "failed" \in LeadStatuses /\ "approved" \in LeadStatuses
    BY TabsHold DEF AppStatuses
  <1>4. PICK s \in LeadStatuses, a \in AppStatuses :
           /\ x = [status |-> s, app |-> a]
           /\ a \in {"ready", "failed", "queued"} /\ (a = "queued" => s = "approved")
    <2>1. CASE x = [lead[l] EXCEPT !.app = "ready"]
      <3>1. PICK s \in LeadStatuses : s = lead[l].status
        BY LeadTyped
      <3>2. x = [status |-> s, app |-> "ready"]
        BY <1>3, <2>1, <3>1, LeadTyped
      <3> QED
        BY <1>3, <3>2
    <2>2. CASE x = [status |-> "failed", app |-> "failed"]
      BY <1>3, <2>2
    <2>3. CASE x = [status |-> "approved", app |-> "queued"]
      BY <1>3, <2>3
    <2> QED
      BY <2>1, <2>2, <2>3
  <1>5. Other(l, [status |-> s, app |-> a])
    BY <1>1, <1>4
  <1>7. unscored' \subseteq Leads /\ preparing' \subseteq Leads
    BY <1>2, LeadTyped
  <1> QED
    BY <1>2, <1>4, <1>5, <1>7, AutopilotKeeps

LEMMA ClaimNextKeeps ==
    ASSUME ReviewInv, NEW l \in Leads, ClaimNext(l)
    PROVE  ReviewInv'
  <1>1. Other(l, [status |-> "applying", app |-> "in_progress"])
        /\ unscored' = unscored /\ preparing' = preparing /\ cut' = cut /\ unseen' = unseen
    BY DEF ClaimNext
  <1>2. PICK s : s = "applying"
    OBVIOUS
  <1>3. PICK a : a = "in_progress"
    OBVIOUS
  <1>4. s \in LeadStatuses /\ a \in AppStatuses
    BY <1>2, <1>3, TabsHold DEF AppStatuses
  <1>7. unscored' \subseteq Leads /\ preparing' \subseteq Leads
    BY <1>1, LeadTyped
  <1> QED
    BY <1>1, <1>2, <1>3, <1>4, <1>7, AutopilotKeeps

LEMMA ReportResultKeeps ==
    ASSUME ReviewInv, NEW l \in Leads, ReportResult(l)
    PROVE  ReviewInv'
  <1>1. PICK x \in {[status |-> "applied", app |-> "submitted"], [status |-> "failed", app |-> "failed"]} : Other(l, x)
    BY DEF ReportResult
  <1>2. unscored' = unscored /\ preparing' = preparing /\ cut' = cut /\ unseen' = unseen
    BY DEF ReportResult
  <1>3. PICK s \in LeadStatuses, a \in AppStatuses :
           x = [status |-> s, app |-> a] /\ s # "approved" /\ a # "queued"
    BY <1>1, TabsHold DEF AppStatuses
  <1>5. Other(l, [status |-> s, app |-> a])
    BY <1>1, <1>3
  <1>7. unscored' \subseteq Leads /\ preparing' \subseteq Leads
    BY <1>2, LeadTyped
  <1> QED
    BY <1>2, <1>3, <1>5, <1>7, AutopilotKeeps

-----------------------------------------------------------------------------
(* The page's steps: decisions and undo.                                     *)

\* A step of the page leaves the stored leads alone.
LEMMA PageStep ==
    ASSUME ReviewInv, server' = server, ScreenInv', MutationsInv', HiddenInv', Kept(list)', AwaitingInv'
    PROVE  ReviewInv'
  <1>1. lead' = lead /\ cut' = cut /\ unseen' = unseen
    BY DEF server
  <1>2. LeadInv' /\ QueueExplained'
    BY <1>1 DEF ReviewInv, LeadInv, QueueExplained
  <1> QED
    BY <1>2 DEF ReviewInv

LEMMA ServerParts ==
    ASSUME server' = server
    PROVE  lead' = lead /\ unscored' = unscored /\ preparing' = preparing /\ cut' = cut /\ unseen' = unseen
  BY DEF server

LEMMA PageParts ==
    ASSUME page' = page
    PROVE  tab' = tab /\ hiddenIn' = hiddenIn /\ undoStack' = undoStack /\ excused' = excused
  BY DEF page

\* Request i changes, and was and is of other leads than k.
LEMMA NotOn ==
    ASSUME HiddenInv, lead' = lead, NEW i \in Requests, \A n \in Requests \ {i} : req'[n] = req[n],
           NEW k \in Leads, ~On(i, k), ~On(i, k)', hiddenIn'[k] = hiddenIn[k], k \notin excused
    PROVE  HiddenAt(k)'
  <1>1. Unmoved(k)
    BY DEF Unmoved, On
  <1> QED
    BY <1>1, UnmovedStays DEF HiddenInv

LEMMA Sent ==
    ASSUME MutationsInv, NEW i \in Requests, NEW kind \in {"decide", "undo"},
           NEW steps \in Seq(Decisions), steps # <<>>, NEW S \in SUBSET Leads, Send(i, kind, steps, S)
    PROVE  /\ MutationsInv' /\ \A n \in Requests \ {i} : req'[n] = req[n]
           /\ req'[i].pc = "sent" /\ req'[i].kind = kind /\ req'[i].steps = steps
           /\ req'[i].ids = S /\ req'[i].todo = S /\ req'[i].failed = {}
  <1> DEFINE r == [pc |-> "sent", kind |-> kind, steps |-> steps, ids |-> S, todo |-> S, failed |-> {}]
  <1>1. req' = [req EXCEPT ![i] = r]
    BY DEF Send
  <1>2. MutationFits(r)
    BY DEF MutationFits, Mutations
  <1>3. MutationsInv' /\ req'[i] = r /\ \A n \in Requests \ {i} : req'[n] = req[n]
    BY <1>1, <1>2, OneMutation
  <1> QED
    BY <1>3

LEMMA Ended ==
    ASSUME MutationsInv, NEW i \in Requests, req' = [req EXCEPT ![i] = NoMutation]
    PROVE  /\ MutationsInv' /\ \A n \in Requests \ {i} : req'[n] = req[n]
           /\ \A l : ~On(i, l)'
  BY NoMutationFits, OneMutation DEF On

LEMMA HideIs ==
    ASSUME hiddenIn \in [Leads -> Tabs \cup {"none"}], NEW S \in SUBSET Leads, NEW t \in Tabs \cup {"none"}
    PROVE  /\ hide(S, t) \in [Leads -> Tabs \cup {"none"}]
           /\ \A l \in Leads : hide(S, t)[l] = IF l \in S THEN t ELSE hiddenIn[l]
  BY DEF hide

LEMMA ShownAgain ==
    ASSUME ScreenInv, NEW S \in SUBSET Leads, hiddenIn' = unhide(S)
    PROVE  /\ hiddenIn' \in [Leads -> Tabs \cup {"none"}]
           /\ \A l \in Leads : hiddenIn'[l] = IF l \in S THEN "none" ELSE hiddenIn[l]
  <1>1. PICK t \in Tabs \cup {"none"} : t = "none"
    OBVIOUS
  <1>2. hiddenIn' = hide(S, t) /\ hiddenIn \in [Leads -> Tabs \cup {"none"}]
    BY <1>1 DEF unhide, ScreenInv
  <1> QED
    BY <1>1, <1>2, HideIs

LEMMA RowsTyped ==
    ASSUME Kept(list), NEW t \in Tabs, NEW r \in Rows(t)
    PROVE  r \in RowsOf(t) /\ r.id \in Leads /\ r.status \in TAB_STATUS[t]
  <1>1. PICK p : p = list[t].pages
    OBVIOUS
  <1>2. p \in Seq(SUBSET RowsOf(t))
    BY <1>1, KeptParts, ListParts DEF Fits, PagesOf
  <1>3. PICK n \in DOMAIN p : r \in p[n]
    BY <1>1 DEF Rows, Range
  <1>4. p[n] \in SUBSET RowsOf(t)
    BY <1>2, <1>3
  <1>5. r \in RowsOf(t)
    BY <1>3, <1>4
  <1> QED
    BY <1>5 DEF RowsOf

LEMMA CanTakesOut ==
    ASSUME NEW t \in Tabs, NEW r, r.status \in TAB_STATUS[t], NEW d \in Decisions, Can(d, r)
    PROVE  TakesOut(d, t)
  <1>1. d = "approve" => r.status \in {"new", "dismissed", "expired"}
    BY DEF Can, canApprove
  <1>2. d = "dismiss" => r.status \in {"new", "approved", "applying", "failed"}
    BY DEF Can, canDismiss
  <1>3. d = "reset" => r.status \in {"dismissed", "expired"}
    BY DEF Can, canRestore
  <1> QED
    BY <1>1, <1>2, <1>3, TabsHold DEF TakesOut, Tabs, Decisions

LEMMA DirtyKept ==
    ASSUME NEW ls, Kept(ls), NEW new, new = [t \in Tabs |-> [ls[t] EXCEPT !.dirty = ls[t].pages # <<>>]]
    PROVE  Kept(new) /\ \A t \in Tabs : new[t].fetch = ls[t].fetch
  <1>2. new = [t \in Tabs |-> new[t]]
    OBVIOUS
  <1>3. ASSUME NEW t \in Tabs
        PROVE  Fits(new[t], t) /\ new[t].fetch = ls[t].fetch
    <2>1. PICK q : q = ls[t]
      OBVIOUS
    <2>2. Fits(q, t) /\ q \in ListsOf(t)
      BY <2>1, KeptParts DEF Fits
    <2> DEFINE b == q.pages # <<>>
    <2>3. b \in BOOLEAN /\ new[t] = [q EXCEPT !.dirty = b] /\ (q.pages # <<>> => b)
      BY <2>1
    <2> HIDE DEF b
    <2>4. /\ new[t] \in ListsOf(t) /\ new[t].pages = q.pages /\ new[t].next = q.next
          /\ new[t].joined = q.joined /\ new[t].fetch = q.fetch /\ new[t].shifted = q.shifted
          /\ new[t].dirty = b
      BY <2>2, <2>3 DEF ListsOf
    <2> QED
      BY <2>1, <2>2, <2>3, <2>4, Marked
  <1> QED
    BY <1>2, <1>3, KeptFrom

LEMMA SameFetches ==
    ASSUME AwaitingInv, awaiting' = awaiting,
           \A t \in Tabs : list[t].fetch.kind # "idle" => list'[t].fetch.kind # "idle"
    PROVE  AwaitingInv'
  BY DEF AwaitingInv

LEMMA decideKeeps ==
    ASSUME ReviewInv, decide
    PROVE  ReviewInv'
  <1>0. loaded(tab) \subseteq Leads
    <2>1. \A r \in Rows(tab) : r.id \in Leads
      BY RowsTyped DEF ReviewInv, ScreenInv
    <2> QED
      BY <2>1 DEF loaded
  <1>1. PICK i \in Requests, d \in Decisions, S \in SUBSET Leads :
           /\ req[i].pc = "idle"
           /\ \A l \in S : \E r \in visible(tab) : r.id = l /\ Can(d, r)
           /\ Send(i, "decide", <<d>>, S)
           /\ hiddenIn' = hide(S, tab)
           /\ excused' = (excused \ S) \cup Overlapping(S)
    BY <1>0 DEF decide
  <1>2. /\ server' = server /\ tab' = tab /\ undoStack' = undoStack /\ awaiting' = awaiting
        /\ list' = [t \in Tabs |-> [list[t] EXCEPT !.dirty = list[t].pages # <<>>]]
    BY DEF decide
  <1>3. /\ MutationsInv /\ Kept(list) /\ AwaitingInv /\ HiddenInv /\ ScreenInv
        /\ tab \in Tabs /\ hiddenIn \in [Leads -> Tabs \cup {"none"}]
    BY DEF ReviewInv, ScreenInv
  <1>4. \A l \in S : TakesOut(d, tab)
    <2> SUFFICES ASSUME NEW l \in S
                 PROVE  TakesOut(d, tab)
      OBVIOUS
    <2>1. PICK r \in Rows(tab) : r.id = l /\ Can(d, r)
      BY <1>1 DEF visible
    <2> QED
      BY <1>3, <2>1, RowsTyped, CanTakesOut
  <1>5. Kept(list)' /\ \A t \in Tabs : list'[t].fetch = list[t].fetch
    <2>1. PICK new : new = list'
      OBVIOUS
    <2>2. Kept(new) /\ \A t \in Tabs : new[t].fetch = list[t].fetch
      BY <1>2, <1>3, <2>1, DirtyKept
    <2>3. lead' = lead
      BY <1>2, ServerParts
    <2> QED
      BY <2>1, <2>2, <2>3, SameKept
  <1>6. AwaitingInv'
    BY <1>2, <1>3, <1>5, SameFetches
  <1>7. /\ MutationsInv' /\ \A n \in Requests \ {i} : req'[n] = req[n]
        /\ req'[i].pc = "sent" /\ req'[i].kind = "decide" /\ Head(req'[i].steps) = d
        /\ req'[i].ids = S /\ req'[i].todo = S
    <2>0. d \in Decisions /\ <<d>> \in Seq(Decisions)
      OBVIOUS
    <2>1. PICK steps \in Seq(Decisions) : steps = <<d>>
      BY <2>0
    <2>2. steps # <<>> /\ Head(steps) = d
      BY <2>1
    <2>3. PICK kind \in {"decide", "undo"} : kind = "decide"
      OBVIOUS
    <2>4. Send(i, kind, steps, S)
      BY <1>1, <2>1, <2>3
    <2> QED
      BY <1>3, <1>4, <2>2, <2>3, <2>4, Sent
  <1>8. hiddenIn' \in [Leads -> Tabs \cup {"none"}]
        /\ \A l \in Leads : hiddenIn'[l] = IF l \in S THEN tab ELSE hiddenIn[l]
    <2>1. PICK t \in Tabs \cup {"none"} : t = tab
      BY <1>3
    <2>2. hiddenIn' = hide(S, t) /\ hiddenIn \in [Leads -> Tabs \cup {"none"}]
      BY <1>1, <1>3, <2>1
    <2> QED
      BY <2>1, <2>2, HideIs
  <1>9. ScreenInv'
    <2>1. excused' \subseteq Leads
      BY <1>1, <1>3, <1>4 DEF ScreenInv, Overlapping
    <2> QED
      BY <1>2, <1>3, <1>8, <2>1, ServerParts DEF ScreenInv
  <1>10. ASSUME NEW k \in Leads, k \notin excused'
         PROVE  HiddenAt(k)'
    <2>1. CASE k \notin S
      <3>1. k \notin excused /\ ~On(i, k) /\ ~On(i, k)' /\ hiddenIn'[k] = hiddenIn[k]
        BY <1>1, <1>7, <1>8, <1>10, <2>1 DEF On
      <3> QED
        BY <1>2, <1>3, <1>7, <3>1, NotOn, ServerParts
    <2>2. CASE k \in S
      <3>1. \A n \in Requests : ~On(n, k)
        BY <1>1, <1>10, <2>2 DEF Overlapping, Busy, On
      <3>2. \A n \in Requests : On(n, k)' <=> n = i
        BY <1>7, <2>2, <3>1 DEF On
      <3>3. hiddenIn'[k] = tab /\ TakesOut(d, tab) /\ k \in req'[i].todo
        BY <1>4, <1>7, <1>8, <2>2
      <3> QED
        BY <1>7, <3>2, <3>3 DEF HiddenAt
    <2> QED
      BY <2>1, <2>2
  <1>11. HiddenInv'
    BY <1>10 DEF HiddenInv, HiddenAt
  <1> QED
    BY <1>2, <1>5, <1>6, <1>7, <1>9, <1>11, PageStep

LEMMA StaleStep ==
    ASSUME ReviewInv, list' = Stale(list), lead' = lead, awaiting' = awaiting
    PROVE  Kept(list)' /\ AwaitingInv'
  <1>1. PICK ls : ls = Stale(list)
    OBVIOUS
  <1>2. Kept(ls) /\ \A t \in Tabs : ls[t].fetch = list[t].fetch
    BY <1>1, StaleKept DEF ReviewInv
  <1> QED
    BY <1>1, <1>2, SameKept, SameFetches DEF ReviewInv

LEMMA InvalidateStep ==
    ASSUME ReviewInv, InvalidateLists, lead' = lead, awaiting' = awaiting
    PROVE  Kept(list)' /\ AwaitingInv'
  <1>1. PICK new : new = [Stale(list) EXCEPT ![tab] = Refetched(@)]
    OBVIOUS
  <1>2. Kept(new) /\ \A t \in Tabs : list[t].fetch.kind # "idle" => new[t].fetch.kind # "idle"
    BY <1>1, RefetchKept DEF ReviewInv, ScreenInv
  <1>3. list' = new
    BY <1>1 DEF InvalidateLists
  <1> QED
    BY <1>2, <1>3, SameKept, SameFetches DEF ReviewInv

LEMMA decideAnsweredKeeps ==
    ASSUME ReviewInv, NEW i \in Requests, decideAnswered(i)
    PROVE  ReviewInv'
  <1>1. PICK F : F = req[i].failed
    OBVIOUS
  <1>2. PICK d : d = Head(req[i].steps)
    OBVIOUS
  <1>3. /\ req[i].kind = "decide" /\ req[i].pc = "sent" /\ req[i].todo = {}
        /\ hiddenIn' = unhide(F) /\ excused' = excused \ F
        /\ announce(req[i].ids \ F, d)
        /\ req' = [req EXCEPT ![i] = NoMutation]
        /\ list' = Stale(list)
        /\ server' = server /\ tab' = tab /\ awaiting' = awaiting
    BY <1>1, <1>2 DEF decideAnswered
  <1>4. /\ MutationsInv /\ HiddenInv /\ ScreenInv /\ lead' = lead
        /\ F \in SUBSET Leads /\ req[i].ids \in SUBSET Leads /\ d \in Decisions
    BY <1>1, <1>2, <1>3, MutationParts, ServerParts DEF ReviewInv
  <1>5. Kept(list)' /\ AwaitingInv'
    BY <1>3, <1>4, StaleStep
  <1>6. MutationsInv' /\ (\A n \in Requests \ {i} : req'[n] = req[n]) /\ \A l : ~On(i, l)'
    BY <1>3, <1>4, Ended
  <1>7. hiddenIn' \in [Leads -> Tabs \cup {"none"}]
        /\ \A l \in Leads : hiddenIn'[l] = IF l \in F THEN "none" ELSE hiddenIn[l]
    BY <1>3, <1>4, ShownAgain
  <1>8. undoStack' \in Seq(Undos)
    <2>1. undoStack \in Seq(Undos)
      BY <1>4 DEF ScreenInv
    <2>2. CASE req[i].ids \ F = {}
      BY <1>3, <2>1, <2>2 DEF announce
    <2>3. CASE req[i].ids \ F # {}
      <3>1. PICK S \in (SUBSET Leads) \ {{}} : S = req[i].ids \ F
        BY <1>4, <2>3
      <3>2. PICK u : u = [leads |-> S, decision |-> d]
        OBVIOUS
      <3>3. u \in Undos
        BY <1>4, <3>2 DEF Undos
      <3>4. undoStack' = Append(undoStack, u)
        BY <1>3, <2>3, <3>1, <3>2 DEF announce
      <3> QED
        BY <2>1, <3>3, <3>4
    <2> QED
      BY <2>2, <2>3
  <1>9. ScreenInv'
    BY <1>3, <1>4, <1>7, <1>8, ServerParts DEF ScreenInv
  <1>10. ASSUME NEW k \in Leads, k \notin excused', hiddenIn'[k] # "none"
         PROVE  HiddenAt(k)'
    <2>1. k \notin F /\ k \notin excused /\ hiddenIn'[k] = hiddenIn[k] /\ hiddenIn[k] # "none"
      BY <1>3, <1>7, <1>10
    <2>2. CASE ~On(i, k)
      BY <1>4, <1>6, <2>1, <2>2, NotOn
    <2>3. CASE On(i, k)
      <3>1. ~InTab(k, hiddenIn[k]) /\ \A n \in Requests : On(n, k) => n = i
        BY <1>1, <1>3, <1>4, <2>1, <2>3 DEF HiddenInv, HiddenAt
      <3>2. ~InTab(k, hiddenIn[k])' /\ \A n \in Requests : ~On(n, k)'
        BY <1>4, <1>6, <2>1, <3>1 DEF InTab, On
      <3> QED
        BY <3>2 DEF HiddenAt
    <2> QED
      BY <2>2, <2>3
  <1>11. HiddenInv'
    BY <1>10 DEF HiddenInv, HiddenAt
  <1> QED
    BY <1>3, <1>5, <1>6, <1>9, <1>11, PageStep

LEMMA Removed ==
    ASSUME NEW U, NEW s \in Seq(U), NEW n \in DOMAIN s
    PROVE  RemoveAt(s, n) \in Seq(U) /\ s[n] \in U
  <1>1. n \in 1..Len(s) /\ Len(s) \in Nat
    OBVIOUS
  <1>2. SubSeq(s, 1, n - 1) \in Seq(U)
    <2>1. \A k \in 1..(n - 1) : s[k] \in U
      BY <1>1
    <2> QED
      BY <1>1, <2>1
  <1>3. SubSeq(s, n + 1, Len(s)) \in Seq(U)
    <2>1. \A k \in (n + 1)..Len(s) : s[k] \in U
      BY <1>1
    <2> QED
      BY <1>1, <2>1
  <1> QED
    BY <1>1, <1>2, <1>3 DEF RemoveAt

LEMMA runUndoKeeps ==
    ASSUME ReviewInv, runUndo
    PROVE  ReviewInv'
  <1>1. PICK i \in Requests, n \in DOMAIN undoStack :
           /\ req[i].pc = "idle"
           /\ undoStack' = RemoveAt(undoStack, n)
           /\ hiddenIn' = unhide(undoStack[n].leads)
           /\ Send(i, "undo", undoSteps(undoStack[n].decision), undoStack[n].leads)
           /\ excused' = excused \ undoStack[n].leads
    BY DEF runUndo
  <1>2. /\ server' = server /\ tab' = tab /\ list' = list /\ awaiting' = awaiting
    BY DEF runUndo, queries
  <1>3. /\ MutationsInv /\ Kept(list) /\ AwaitingInv /\ HiddenInv /\ ScreenInv /\ lead' = lead
        /\ undoStack \in Seq(Undos) /\ hiddenIn \in [Leads -> Tabs \cup {"none"}]
    BY <1>2, ServerParts DEF ReviewInv, ScreenInv
  <1>4. undoStack' \in Seq(Undos) /\ undoStack[n] \in Undos
    BY <1>1, <1>3, Removed
  <1>5. PICK S \in SUBSET Leads : S = undoStack[n].leads
    BY <1>4 DEF Undos
  <1>6. PICK steps \in Seq(Decisions) : steps # <<>> /\ steps = undoSteps(undoStack[n].decision)
    <2>1. undoStack[n].decision \in Decisions
      BY <1>4 DEF Undos
    <2>2. <<"dismiss", "reset">> \in Seq(Decisions) /\ <<"reset">> \in Seq(Decisions) /\ <<"dismiss">> \in Seq(Decisions)
      BY DEF Decisions
    <2> QED
      BY <2>1, <2>2 DEF undoSteps, Decisions
  <1>7. /\ MutationsInv' /\ \A m \in Requests \ {i} : req'[m] = req[m]
        /\ req'[i].ids = S
    <2>1. PICK kind \in {"decide", "undo"} : kind = "undo"
      OBVIOUS
    <2>2. Send(i, kind, steps, S)
      BY <1>1, <1>5, <1>6, <2>1
    <2> QED
      BY <1>3, <1>6, <2>2, Sent
  <1>8. hiddenIn' \in [Leads -> Tabs \cup {"none"}]
        /\ \A l \in Leads : hiddenIn'[l] = IF l \in S THEN "none" ELSE hiddenIn[l]
    BY <1>1, <1>3, <1>5, ShownAgain
  <1>9. ScreenInv'
    BY <1>1, <1>2, <1>3, <1>4, <1>8, ServerParts DEF ScreenInv
  <1>10. ASSUME NEW k \in Leads, k \notin excused', hiddenIn'[k] # "none"
         PROVE  HiddenAt(k)'
    <2>1. k \notin S /\ k \notin excused /\ hiddenIn'[k] = hiddenIn[k]
      BY <1>1, <1>5, <1>8, <1>10
    <2>2. ~On(i, k) /\ ~On(i, k)'
      BY <1>1, <1>7, <2>1 DEF On
    <2> QED
      BY <1>3, <1>7, <2>1, <2>2, NotOn
  <1>11. HiddenInv'
    BY <1>10 DEF HiddenInv, HiddenAt
  <1>12. Kept(list)' /\ AwaitingInv'
    BY <1>2, <1>3, SameKept, SameFetches
  <1> QED
    BY <1>2, <1>7, <1>9, <1>11, <1>12, PageStep

\* The request is an undo, or nobody waits for its answer: no lead is hidden on its account.
LEMMA NotHiddenOn ==
    ASSUME HiddenInv, NEW i \in Requests, req[i].kind = "undo" \/ req[i].pc = "orphan",
           NEW k \in Leads, hiddenIn[k] # "none", k \notin excused
    PROVE  ~On(i, k)
  BY DEF HiddenInv, HiddenAt

LEMMA undoAnsweredKeeps ==
    ASSUME ReviewInv, NEW i \in Requests, undoAnswered(i)
    PROVE  ReviewInv'
  <1>1. /\ req[i].kind = "undo" /\ req[i].pc = "sent"
        /\ server' = server /\ page' = page /\ awaiting' = awaiting
    BY DEF undoAnswered
  <1>2. /\ MutationsInv /\ HiddenInv /\ ScreenInv /\ lead' = lead
        /\ tab' = tab /\ hiddenIn' = hiddenIn /\ undoStack' = undoStack /\ excused' = excused
    BY <1>1, ServerParts, PageParts DEF ReviewInv
  <1>3. /\ MutationsInv' /\ (\A n \in Requests \ {i} : req'[n] = req[n])
        /\ (\A l : On(i, l)' => On(i, l)) /\ Kept(list)' /\ AwaitingInv'
    <2>1. CASE req[i].failed = {} /\ Len(req[i].steps) > 1
      <3>1. /\ list' = Stale(list)
            /\ req' = [req EXCEPT ![i] = [req[i] EXCEPT !.steps = Tail(req[i].steps), !.todo = req[i].ids]]
        BY <2>1 DEF undoAnswered
      <3>2. PICK s : s = Tail(req[i].steps)
        OBVIOUS
      <3>3. s \in Seq(Decisions) /\ s # <<>>
        <4>1. req[i].steps \in Seq(Decisions)
          BY <1>2, MutationParts
        <4>2. Len(s) = Len(req[i].steps) - 1 /\ s \in Seq(Decisions)
          BY <2>1, <3>2, <4>1
        <4> QED
          BY <2>1, <4>2
      <3>4. PICK S : S = req[i].ids
        OBVIOUS
      <3>5. PICK r : r = [req[i] EXCEPT !.steps = s, !.todo = S]
        OBVIOUS
      <3>6. /\ r \in Mutations /\ r.pc = req[i].pc /\ r.ids = S /\ r.todo = S /\ r.steps = s
            /\ r.failed = req[i].failed /\ req[i].failed \subseteq S
        BY <1>2, <3>3, <3>4, <3>5, MutationParts DEF Mutations
      <3>7. MutationFits(r)
        BY <1>1, <3>3, <3>6 DEF MutationFits
      <3>8. MutationsInv' /\ (\A n \in Requests \ {i} : req'[n] = req[n]) /\ req'[i] = r
        BY <1>2, <3>1, <3>2, <3>4, <3>5, <3>7, OneMutation
      <3> QED
        BY <1>1, <1>2, <3>1, <3>4, <3>6, <3>8, StaleStep DEF On
    <2>2. CASE ~(req[i].failed = {} /\ Len(req[i].steps) > 1)
      <3>1. InvalidateLists /\ req' = [req EXCEPT ![i] = NoMutation]
        BY <2>2 DEF undoAnswered
      <3> QED
        BY <1>1, <1>2, <3>1, InvalidateStep, Ended
    <2> QED
      BY <2>1, <2>2
  <1>4. ASSUME NEW k \in Leads, k \notin excused', hiddenIn'[k] # "none"
        PROVE  HiddenAt(k)'
    <2>1. ~On(i, k)
      BY <1>1, <1>2, <1>4, NotHiddenOn
    <2> QED
      BY <1>2, <1>3, <1>4, <2>1, NotOn
  <1>5. HiddenInv'
    BY <1>4 DEF HiddenInv, HiddenAt
  <1>6. ScreenInv'
    BY <1>1, <1>2, ServerParts DEF ScreenInv
  <1> QED
    BY <1>1, <1>3, <1>5, <1>6, PageStep

LEMMA AnswerLostKeeps ==
    ASSUME ReviewInv, NEW i \in Requests, AnswerLost(i)
    PROVE  ReviewInv'
  <1>1. /\ req[i].pc = "sent"
        /\ server' = server /\ tab' = tab /\ undoStack' = undoStack /\ awaiting' = awaiting
    BY DEF AnswerLost
  <1>2. MutationsInv /\ HiddenInv /\ ScreenInv /\ lead' = lead
    BY <1>1, ServerParts DEF ReviewInv
  <1>3. PICK S \in SUBSET Leads : S = req[i].ids
    BY <1>2, MutationParts
  <1>4. /\ MutationsInv' /\ (\A n \in Requests \ {i} : req'[n] = req[n])
        /\ (\A l : On(i, l)' => l \in S)
    <2>1. CASE req' = [req EXCEPT ![i].pc = "orphan"]
      <3>1. PICK r : r = [req[i] EXCEPT !.pc = "orphan"]
        OBVIOUS
      <3>2. req' = [req EXCEPT ![i] = r]
        BY <2>1, <3>1
      <3>3. /\ r \in Mutations /\ r.pc = "orphan" /\ r.ids = S /\ r.todo = req[i].todo /\ r.steps = req[i].steps
            /\ r.failed = req[i].failed
        BY <1>2, <1>3, <3>1, MutationParts DEF Mutations
      <3>4. MutationFits(r)
        BY <1>1, <1>2, <1>3, <3>3, MutationParts DEF MutationFits
      <3> QED
        BY <1>2, <3>2, <3>3, <3>4, OneMutation DEF On
    <2>2. CASE req' = [req EXCEPT ![i] = NoMutation]
      BY <1>2, <2>2, Ended
    <2> QED
      BY <2>1, <2>2 DEF AnswerLost
  <1>5. /\ Kept(list)' /\ AwaitingInv' /\ ScreenInv'
        /\ \A l \in Leads : hiddenIn'[l] # "none" /\ l \notin excused' =>
              hiddenIn'[l] = hiddenIn[l] /\ l \notin excused /\ ~On(i, l) /\ l \notin S
    <2>1. CASE req[i].kind = "decide"
      <3>1. hiddenIn' = unhide(S) /\ excused' = excused \ S /\ list' = Stale(list)
        BY <1>3, <2>1 DEF AnswerLost
      <3>4. hiddenIn' \in [Leads -> Tabs \cup {"none"}]
            /\ \A l \in Leads : hiddenIn'[l] = IF l \in S THEN "none" ELSE hiddenIn[l]
        BY <1>2, <1>3, <3>1, ShownAgain
      <3>5. ScreenInv'
        BY <1>1, <1>2, <3>1, <3>4, ServerParts DEF ScreenInv
      <3> QED
        BY <1>1, <1>2, <1>3, <3>1, <3>4, <3>5, StaleStep DEF On
    <2>2. CASE req[i].kind # "decide"
      <3>1. InvalidateLists /\ hiddenIn' = hiddenIn /\ excused' = excused
        BY <2>2 DEF AnswerLost
      <3>2. req[i].kind = "undo"
        BY <1>2, <2>2, MutationParts
      <3>3. ScreenInv'
        BY <1>1, <1>2, <3>1, ServerParts DEF ScreenInv
      <3>4. \A l \in Leads : hiddenIn[l] # "none" /\ l \notin excused => ~On(i, l) /\ l \notin S
        BY <1>1, <1>2, <1>3, <3>2, NotHiddenOn DEF On
      <3> QED
        BY <1>1, <1>2, <3>1, <3>3, <3>4, InvalidateStep
    <2> QED
      BY <2>1, <2>2
  <1>6. ASSUME NEW k \in Leads, k \notin excused', hiddenIn'[k] # "none"
        PROVE  HiddenAt(k)'
    BY <1>2, <1>4, <1>5, <1>6, NotOn
  <1>7. HiddenInv'
    BY <1>6 DEF HiddenInv, HiddenAt
  <1> QED
    BY <1>1, <1>4, <1>5, <1>7, PageStep

LEMMA OrphanEndsKeeps ==
    ASSUME ReviewInv, NEW i \in Requests, OrphanEnds(i)
    PROVE  ReviewInv'
  <1>1. /\ req[i].pc = "orphan" /\ req' = [req EXCEPT ![i] = NoMutation]
        /\ server' = server /\ page' = page /\ list' = list /\ awaiting' = awaiting
    BY DEF OrphanEnds, queries
  <1>2. /\ MutationsInv /\ HiddenInv /\ ScreenInv /\ Kept(list) /\ AwaitingInv /\ lead' = lead
        /\ tab' = tab /\ hiddenIn' = hiddenIn /\ undoStack' = undoStack /\ excused' = excused
    BY <1>1, ServerParts, PageParts DEF ReviewInv
  <1>3. MutationsInv' /\ (\A n \in Requests \ {i} : req'[n] = req[n]) /\ \A l : ~On(i, l)'
    BY <1>1, <1>2, Ended
  <1>4. ASSUME NEW k \in Leads, k \notin excused', hiddenIn'[k] # "none"
        PROVE  HiddenAt(k)'
    BY <1>1, <1>2, <1>3, <1>4, NotOn, NotHiddenOn
  <1>5. HiddenInv'
    BY <1>4 DEF HiddenInv, HiddenAt
  <1>6. ScreenInv'
    BY <1>1, <1>2, ServerParts DEF ScreenInv
  <1>7. Kept(list)' /\ AwaitingInv'
    BY <1>1, <1>2, SameKept, SameFetches
  <1> QED
    BY <1>1, <1>3, <1>5, <1>6, <1>7, PageStep

-----------------------------------------------------------------------------
(* The page's steps: the lists.                                              *)

LEMMA SamePage ==
    ASSUME ReviewInv, server' = server, req' = req, hiddenIn' = hiddenIn, excused' = excused,
           undoStack' = undoStack, tab' \in Tabs, Kept(list)', AwaitingInv'
    PROVE  ReviewInv'
  <1>1. lead' = lead
    BY ServerParts
  <1>2. HiddenInv'
    BY <1>1, SameHidden DEF ReviewInv
  <1>3. MutationsInv'
    BY DEF ReviewInv, MutationsInv
  <1>4. ScreenInv'
    BY ServerParts DEF ReviewInv, ScreenInv
  <1> QED
    BY <1>2, <1>3, <1>4, PageStep

\* One list changes.
LEMMA ListStep ==
    ASSUME Kept(list), lead' = lead, NEW t \in Tabs, NEW q, Fits(q, t), list' = With(list, t, q)
    PROVE  Kept(list)' /\ list'[t] = q /\ \A u \in Tabs \ {t} : list'[u] = list[u]
  <1>1. PICK ls : ls = With(list, t, q)
    OBVIOUS
  <1>2. Kept(ls) /\ ls[t] = q /\ \A u \in Tabs \ {t} : ls[u] = list[u]
    BY <1>1, OneList
  <1>3. list' = ls
    BY <1>1
  <1> QED
    BY <1>2, <1>3, SameKept

LEMMA setTabKeeps ==
    ASSUME ReviewInv, NEW t \in Tabs, setTab(t)
    PROVE  ReviewInv'
  <1>1. /\ tab' = t /\ server' = server /\ hiddenIn' = hiddenIn /\ undoStack' = undoStack
        /\ excused' = excused /\ req' = req /\ awaiting' = awaiting
        /\ list' = [list EXCEPT ![t] = Started(@, "all")] \/ list' = list
    BY DEF setTab
  <1>2. Kept(list) /\ AwaitingInv /\ lead' = lead
    BY <1>1, ServerParts DEF ReviewInv
  <1>3. Kept(list)' /\ AwaitingInv'
    <2>1. CASE list' = list
      BY <1>1, <1>2, <2>1, SameKept, SameFetches
    <2>2. CASE list' = [list EXCEPT ![t] = Started(@, "all")]
      <3>1. PICK old : old = list[t]
        OBVIOUS
      <3>2. PICK q : q = Started(old, "all")
        OBVIOUS
      <3>3. Fits(q, t) /\ q.fetch.kind = "all"
        BY <1>2, <3>1, <3>2, KeptParts, StartedAll
      <3>4. list' = With(list, t, q)
        BY <1>2, <2>2, <3>1, <3>2, KeptParts DEF With
      <3>5. Kept(list)' /\ list'[t] = q /\ \A u \in Tabs \ {t} : list'[u] = list[u]
        BY <1>2, <3>3, <3>4, ListStep
      <3> QED
        BY <1>1, <1>2, <3>3, <3>5 DEF AwaitingInv
    <2> QED
      BY <1>1, <2>1, <2>2
  <1> QED
    BY <1>1, <1>3, SamePage

LEMMA loadMoreKeeps ==
    ASSUME ReviewInv, loadMore
    PROVE  ReviewInv'
  <1>1. /\ server' = server /\ page' = page /\ req' = req
        /\ IF list[tab].dirty
           THEN /\ list' = [list EXCEPT ![tab] = Refetched(@)]
                /\ awaiting' = awaiting \cup {tab}
           ELSE /\ list' = [list EXCEPT ![tab] = FetchNext(@)]
                /\ awaiting' = awaiting
    BY DEF loadMore
  <1>2. Kept(list) /\ AwaitingInv /\ lead' = lead
    BY <1>1, ServerParts DEF ReviewInv
  <1>3. PICK t \in Tabs : t = tab
    BY DEF ReviewInv, ScreenInv
  <1>4. PICK old : old = list[t]
    OBVIOUS
  <1>5. Fits(old, t)
    BY <1>2, <1>4, KeptParts
  <1>6. Kept(list)' /\ AwaitingInv'
    <2>1. CASE old.dirty
      <3>1. PICK q : q = Refetched(old)
        OBVIOUS
      <3>2. Fits(q, t) /\ q.fetch.kind # "idle"
        BY <1>5, <3>1, RefetchedFits
      <3>3. list' = With(list, t, q) /\ awaiting' = awaiting \cup {t}
        BY <1>1, <1>2, <1>3, <1>4, <2>1, <3>1, KeptParts DEF With
      <3>4. Kept(list)' /\ list'[t] = q /\ \A u \in Tabs \ {t} : list'[u] = list[u]
        BY <1>2, <3>2, <3>3, ListStep
      <3> QED
        BY <1>2, <3>2, <3>3, <3>4 DEF AwaitingInv
    <2>2. CASE ~old.dirty
      <3>1. PICK q : q = FetchNext(old)
        OBVIOUS
      <3>2. Fits(q, t) /\ (old.fetch.kind # "idle" => q.fetch.kind # "idle")
        BY <1>5, <2>2, <3>1, NextStarted
      <3>3. list' = With(list, t, q) /\ awaiting' = awaiting
        BY <1>1, <1>2, <1>3, <1>4, <2>2, <3>1, KeptParts DEF With
      <3>4. Kept(list)' /\ list'[t] = q /\ \A u \in Tabs \ {t} : list'[u] = list[u]
        BY <1>2, <3>2, <3>3, ListStep
      <3> QED
        BY <1>2, <1>4, <3>2, <3>3, <3>4 DEF AwaitingInv
    <2> QED
      BY <2>1, <2>2
  <1>7. tab' = tab /\ hiddenIn' = hiddenIn /\ undoStack' = undoStack /\ excused' = excused
    BY <1>1, PageParts
  <1> QED
    BY <1>1, <1>3, <1>6, <1>7, SamePage

\* A fetch of tab t ends with list q, and the loadMore that waits for it goes on.
LEMMA FetchEnds ==
    ASSUME ReviewInv, server' = server, page' = page, req' = req, NEW t \in Tabs, NEW q, Fits(q, t),
           list' = GoesOn(t, With(list, t, q)), awaiting' = awaiting \ {t}
    PROVE  ReviewInv'
  <1>1. Kept(list) /\ AwaitingInv /\ lead' = lead /\ tab \in Tabs
    BY ServerParts DEF ReviewInv, ScreenInv
  <1>2. PICK ls : ls = With(list, t, q)
    OBVIOUS
  <1>3. Kept(ls) /\ \A u \in Tabs \ {t} : ls[u] = list[u]
    BY <1>1, <1>2, OneList
  <1>4. PICK new : new = GoesOn(t, ls)
    OBVIOUS
  <1>5. Kept(new) /\ \A u \in Tabs : ls[u].fetch.kind # "idle" => new[u].fetch.kind # "idle"
    BY <1>1, <1>3, <1>4, GoneOn
  <1>6. list' = new
    BY <1>2, <1>4
  <1>7. Kept(list)'
    BY <1>1, <1>5, <1>6, SameKept
  <1>8. AwaitingInv'
    BY <1>1, <1>3, <1>5, <1>6 DEF AwaitingInv
  <1>9. tab' \in Tabs /\ hiddenIn' = hiddenIn /\ undoStack' = undoStack /\ excused' = excused
    BY <1>1, PageParts
  <1> QED
    BY <1>7, <1>8, <1>9, SamePage

LEMMA FetchFailsKeeps ==
    ASSUME ReviewInv, NEW t \in Tabs, FetchFails(t)
    PROVE  ReviewInv'
  <1>1. PICK old : old = list[t]
    OBVIOUS
  <1>2. PICK b \in BOOLEAN : b = (old.pages # <<>>)
    OBVIOUS
  <1>3. PICK q : q = [old EXCEPT !.fetch = NoFetch, !.invalid = b]
    OBVIOUS
  <1>4. /\ server' = server /\ page' = page /\ req' = req /\ awaiting' = awaiting \ {t}
        /\ list' = GoesOn(t, With(list, t, q))
    <2>1. list' = GoesOn(t, [list EXCEPT ![t] = [list[t] EXCEPT !.fetch = NoFetch, !.invalid = list[t].pages # <<>>]])
      BY DEF FetchFails
    <2>2. [list[t] EXCEPT !.fetch = NoFetch, !.invalid = list[t].pages # <<>>] = q
      BY <1>1, <1>2, <1>3
    <2> QED
      BY <2>1, <2>2, Zenon DEF FetchFails, With
  <1>5. Fits(old, t) /\ old \in ListsOf(t)
    BY <1>1, KeptParts DEF ReviewInv, Fits
  <1>6. /\ q \in ListsOf(t) /\ q.pages = old.pages /\ q.next = old.next /\ q.joined = old.joined
        /\ q.fetch = NoFetch /\ q.shifted = old.shifted /\ q.dirty = old.dirty
    BY <1>2, <1>3, <1>5, NothingFetched DEF ListsOf
  <1>7. Fits(q, t)
    BY <1>5, <1>6, Marked
  <1> QED
    BY <1>4, <1>7, FetchEnds

LEMMA FitsParts ==
    ASSUME NEW t, NEW q, Fits(q, t)
    PROVE  /\ q \in ListsOf(t) /\ q.fetch \in FetchesOf(t)
           /\ q.fetch.got \in PagesOf(t) /\ Len(q.fetch.got) \in Nat
           /\ q.pages \in PagesOf(t) /\ Len(q.pages) \in Nat
           /\ q.shifted \in BOOLEAN /\ q.joined \in SUBSET Leads
           /\ q.fetch.shifted \in BOOLEAN /\ q.fetch.joined \in SUBSET Leads
           /\ q.fetch.kind = "next" => q.next /\ q.pages # <<>> /\ q.fetch.got = <<>>
           /\ q.fetch.kind \in {"idle", "all", "next"}
  <1>1. q \in ListsOf(t)
    BY DEF Fits
  <1>2. q.fetch.got \in PagesOf(t) /\ q.pages \in PagesOf(t)
    BY <1>1, ListParts
  <1>3. Len(q.fetch.got) \in Nat /\ Len(q.pages) \in Nat
    BY <1>2 DEF PagesOf
  <1>4. q.fetch.kind = "next" => q.next /\ q.pages # <<>> /\ q.fetch.got = <<>>
    BY DEF Fits, ListFits
  <1> QED
    BY <1>1, <1>2, <1>3, <1>4, ListParts

LEMMA MoreOrNot ==
    ASSUME NEW t \in Tabs, NEW n \in Nat
    PROVE  HasNext(t, n) \in BOOLEAN
  <1>1. Cardinality(Stored(t)) \in Nat
    BY FiniteLeads DEF Stored
  <1>2. n * PageSize \in Nat
    BY ReviewAssumption
  <1> QED
    BY <1>1, <1>2 DEF HasNext

\* A page that was read has rows of the tab.
LEMMA PageTyped ==
    ASSUME LeadInv, NEW t \in Tabs, NEW n
    PROVE  ListLeads(t, n) \in SUBSET RowsOf(t)
  <1> SUFFICES ASSUME NEW r \in ListLeads(t, n)
               PROVE  r \in RowsOf(t)
    OBVIOUS
  <1>1. PICK l \in Stored(t) : r = [id |-> l, status |-> lead[l].status]
    BY DEF ListLeads
  <1>2. l \in Leads /\ lead[l].status \in TAB_STATUS[t]
    BY DEF Stored, InTab
  <1> QED
    BY <1>1, <1>2 DEF RowsOf

ListOf(pages, more, sh, jo) ==
    [NoList EXCEPT !.pages = pages, !.next = more, !.shifted = sh, !.joined = jo]

LEMMA ListRead ==
    ASSUME NEW t, NEW pages \in PagesOf(t), NEW more \in BOOLEAN, NEW sh \in BOOLEAN, NEW jo \in SUBSET Leads
    PROVE  LET p == ListOf(pages, more, sh, jo) IN
           /\ p \in ListsOf(t) /\ p.pages = pages /\ p.next = more /\ p.shifted = sh
           /\ p.joined = jo /\ p.fetch = NoFetch
  BY NothingFetched DEF ListsOf, NoList, ListOf

\* The fetch of all pages goes on.
LEMMA ReadsOn ==
    ASSUME LeadInv, NEW t \in Tabs, NEW q, Fits(q, t), q.fetch.kind = "all",
           NEW got, got = Append(q.fetch.got, ListLeads(t, Len(q.fetch.got) + 1)),
           NEW p, p = [q EXCEPT !.fetch = [q.fetch EXCEPT !.got = got]]
    PROVE  Fits(p, t) /\ p.fetch.kind = "all"
  <1>1. q \in ListsOf(t) /\ q.fetch \in FetchesOf(t) /\ q.fetch.got \in PagesOf(t) /\ Len(q.fetch.got) \in Nat
    BY FitsParts
  <1>2. got \in PagesOf(t) /\ Len(got) = Len(q.fetch.got) + 1
    BY <1>1, PageTyped, IdsAppend
  <1>3. PICK f : f = [q.fetch EXCEPT !.got = got]
    OBVIOUS
  <1>4. f \in FetchesOf(t) /\ f.kind = "all" /\ f.got = got /\ f.shifted = q.fetch.shifted /\ f.joined = q.fetch.joined
    BY <1>1, <1>2, <1>3 DEF FetchesOf
  <1>5. /\ p \in ListsOf(t) /\ p.pages = q.pages /\ p.next = q.next /\ p.dirty = q.dirty
        /\ p.shifted = q.shifted /\ p.joined = q.joined /\ p.fetch = f
    BY <1>1, <1>3, <1>4 DEF ListsOf
  <1>6. ListFits(p)
    BY <1>4, <1>5 DEF Fits, ListFits
  <1>7. ASSUME ~f.shifted
        PROVE  UpTo(t, f.got, f.joined, Len(f.got))
    <2>1. UpTo(t, q.fetch.got, q.fetch.joined, Len(q.fetch.got))
      BY <1>4, <1>7 DEF Fits, Covers
    <2> QED
      BY <1>1, <1>2, <1>4, <2>1, PageRead
  <1>8. Covers(p, t)
    BY <1>4, <1>5, <1>7 DEF Fits, Covers
  <1> QED
    BY <1>4, <1>5, <1>6, <1>8 DEF Fits

\* The list that holds the pages of got.
LEMMA ReadAll ==
    ASSUME LeadInv, NEW t \in Tabs, NEW q, Fits(q, t), q.fetch.kind = "all",
           NEW n, n = Len(q.fetch.got) + 1, NEW got, got = Append(q.fetch.got, ListLeads(t, n)),
           NEW p, p = Fetched(q, got, HasNext(t, n))
    PROVE  Fits(p, t)
  <1>1. /\ q \in ListsOf(t) /\ q.fetch.got \in PagesOf(t) /\ Len(q.fetch.got) \in Nat
        /\ q.fetch.shifted \in BOOLEAN /\ q.fetch.joined \in SUBSET Leads
    BY FitsParts
  <1>2. got \in PagesOf(t) /\ Len(got) = n /\ got # <<>>
    BY <1>1, PageTyped, IdsAppend
  <1>3. PICK more \in BOOLEAN : more = HasNext(t, n)
    BY <1>1, MoreOrNot
  <1>4. p = [NoList EXCEPT !.pages = got, !.next = more, !.shifted = q.fetch.shifted, !.joined = q.fetch.joined]
    BY <1>3 DEF Fetched
  <1>5. /\ p \in ListsOf(t) /\ p.pages = got /\ p.next = more /\ p.shifted = q.fetch.shifted
        /\ p.joined = q.fetch.joined /\ p.fetch = NoFetch
    <2>1. PICK sh \in BOOLEAN, jo \in SUBSET Leads : sh = q.fetch.shifted /\ jo = q.fetch.joined
      BY <1>1
    <2>2. PICK pages \in PagesOf(t) : pages = got
      BY <1>2
    <2>3. p = ListOf(pages, more, sh, jo)
      BY <1>4, <2>1, <2>2 DEF ListOf
    <2>4. p \in ListsOf(t) /\ p.pages = pages /\ p.next = more /\ p.shifted = sh
          /\ p.joined = jo /\ p.fetch = NoFetch
      BY <2>3, ListRead
    <2> QED
      BY <2>1, <2>2, <2>4
  <1>6. ListFits(p) /\ p.fetch.kind = "idle"
    BY <1>2, <1>5, NothingFetched DEF ListFits
  <1>7. ASSUME ~q.fetch.shifted
        PROVE  UpTo(t, got, q.fetch.joined, n) /\ (~more => AllOf(t, got, q.fetch.joined))
    <2>1. UpTo(t, q.fetch.got, q.fetch.joined, Len(q.fetch.got))
      BY <1>7 DEF Fits, Covers
    <2> QED
      BY <1>1, <1>3, <2>1, PageRead
  <1>8. Covers(p, t)
    BY <1>2, <1>5, <1>6, <1>7 DEF Covers
  <1> QED
    BY <1>5, <1>6, <1>8 DEF Fits

\* The list with one page more.
LEMMA ReadNext ==
    ASSUME LeadInv, NEW t \in Tabs, NEW q, Fits(q, t), q.fetch.kind = "next",
           NEW n, n = Len(q.pages) + 1, NEW got, got = <<ListLeads(t, n)>>,
           NEW p, p = Fetched(q, got, HasNext(t, n))
    PROVE  Fits(p, t)
  <1>1. /\ q \in ListsOf(t) /\ q.pages \in PagesOf(t) /\ Len(q.pages) \in Nat
        /\ q.shifted \in BOOLEAN /\ q.joined \in SUBSET Leads /\ q.next /\ q.pages # <<>>
    BY FitsParts
  <1>2. PICK pages : pages = Append(q.pages, ListLeads(t, n))
    OBVIOUS
  <1>3. pages \in PagesOf(t) /\ Len(pages) = n /\ pages # <<>> /\ q.pages \o got = pages
    BY <1>1, <1>2, PageTyped, IdsAppend
  <1>4. PICK more \in BOOLEAN : more = HasNext(t, n)
    BY <1>1, MoreOrNot
  <1>5. p = [NoList EXCEPT !.pages = pages, !.next = more, !.shifted = q.shifted, !.joined = q.joined]
    BY <1>3, <1>4 DEF Fetched
  <1>6. /\ p \in ListsOf(t) /\ p.pages = pages /\ p.next = more /\ p.shifted = q.shifted
        /\ p.joined = q.joined /\ p.fetch = NoFetch
    <2>1. PICK sh \in BOOLEAN, jo \in SUBSET Leads : sh = q.shifted /\ jo = q.joined
      BY <1>1
    <2>2. p = ListOf(pages, more, sh, jo)
      BY <1>5, <2>1 DEF ListOf
    <2>3. pages \in PagesOf(t)
      BY <1>3
    <2> QED
      BY <2>1, <2>2, <2>3, ListRead
  <1>7. ListFits(p) /\ p.fetch.kind = "idle"
    BY <1>3, <1>6, NothingFetched DEF ListFits
  <1>8. ASSUME ~q.shifted
        PROVE  UpTo(t, pages, q.joined, n) /\ (~more => AllOf(t, pages, q.joined))
    <2>1. UpTo(t, q.pages, q.joined, Len(q.pages))
      BY <1>1, <1>8 DEF Fits, Covers
    <2> QED
      BY <1>1, <1>2, <1>4, <2>1, PageRead
  <1>9. Covers(p, t)
    BY <1>3, <1>6, <1>7, <1>8 DEF Covers
  <1> QED
    BY <1>6, <1>7, <1>9 DEF Fits

LEMMA ReadPageKeeps ==
    ASSUME ReviewInv, NEW t \in Tabs, ReadPage(t)
    PROVE  ReviewInv'
  <1>1. PICK q : q = list[t]
    OBVIOUS
  <1>2. PICK n : n = Len(q.fetch.got) + 1 + IF q.fetch.kind = "next" THEN Len(q.pages) ELSE 0
    OBVIOUS
  <1>3. PICK got : got = Append(q.fetch.got, ListLeads(t, n))
    OBVIOUS
  <1>4. /\ q.fetch.kind # "idle" /\ server' = server /\ page' = page /\ req' = req
        /\ IF Len(got) < Pages(t) /\ HasNext(t, n)
           THEN /\ list' = [list EXCEPT ![t].fetch = [q.fetch EXCEPT !.got = got]]
                /\ awaiting' = awaiting
           ELSE /\ list' = GoesOn(t, [list EXCEPT ![t] = Fetched(q, got, HasNext(t, n))])
                /\ awaiting' = awaiting \ {t}
    BY <1>1, <1>2, <1>3, Zenon DEF ReadPage
  <1>5. /\ LeadInv /\ Kept(list) /\ AwaitingInv /\ lead' = lead
        /\ Fits(q, t) /\ q \in ListsOf(t)
    BY <1>1, <1>4, KeptParts, ServerParts DEF ReviewInv, Fits
  <1>6. /\ q.fetch.kind \in {"all", "next"} /\ q.fetch.got \in PagesOf(t) /\ q.pages \in PagesOf(t)
        /\ Len(q.fetch.got) \in Nat /\ Len(q.pages) \in Nat
    BY <1>4, <1>5, FitsParts
  <1>7. CASE Len(got) < Pages(t) /\ HasNext(t, n)
    <2>1. q.fetch.kind = "all"
      <3> SUFFICES ASSUME q.fetch.kind = "next"
                   PROVE  FALSE
        BY <1>6
      <3>1. q.fetch.got = <<>> /\ Pages(t) = 1
        BY <1>1, <1>5 DEF Fits, ListFits, Pages
      <3>2. Len(got) = 1
        BY <1>3, <3>1
      <3> QED
        BY <1>7, <3>1, <3>2
    <2>2. n = Len(q.fetch.got) + 1
      BY <1>2, <1>6, <2>1
    <2>3. PICK p : p = [q EXCEPT !.fetch = [q.fetch EXCEPT !.got = got]]
      OBVIOUS
    <2>4. Fits(p, t) /\ p.fetch.kind = "all"
      BY <1>3, <1>5, <2>1, <2>2, <2>3, ReadsOn
    <2>5. PICK f : f = [q.fetch EXCEPT !.got = got]
      OBVIOUS
    <2>6. list' = With(list, t, p) /\ awaiting' = awaiting
      <3>1. list' = [list EXCEPT ![t].fetch = f] /\ awaiting' = awaiting
        BY <1>4, <1>7, <2>5
      <3>2. list' = [list EXCEPT ![t] = [list[t] EXCEPT !.fetch = f]]
        BY <3>1
      <3> QED
        BY <1>1, <2>3, <2>5, <3>1, <3>2 DEF With
    <2>7. Kept(list)' /\ list'[t] = p /\ \A u \in Tabs \ {t} : list'[u] = list[u]
      BY <1>5, <2>4, <2>6, ListStep
    <2>8. AwaitingInv'
      BY <1>5, <2>4, <2>6, <2>7 DEF AwaitingInv
    <2>9. tab' \in Tabs /\ hiddenIn' = hiddenIn /\ undoStack' = undoStack /\ excused' = excused
      BY <1>4, PageParts DEF ReviewInv, ScreenInv
    <2> QED
      BY <1>4, <2>7, <2>8, <2>9, SamePage
  <1>8. CASE ~(Len(got) < Pages(t) /\ HasNext(t, n))
    <2>1. PICK p : p = Fetched(q, got, HasNext(t, n))
      OBVIOUS
    <2>2. Fits(p, t)
      <3>1. CASE q.fetch.kind = "all"
        <4>1. n = Len(q.fetch.got) + 1
          BY <1>2, <1>6, <3>1
        <4> QED
          BY <1>3, <1>5, <2>1, <3>1, <4>1, ReadAll
      <3>2. CASE q.fetch.kind = "next"
        <4>1. q.fetch.got = <<>>
          BY <1>5, <3>2 DEF Fits, ListFits
        <4>2. n = Len(q.pages) + 1
          BY <1>2, <1>6, <3>2, <4>1
        <4>3. got = <<ListLeads(t, n)>>
          BY <1>3, <4>1
        <4> QED
          BY <1>5, <2>1, <3>2, <4>2, <4>3, ReadNext
      <3> QED
        BY <1>6, <3>1, <3>2
    <2>3. list' = GoesOn(t, With(list, t, p)) /\ awaiting' = awaiting \ {t}
      BY <1>4, <1>8, <2>1 DEF With
    <2> QED
      BY <1>4, <2>2, <2>3, FetchEnds
  <1> QED
    BY <1>7, <1>8

-----------------------------------------------------------------------------
(* The invariant of the review page.                                         *)

LEMMA ReviewStarts ==
    ASSUME ReviewInit
    PROVE  ReviewInv
  <1>1. PICK l \in Leads, x \in Beginnings :
           lead = [k \in Leads |-> IF k = l THEN x ELSE [status |-> "new", app |-> "none"]]
    BY DEF ReviewInit
  <1>2. /\ preparing = {k \in Leads : lead[k].app = "preparing"}
        /\ unscored = {} /\ cut = {} /\ unseen = {} /\ excused = {}
        /\ tab = "new" /\ hiddenIn = [k \in Leads |-> "none"] /\ undoStack = <<>>
        /\ req = [i \in Requests |-> NoMutation]
        /\ list = [t \in Tabs |-> IF t = "new" THEN Started(NoList, "all") ELSE NoList]
        /\ awaiting = {}
    BY DEF ReviewInit
  <1>3. /\ [status |-> "new", app |-> "none"] \in LeadRecord
        /\ x \in LeadRecord /\ x.status # "approved" /\ x.app # "queued"
    BY TabsHold DEF Beginnings, LeadRecord, AppStatuses
  <1>4. LeadInv /\ QueueExplained
    BY <1>1, <1>3 DEF LeadInv, LeadRecord, QueueExplained
  <1>5. ScreenInv
    <2>1. tab \in Tabs /\ undoStack \in Seq(Undos) /\ hiddenIn \in [Leads -> Tabs \cup {"none"}]
      BY <1>2 DEF Tabs
    <2> QED
      BY <1>2, <2>1 DEF ScreenInv
  <1>6. MutationsInv
    BY <1>2, NoMutationFits DEF MutationsInv
  <1>7. HiddenInv
    BY <1>2 DEF HiddenInv, HiddenAt
  <1>8. Kept(list)
    <2>1. PICK q : q = Started(NoList, "all")
      OBVIOUS
    <2>2. \A t \in Tabs : Fits(q, t) /\ Fits(NoList, t)
      BY <2>1, NothingFetched, StartedAll
    <2>3. PICK ls : ls = list
      OBVIOUS
    <2>4. ls = [t \in Tabs |-> ls[t]] /\ \A t \in Tabs : ls[t] = q \/ ls[t] = NoList
      BY <1>2, <2>1, <2>3
    <2>5. \A t \in Tabs : Fits(ls[t], t)
      BY <2>2, <2>4
    <2> QED
      BY <2>3, <2>4, <2>5, KeptFrom
  <1>9. AwaitingInv
    BY <1>2 DEF AwaitingInv
  <1> QED
    BY <1>4, <1>5, <1>6, <1>7, <1>8, <1>9 DEF ReviewInv

LEMMA ReviewSteps ==
    ASSUME ReviewInv, [ReviewNext]_reviewVars
    PROVE  ReviewInv'
  <1>1. CASE decide \/ runUndo \/ loadMore
    BY <1>1, decideKeeps, runUndoKeeps, loadMoreKeeps
  <1>2. CASE Autopilot
    BY <1>2, InsertLeadKeeps, ExpireStaleLeadKeeps, UnscoredLeadsKeeps, RescoreKeeps,
       PrepareKeeps, PreparedKeeps, ClaimNextKeeps, ReportResultKeeps DEF Autopilot
  <1>3. ASSUME NEW i \in Requests,
               \/ DecideLead(i) \/ DecideLeadFails(i) \/ DismissUnseen(i)
               \/ decideAnswered(i) \/ undoAnswered(i) \/ AnswerLost(i) \/ OrphanEnds(i)
        PROVE  ReviewInv'
    BY <1>3, DecideLeadKeeps, DecideLeadFailsKeeps, DismissUnseenKeeps, decideAnsweredKeeps, undoAnsweredKeeps,
       AnswerLostKeeps, OrphanEndsKeeps
  <1>4. ASSUME NEW t \in Tabs, setTab(t) \/ ReadPage(t) \/ FetchFails(t)
        PROVE  ReviewInv'
    BY <1>4, setTabKeeps, ReadPageKeeps, FetchFailsKeeps
  <1>5. CASE UNCHANGED reviewVars
    <2>1. server' = server /\ page' = page /\ req' = req /\ list' = list /\ awaiting' = awaiting
      BY <1>5 DEF reviewVars, queries
    <2>2. tab' \in Tabs /\ hiddenIn' = hiddenIn /\ undoStack' = undoStack /\ excused' = excused
      BY <2>1, PageParts DEF ReviewInv, ScreenInv
    <2>3. Kept(list)' /\ AwaitingInv'
      BY <2>1, ServerParts, SameKept, SameFetches DEF ReviewInv
    <2> QED
      BY <2>1, <2>2, <2>3, SamePage
  <1> QED
    BY <1>1, <1>2, <1>3, <1>4, <1>5 DEF ReviewNext

\* The invariant of the review page holds in every state.
LEMMA ReviewAlways == ReviewSpec => []ReviewInv
  BY ReviewStarts, ReviewSteps, PTL DEF ReviewSpec

(* Every decision that did not hold is shown again ("so nothing is lost",    *)
(* Review.tsx:443): a lead stays hidden in a tab only while a request is     *)
(* under way on it, after it left the tab, or after a change by another hand. *)
THEOREM NothingStaysHidden == ReviewSpec => []NothingLost
  <1>1. ReviewInv => NothingLost
    <2> SUFFICES ASSUME ReviewInv, NEW l \in Leads, ~Busy(l), l \notin excused, hiddenIn[l] # "none"
                 PROVE  ~InTab(l, hiddenIn[l])
      BY DEF NothingLost
    <2>1. \A i \in Requests : ~On(i, l)
      BY DEF Busy, On
    <2> QED
      BY <2>1 DEF ReviewInv, HiddenInv, HiddenAt
  <1> QED
    BY <1>1, ReviewAlways, PTL

(* A list loaded to its end by offset shows every lead of its tab, for any   *)
(* page size, any number of leads and of requests in flight: the refresh     *)
(* before the next page (Review.tsx:129) makes up for the decisions taken.   *)
THEOREM ListsAreWhole == ReviewSpec => []NoLeadSkipped
  <1>1. ReviewInv => NoLeadSkipped
    <2> SUFFICES ASSUME ReviewInv, NEW t \in Tabs, list[t].pages # <<>>, ~list[t].next, ~list[t].shifted,
                        NEW l \in Leads, InTab(l, t)
                 PROVE  l \in loaded(t) \/ l \in list[t].joined
      BY DEF NoLeadSkipped
    <2>1. Covers(list[t], t)
      BY DEF ReviewInv, Kept
    <2>2. l \in Ids(list[t].pages) \/ l \in list[t].joined
      BY <2>1 DEF Covers, AllOf
    <2> QED
      BY <2>2 DEF Ids, loaded, Rows
  <1> QED
    BY <1>1, ReviewAlways, PTL

(* An approved lead has an application that is not cancelled, and a queued   *)
(* application has an approved lead, but where a decision stopped half way   *)
(* or the lead was dismissed without a look at its application: by a late    *)
(* scoring, or by a dismissal that could not read it (apply.go:68).          *)
THEOREM QueueFollowsLeads == ReviewSpec => []QueueExplained
  <1>1. ReviewInv => QueueExplained
    BY DEF ReviewInv
  <1> QED
    BY <1>1, ReviewAlways, PTL

(* The lists hold rows of their tabs, and a loadMore waits for a fetch that  *)
(* is under way.                                                             *)
THEOREM ReviewTyped == ReviewSpec => []ReviewTypeOK
  <1>1. ReviewInv => ReviewTypeOK
    <2> SUFFICES ASSUME ReviewInv
                 PROVE  ReviewTypeOK
      OBVIOUS
    <2>1. lead \in [Leads -> [status : LeadStatuses, app : AppStatuses]]
      BY DEF ReviewInv, LeadInv
    <2>2. /\ UNION {unscored, preparing, excused, cut, unseen} \subseteq Leads
          /\ tab \in Tabs /\ hiddenIn \in [Leads -> Tabs \cup {"none"}]
      BY DEF ReviewInv, ScreenInv
    <2>3. \A n \in DOMAIN undoStack :
             undoStack[n].leads \in (SUBSET Leads) \ {{}} /\ undoStack[n].decision \in Decisions
      <3>1. undoStack \in Seq(Undos)
        BY DEF ReviewInv, ScreenInv
      <3>2. \A n \in DOMAIN undoStack : undoStack[n] \in Undos
        BY <3>1
      <3> QED
        BY <3>2 DEF Undos
    <2>4. ASSUME NEW i \in Requests
          PROVE  /\ req[i].pc \in {"idle", "sent", "orphan"} /\ req[i].kind \in {"decide", "undo"}
                 /\ Range(req[i].steps) \subseteq Decisions
                 /\ req[i].todo \cup req[i].failed \subseteq req[i].ids /\ req[i].ids \subseteq Leads
      <3>1. MutationsInv
        BY DEF ReviewInv
      <3>2. req[i].steps \in Seq(Decisions)
        BY <3>1, MutationParts
      <3>3. Range(req[i].steps) \subseteq Decisions
        BY <3>2 DEF Range
      <3> QED
        BY <3>1, <3>3, MutationParts
    <2>5. ASSUME NEW t \in Tabs
          PROVE  /\ Rows(t) \subseteq Row /\ (list[t].next => list[t].pages # <<>>)
                 /\ list[t].fetch.kind \in {"idle", "all", "next"}
                 /\ list[t].joined \subseteq Leads
      <3>1. Kept(list)
        BY DEF ReviewInv
      <3>2. Fits(list[t], t)
        BY <3>1, KeptParts
      <3>3. Rows(t) \subseteq Row
        <4>1. \A r \in Rows(t) : r \in RowsOf(t)
          BY <3>1, RowsTyped
        <4>2. RowsOf(t) \subseteq Row
          BY TabsHold DEF RowsOf, Row
        <4> QED
          BY <4>1, <4>2
      <3> QED
        BY <3>2, <3>3, FitsParts DEF Fits, ListFits
    <2>6. \A t \in awaiting : list[t].fetch.kind # "idle"
      BY DEF ReviewInv, AwaitingInv
    <2> QED
      BY <2>1, <2>2, <2>3, <2>4, <2>5, <2>6 DEF ReviewTypeOK
  <1> QED
    BY <1>1, ReviewAlways, PTL
=============================================================================
