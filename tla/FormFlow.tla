------------------------------ MODULE FormFlow ------------------------------
(***************************************************************************)
(* One application being filled and submitted in the browser: the flow the *)
(* content script runs in the application's tab (content/flow.ts), the run *)
(* record the background keeps for it (background/runner.ts), and the site *)
(* between them, which may replace the document whenever a button is       *)
(* pressed.  A new document knows nothing: it asks the background (HELLO)  *)
(* and resumes from the phase the run record holds.                        *)
(*                                                                         *)
(* A call to the background is one step that takes effect there and leaves *)
(* the flow waiting (its pc); what comes after the answer is a step of its *)
(* own.  Deadlines may pass at any moment.  Which step of a form comes     *)
(* next, and whether it is one too many (MAX_STEPS), is left open.  The    *)
(* text of the page, the fields, the values and the wording of an outcome  *)
(* are left out: a page is what the detectors of content/detect.ts make of *)
(* it.                                                                     *)
(*                                                                         *)
(* The queue the application comes from, the outbox and the restarts of    *)
(* the worker are the subject of ExtensionRunner: here a report arrives.   *)
(***************************************************************************)
EXTENDS Naturals, FiniteSets

CONSTANTS
    Tabs,               \* browser tabs
    MaxHops,            \* MAX_HOPS: pages it opens to reach the form (2)
    MaxRuns,            \* bound: runs of this application
    MaxLost,            \* bound: calls lost, reloads of a page
    MaxByHand           \* bound: what the user does in pages and dashboard

ASSUME BoundsAssumption ==
    /\ Tabs # {} /\ MaxHops \in Nat
    /\ MaxRuns \in Nat \ {0} /\ MaxLost \in Nat /\ MaxByHand \in Nat

VARIABLES
    server,             \* applications.status
    run,                \* run[m]: the run record, state.current or state.manual
    watches,            \* tabs in state.watches
    packet,             \* tabs whose manual fill waits for its packet
    tab,                \* tab[t]: the tab, its page and its content script
    accepted,           \* how often the site took the application
    past,               \* past[n]: what run n has done
    runs, lost, byHand  \* the bounds' counters

vars == <<server, run, watches, packet, tab, accepted, past, runs, lost, byHand>>
bounds == <<runs, lost, byHand>>

Modes  == {"auto", "manual"}
Phases == {"opening", "filling", "submitting", "verifying"}
Outcomes == {"submitted", "needs_input", "failed", "released"}

RunRec == [n : 0..MaxRuns, tab : Tabs, phase : Phases, attempts : Nat, passes : Nat,
           hops : 0..MaxHops, auto : BOOLEAN]
NoTab == CHOOSE t \in Tabs : TRUE
NoRun == [n |-> 0, tab |-> NoTab, phase |-> "opening", attempts |-> 0, passes |-> 0,
          hops |-> 0, auto |-> FALSE]

(* What the detectors see: a form, perhaps with errors or a CAPTCHA; boxes *)
(* for an emailed code; a confirmation; a link or frame to the real form;  *)
(* or another page: a sign-in wall, an origin nobody admitted, no form.    *)
Pages   == {"form", "errors", "captcha", "code", "thanks", "gateway", "other"}
Landing == {"form", "captcha", "gateway", "other"}
HasForm == {"form", "errors", "captcha"}

PCs == {"locate", "find", "hop", "goto", "read", "ask", "fill", "next", "clickNext", "moved",
        "stuck", "presubmit", "press", "click", "watch", "correct", "after", "verify", "poll",
        "codeWatch", "report"}

\* The job a flow was started with and what it counts since; corrective says
\* which of the two corrective passes it is in.
FlowRec == [n : 0..MaxRuns, mode : Modes, pc : PCs, aborted : BOOLEAN, attempts : Nat,
            passes : Nat, auto : BOOLEAN,
            corrective : {"no", "step", "submit"}, outcome : Outcomes]
NoFlow == [n |-> 0, mode |-> "auto", pc |-> "locate", aborted |-> FALSE, attempts |-> 0,
           passes |-> 0, auto |-> FALSE, corrective |-> "no",
           outcome |-> "failed"]

TabRec == [open    : BOOLEAN,
           closing : BOOLEAN,              \* finishRun is about to close it
           page    : Pages,
           pressed : {"no", "flow", "user", "code"},  \* what the site has yet to answer
           back    : BOOLEAN,              \* it has returned errors since the last press
           greeted : BOOLEAN,              \* this document's HELLO is over
           flow    : FlowRec,
           finished : SUBSET (1..MaxRuns), \* finishedRuns
           watching : BOOLEAN,             \* startWatch is on
           armed   : BOOLEAN]              \* a confirmation counts
Closed == [open |-> FALSE, closing |-> FALSE, page |-> "other", pressed |-> "no",
           back |-> FALSE, greeted |-> FALSE, flow |-> NoFlow, finished |-> {},
           watching |-> FALSE, armed |-> FALSE]

\* presses and corrective passes of a run, pages it opened; auto: it may
\* submit; unsaved: a call that stores the run's progress was lost.
PastRec == [presses : Nat, fixes : Nat, hops : Nat, auto : BOOLEAN, unsaved : BOOLEAN]
NoPast == [presses |-> 0, fixes |-> 0, hops |-> 0, auto |-> FALSE, unsaved |-> FALSE]

TypeOK ==
    /\ server \in {"ready", "in_progress", "needs_input", "failed", "submitted"}
    /\ run \in [Modes -> RunRec]
    /\ watches \subseteq Tabs /\ packet \subseteq Tabs
    /\ tab \in [Tabs -> TabRec]
    /\ accepted \in Nat
    /\ past \in [1..MaxRuns -> PastRec]
    /\ runs \in 0..MaxRuns /\ lost \in 0..MaxLost /\ byHand \in 0..MaxByHand

Init ==
    /\ server = "ready"
    /\ run = [m \in Modes |-> NoRun]
    /\ watches = {} /\ packet = {}
    /\ tab = [t \in Tabs |-> Closed]
    /\ accepted = 0
    /\ past = [n \in 1..MaxRuns |-> NoPast]
    /\ runs = 0 /\ lost = 0 /\ byHand = 0

-----------------------------------------------------------------------------
(* Documents, and their calls to the background.                           *)

\* callBackground: k calls fail for good, retries included.
Lose(k) == lost' = lost + k /\ lost' <= MaxLost

\* A document that has just been loaded in tab r: every variable of the content
\* script starts afresh.
Document(r, page) == [Closed EXCEPT !.open = TRUE, !.page = page, !.closing = r.closing,
                                    !.back = r.back]

Flow(t) == tab[t].flow
Active(t) == Flow(t).n # 0
Managed(f) == f.n # 0 /\ run[f.mode].n = f.n

\* startWatch: the page the user is to finish; on a page of its own a
\* confirmation counts at once, else only after the user has pressed a button.
StartWatch(r, freshPage) == [r EXCEPT !.watching = TRUE, !.armed = @ \/ freshPage]

\* toFlowJob, and how execute() begins with it.
Job(m, page) ==
    [NoFlow EXCEPT
        !.n = run[m].n, !.mode = m, !.attempts = run[m].attempts, !.passes = run[m].passes,
        !.auto = run[m].auto,
        !.pc = IF run[m].phase \in {"submitting", "verifying"} THEN "after"
               ELSE IF page = "other" THEN "report" ELSE "locate",
        !.outcome = "needs_input"]

StartFlow(r, job) ==
    IF job.n \in r.finished \/ r.flow.n = job.n THEN r ELSE [r EXCEPT !.flow = job]

-----------------------------------------------------------------------------
(* The background.                                                         *)

Accepts(status) ==
    \/ server \in {"ready", "in_progress", "needs_input"}
    \/ server = "failed" /\ status = "submitted"
Record(status) ==
    server' = IF ~Accepts(status) THEN server
              ELSE IF status = "released" THEN "ready" ELSE status

\* finishRun: the run is over, its result goes to the server (of a fill by
\* hand only "needs you" does), the tab is watched or will be closed.
FinishRun(m, status, tabs) ==
    /\ run' = [run EXCEPT ![m] = NoRun]
    /\ IF m = "auto" \/ status = "needs_input" THEN Record(status) ELSE UNCHANGED server
    /\ watches' = IF status = "needs_input" THEN {run[m].tab} \cap {t \in Tabs : tabs[t].open}
                  ELSE watches
    /\ tab' = IF m = "auto" /\ status # "needs_input"
              THEN [tabs EXCEPT ![run[m].tab].closing = tabs[run[m].tab].open] ELSE tabs

\* FLOW_ABORT reaches the document, or does not.
MaybeAborted(m) ==
    {tab, [tab EXCEPT ![run[m].tab].flow.aborted = @ \/ (Flow(run[m].tab).n = run[m].n)]}

NewRun(m, t, auto) ==
    /\ runs < MaxRuns
    /\ runs' = runs + 1
    /\ run' = [run EXCEPT ![m] = [NoRun EXCEPT !.n = runs + 1, !.tab = t, !.auto = auto]]
    /\ past' = [past EXCEPT ![runs + 1].auto = auto]

\* Claim and beginApplication.  An application that is being filled by hand is
\* handed back at once.
BeginApplication(t) ==
    /\ server = "ready" /\ run["auto"].n = 0 /\ run["manual"].n = 0
    /\ ~tab[t].open
    /\ \E auto \in BOOLEAN : NewRun("auto", t, auto)
    /\ server' = "in_progress"
    /\ \E page \in Landing : tab' = [tab EXCEPT ![t] = Document(Closed, page)]
    /\ UNCHANGED <<watches, packet, accepted, lost, byHand>>

RunsIn(t) == {m \in Modes : run[m].n # 0 /\ run[m].tab = t}

\* handleHello, and what the document does with the answer.
Hello(t) ==
    /\ tab[t].open /\ ~tab[t].greeted
    /\ tab' = [tab EXCEPT ![t] =
         LET r == [@ EXCEPT !.greeted = TRUE] IN
         IF RunsIn(t) # {}
         THEN StartFlow(r, Job(CHOOSE m \in RunsIn(t) : TRUE, r.page))
         ELSE IF t \in watches THEN StartWatch(r, TRUE) ELSE r]
    /\ UNCHANGED <<server, run, watches, packet, accepted, past, bounds>>

HelloLost(t) ==
    /\ tab[t].open /\ ~tab[t].greeted
    /\ tab' = [tab EXCEPT ![t].greeted = TRUE]
    /\ Lose(1)
    /\ UNCHANGED <<server, run, watches, packet, accepted, past, runs, byHand>>

\* kick: FLOW_START for a document that is not on this run, at the start of the
\* run or when recover() finds the run without a flow.
Kick(m) ==
    LET t == run[m].tab IN
    /\ run[m].n # 0 /\ tab[t].open /\ Flow(t).n # run[m].n
    /\ tab' = [tab EXCEPT ![t] = StartFlow(@, Job(m, tab[t].page))]
    /\ tab' # tab
    /\ UNCHANGED <<server, run, watches, packet, accepted, past, bounds>>

\* Mutant: an application in the middle of its submission is handed back.
TimedOutReleased(phase) == IF phase = "verifying" THEN "needs_input" ELSE "failed"

TimedOut(phase) == IF phase \in {"submitting", "verifying"} THEN "needs_input" ELSE "failed"

\* checkDeadlines.
DeadlinePasses(m) ==
    /\ run[m].n # 0
    /\ \E tabs \in MaybeAborted(m) : FinishRun(m, TimedOut(run[m].phase), tabs)
    /\ UNCHANGED <<packet, accepted, past, bounds>>

StopCurrent ==
    /\ run["auto"].n # 0 /\ byHand < MaxByHand
    /\ byHand' = byHand + 1
    /\ \E tabs \in MaybeAborted("auto") : FinishRun("auto", "released", tabs)
    /\ UNCHANGED <<packet, accepted, past, runs, lost>>

\* onTabRemoved: finishRun closed the tab, or the user did.
TabRemoved(t) ==
    /\ tab[t].open
    /\ \/ tab[t].closing /\ UNCHANGED byHand
       \/ ~tab[t].closing /\ byHand < MaxByHand /\ byHand' = byHand + 1
    /\ LET gone == [tab EXCEPT ![t] = Closed] IN
       IF RunsIn(t) = {"auto"}
       THEN /\ FinishRun("auto", "needs_input", gone)
            /\ UNCHANGED packet
       ELSE /\ run' = [m \in Modes |-> IF m \in RunsIn(t) THEN NoRun ELSE run[m]]
            /\ watches' = watches \ {t}
            /\ packet' = packet \ {t}
            /\ tab' = gone
            /\ UNCHANGED server
    /\ UNCHANGED <<accepted, past, runs, lost>>

\* startManualFill, up to the packet it waits for: a failed application is
\* retried first.  The user has the posting open in tab t.
OpenPacket(t) ==
    /\ run["auto"].n = 0 /\ RunsIn(t) = {} /\ ~tab[t].closing /\ packet = {}
    /\ server \in {"ready", "needs_input", "failed"} /\ byHand < MaxByHand
    /\ byHand' = byHand + 1
    /\ server' = IF server = "failed" THEN "ready" ELSE server
    /\ tab' = IF tab[t].open THEN tab
              ELSE [tab EXCEPT ![t] = [Document(Closed, "form") EXCEPT !.greeted = TRUE]]
    /\ packet' = {t}
    /\ UNCHANGED <<run, watches, accepted, past, runs, lost>>

\* ... and the start of the flow; a document that cannot be reached has none.
StartManualFill(t) ==
    /\ t \in packet
    /\ packet' = {}
    /\ watches' = watches \ {t}
    /\ \/ /\ NewRun("manual", t, FALSE)
          /\ tab' = [tab EXCEPT ![t] =
                       StartFlow(@, [NoFlow EXCEPT !.n = runs + 1, !.mode = "manual",
                                                   !.outcome = "needs_input"])]
       \/ UNCHANGED <<run, past, runs, tab>>
    /\ UNCHANGED <<server, accepted, lost, byHand>>

\* Questions are answered, or a failed application is retried.
UserRetries ==
    /\ server \in {"needs_input", "failed"} /\ byHand < MaxByHand
    /\ server' = "ready"
    /\ byHand' = byHand + 1
    /\ UNCHANGED <<run, watches, packet, tab, accepted, past, runs, lost>>

-----------------------------------------------------------------------------
(* The flow: finding the form.                                             *)

\* What checkAbort does not guard: the clicks and the jump come right after an
\* answer.
Unchecked == {"goto", "clickNext", "click"}

At(t, pc) == Active(t) /\ Flow(t).pc = pc /\ (pc \in Unchecked \/ ~Flow(t).aborted)

Continue(t, f) == tab' = [tab EXCEPT ![t].flow = f]
Go(t, pc)      == [Flow(t) EXCEPT !.pc = pc]
Outcome(t, o)  == [NoFlow EXCEPT !.n = Flow(t).n, !.mode = Flow(t).mode,
                                 !.aborted = Flow(t).aborted, !.pc = "report", !.outcome = o]
NeedsUser(t)   == Outcome(t, "needs_input")
RunOf(t)       == run[Flow(t).mode]

\* checkAbort: the next check throws, and nothing is reported.
Aborts(t) ==
    /\ Active(t) /\ Flow(t).aborted /\ Flow(t).pc \notin Unchecked
    /\ Continue(t, NoFlow)
    /\ UNCHANGED <<server, run, watches, packet, accepted, past, bounds>>

\* handleProgress: the run record becomes r.
HandleProgress(m, r) == run' = [run EXCEPT ![m] = r]

\* progress: the run record becomes r and the flow goes on as f.  A document
\* that no longer has the run gives up; any other failure is ignored.
Progress(t, r, f) ==
    /\ \/ /\ Managed(Flow(t))
          /\ HandleProgress(Flow(t).mode, r)
          /\ Continue(t, f)
          /\ UNCHANGED <<past, lost>>
       \/ /\ ~Managed(Flow(t))
          /\ Continue(t, NoFlow)
          /\ UNCHANGED <<run, past, lost>>
       \/ /\ Managed(Flow(t)) /\ Lose(1)
          /\ past' = [past EXCEPT ![Flow(t).n].unsaved = TRUE]
          /\ Continue(t, f)
          /\ UNCHANGED run
    /\ UNCHANGED <<server, watches, packet, accepted, runs, byHand>>

\* A step of the flow between two calls.
Locally(t, fs) ==
    /\ \E f \in fs : Continue(t, f)
    /\ UNCHANGED <<server, run, watches, packet, accepted, past, bounds>>

Locate(t) ==
    /\ At(t, "locate")
    /\ Progress(t, [RunOf(t) EXCEPT !.phase = "filling"], Go(t, "find"))

FindForm(t) ==
    /\ At(t, "find")
    /\ Locally(t, {IF tab[t].page = "gateway" THEN Go(t, "hop")
                   ELSE IF tab[t].page \in HasForm THEN Go(t, "read") ELSE NeedsUser(t)})

MayHop(r) == r.hops < MaxHops
Hopped(r) == [r EXCEPT !.hops = @ + 1]

\* hop and hopAllowed.  The form may be on a site the background refuses; when
\* only the answer is lost the call is made again, and counts again.
Hop(t) ==
    /\ At(t, "hop")
    /\ \/ /\ Continue(t, NeedsUser(t))
          /\ UNCHANGED <<run, lost>>
       \/ /\ Managed(Flow(t)) /\ MayHop(RunOf(t))
          /\ run' = [run EXCEPT ![Flow(t).mode] = Hopped(@)]
          /\ \/ Continue(t, Go(t, "goto")) /\ UNCHANGED lost
             \/ Lose(1) /\ UNCHANGED tab
    /\ UNCHANGED <<server, watches, packet, accepted, past, runs, byHand>>

\* location.assign: the flow ends without a result, on purpose.
Goto(t) ==
    /\ At(t, "goto")
    /\ past' = [past EXCEPT ![Flow(t).n].hops = @ + 1]
    /\ \E page \in Landing : tab' = [tab EXCEPT ![t] = Document(@, page)]
    /\ UNCHANGED <<server, run, watches, packet, accepted, bounds>>

-----------------------------------------------------------------------------
(* The flow: filling a step.                                               *)

ReadStep(t) ==
    /\ At(t, "read")
    /\ Progress(t, RunOf(t), Go(t, "ask"))

\* askServer: answered, not now (no key, rate limit, no connection), or never
\* (the application is gone, the fields are refused).
AskServer(t) ==
    /\ At(t, "ask")
    /\ Locally(t, IF Managed(Flow(t))
                  THEN {Go(t, "fill"), Outcome(t, "released"), Outcome(t, "failed")}
                  ELSE {NoFlow})

\* Files, answers, cover letter, then the required fields are checked: the step
\* is complete, or the user is needed.  A complete step has a Next button, or a
\* submit button, or none.  After a refused submission only submit counts.
AfterFill(t) ==
    LET f == [Flow(t) EXCEPT !.corrective = "no"] IN
    {[f EXCEPT !.pc = "presubmit"], NeedsUser(t)}
      \cup (IF Flow(t).corrective = "submit" THEN {} ELSE {[f EXCEPT !.pc = "next"]})

FillStep(t) ==
    /\ At(t, "fill")
    /\ \E f \in AfterFill(t) : Continue(t, f)
    /\ past' = IF Flow(t).corrective = "no" THEN past
               ELSE [past EXCEPT ![Flow(t).n].fixes = @ + 1]
    /\ UNCHANGED <<server, run, watches, packet, accepted, bounds>>

\* The step to come is stored before Next is pressed.
Next_(t) ==
    /\ At(t, "next")
    /\ Progress(t, [RunOf(t) EXCEPT !.phase = "filling"], Go(t, "clickNext"))

\* The form shows other fields, in this document or in the next, or does not move.
ClickNext(t) ==
    /\ At(t, "clickNext")
    /\ \/ \E pc \in {"moved", "stuck"} : Continue(t, Go(t, pc))
       \/ tab' = [tab EXCEPT ![t] = Document(@, "form")]
    /\ UNCHANGED <<server, run, watches, packet, accepted, past, bounds>>

StepMoved(t) ==
    /\ At(t, "moved")
    /\ Locally(t, {Go(t, "read"), NeedsUser(t)})

\* One corrective pass for a step the form does not accept.
StepStuck(t) ==
    /\ At(t, "stuck")
    /\ IF Flow(t).passes < 1
       THEN Progress(t, [RunOf(t) EXCEPT !.passes = Flow(t).passes + 1],
                     [Go(t, "read") EXCEPT !.passes = @ + 1, !.corrective = "step"])
       ELSE Locally(t, {NeedsUser(t)})

-----------------------------------------------------------------------------
(* The flow: submitting.                                                   *)

\* A CAPTCHA may solve itself; a required field may turn out empty.
MayPress(t) == Flow(t).auto /\ tab[t].page # "captcha"

SubmitStage(t) ==
    /\ At(t, "presubmit")
    /\ \/ Locally(t, {NeedsUser(t)})
       \/ MayPress(t) /\ Locally(t, {[Go(t, "press") EXCEPT !.attempts = @ + 1]})

\* Mutant: the press is not stored before it is made.
PressUnstored(r, f) == [r EXCEPT !.attempts = f.attempts]

PressStored(r, f) == [r EXCEPT !.phase = "submitting", !.attempts = f.attempts]

StorePress(t) ==
    /\ At(t, "press")
    /\ Progress(t, PressStored(RunOf(t), Flow(t)), Go(t, "click"))

\* fireClick.  Errors on the page belong to the baseline from here on.
PressSubmit(t) ==
    /\ At(t, "click")
    /\ tab' = [tab EXCEPT ![t].flow.pc = "watch", ![t].pressed = "flow", ![t].back = FALSE,
                          ![t].page = IF @ = "errors" THEN "form" ELSE @]
    /\ past' = [past EXCEPT ![Flow(t).n].presses = @ + 1]
    /\ UNCHANGED <<server, run, watches, packet, accepted, bounds>>

\* Mutant of correctAndResubmit: a second corrective pass.
CorrectTwice(f) == f.passes < 2 /\ f.attempts < 3

\* The form is on an origin that was admitted: any other is an "other" page.
MayCorrect(f) == f.passes < 1 /\ f.attempts < 2

Corrected(t) ==
    IF MayCorrect(Flow(t)) THEN [Go(t, "correct") EXCEPT !.passes = @ + 1] ELSE NeedsUser(t)

\* Mutant: a form that no longer shows errors has been taken.
UnconfirmedTaken == "submitted"

Unconfirmed == "needs_input"

\* watchOutcome: what it sees, or nothing within its time.
WatchOutcome(t) ==
    /\ At(t, "watch")
    /\ Locally(t, CASE tab[t].page = "thanks" -> {Outcome(t, "submitted")}
                   [] tab[t].page = "code"   -> {Go(t, "verify")}
                   [] tab[t].page = "errors" -> {Corrected(t)}
                   [] OTHER                  -> {Outcome(t, Unconfirmed)})

\* The phase is "filling" again for the pass that corrects and presses again.
CorrectAndResubmit(t) ==
    /\ At(t, "correct")
    /\ Progress(t, [RunOf(t) EXCEPT !.phase = "filling", !.passes = Flow(t).passes],
                [Go(t, "read") EXCEPT !.corrective = "submit"])

\* Mutant: any form that comes back is filled and submitted again.
ResubmitAnyForm == {"errors", "form"}

ResubmitOn == {"errors"}

\* afterSubmitNavigation: a new document after a press.
AfterSubmitNavigation(t) ==
    /\ At(t, "after")
    /\ Locally(t, CASE tab[t].page = "thanks"       -> {Outcome(t, "submitted")}
                   [] tab[t].page = "code"         -> {Go(t, "verify")}
                   [] tab[t].page \in ResubmitOn   -> {Corrected(t)}
                   [] OTHER                        -> {NeedsUser(t)})

-----------------------------------------------------------------------------
(* The flow: codes sent by email.                                          *)

VerifyStage(t) ==
    /\ At(t, "verify")
    /\ Progress(t, [RunOf(t) EXCEPT !.phase = "verifying"], Go(t, "poll"))

\* A code arrives and is entered, or a link does, or nothing within the time.
PollCodes(t) ==
    /\ At(t, "poll")
    /\ \/ Continue(t, NeedsUser(t))
       \/ /\ tab[t].page = "code" /\ Managed(Flow(t))
          /\ tab' = [tab EXCEPT ![t].flow.pc = "codeWatch", ![t].pressed = "code"]
    /\ UNCHANGED <<server, run, watches, packet, accepted, past, bounds>>

WatchCode(t) ==
    /\ At(t, "codeWatch")
    /\ Locally(t, {CASE tab[t].page = "thanks"  -> Outcome(t, "submitted")
                    [] tab[t].page = "captcha" -> NeedsUser(t)
                    [] OTHER                   -> Go(t, "poll")})

-----------------------------------------------------------------------------
(* The flow: its result, and the watch for what the user does.             *)

WatchedAfter(t, answered) == answered /\ Flow(t).outcome = "needs_input"

Reported(t, answered) ==
    LET r == [tab[t] EXCEPT !.flow = NoFlow, !.finished = @ \cup {Flow(t).n}] IN
    [tab EXCEPT ![t] = IF WatchedAfter(t, answered) THEN StartWatch(r, FALSE) ELSE r]

\* report.  The call is retried when its answer is lost, but by then the run is
\* over and the retry is refused; or the call never arrives.
Report(t) ==
    /\ At(t, "report")
    /\ \/ /\ Managed(Flow(t))
          /\ \E answered \in BOOLEAN :
                /\ Lose(IF answered THEN 0 ELSE 1)
                /\ FinishRun(Flow(t).mode, Flow(t).outcome, Reported(t, answered))
       \/ /\ tab' = Reported(t, FALSE)
          /\ Lose(IF Managed(Flow(t)) THEN 1 ELSE 0)
          /\ UNCHANGED <<server, run, watches>>
    /\ UNCHANGED <<packet, accepted, past, runs, byHand>>

\* handleWatchConfirmed: reported once, whether the call arrives or not.
WatchConfirmed(t) ==
    /\ tab[t].open /\ tab[t].watching /\ tab[t].armed /\ tab[t].page = "thanks"
    /\ tab' = [tab EXCEPT ![t].watching = FALSE]
    /\ \/ /\ t \in watches
          /\ Record("submitted")
          /\ watches' = watches \ {t}
          /\ UNCHANGED lost
       \/ /\ Lose(IF t \in watches THEN 1 ELSE 0)
          /\ UNCHANGED <<server, watches>>
    /\ UNCHANGED <<run, packet, accepted, past, runs, byHand>>

-----------------------------------------------------------------------------
(* The site, and the user in its page.                                     *)

Taken == {"thanks", "other"}

\* The site answers a press, in this document or in a new one: it takes the
\* application, asks for a code or a CAPTCHA, or returns errors.
SiteAnswers(t) ==
    /\ tab[t].open /\ tab[t].pressed # "no"
    /\ \E page \in Taken \cup (IF tab[t].pressed = "code" THEN {"code", "captcha"}
                               ELSE {"errors", "captcha", "code"}) :
          LET r == [tab[t] EXCEPT !.pressed = "no", !.page = page,
                                  !.back = (page = "errors")] IN
          /\ tab' \in {[tab EXCEPT ![t] = r], [tab EXCEPT ![t] = Document(r, page)]}
          /\ accepted' = IF page \in Taken THEN accepted + 1 ELSE accepted
    /\ UNCHANGED <<server, run, watches, packet, past, bounds>>

\* A page in which something is under way is loaded again; the site may still
\* have a press to answer.
Reload(t) ==
    /\ tab[t].open /\ Lose(1)
    /\ RunsIn(t) # {} \/ tab[t].watching \/ tab[t].pressed # "no"
    /\ tab' = [tab EXCEPT ![t] = [Document(@, IF @.page = "errors" THEN "form" ELSE @.page)
                                    EXCEPT !.pressed = tab[t].pressed]]
    /\ UNCHANGED <<server, run, watches, packet, accepted, past, runs, byHand>>

\* The user finishes a form no flow is working on and submits it; the watch of
\* this document sees the click.
UserSubmits(t) ==
    /\ tab[t].open /\ ~Active(t) /\ tab[t].greeted /\ RunsIn(t) = {}
    /\ tab[t].page \in HasForm \cup {"code"} /\ tab[t].pressed = "no"
    /\ byHand < MaxByHand
    /\ byHand' = byHand + 1
    /\ tab' = [tab EXCEPT ![t].pressed = "user", ![t].back = FALSE,
                          ![t].armed = tab[t].watching]
    /\ UNCHANGED <<server, run, watches, packet, accepted, past, runs, lost>>

-----------------------------------------------------------------------------
FlowStep(t) ==
    \/ Aborts(t) \/ Locate(t) \/ FindForm(t) \/ Hop(t) \/ Goto(t)
    \/ ReadStep(t) \/ AskServer(t) \/ FillStep(t) \/ Next_(t) \/ ClickNext(t)
    \/ StepMoved(t) \/ StepStuck(t) \/ SubmitStage(t) \/ StorePress(t) \/ PressSubmit(t)
    \/ WatchOutcome(t) \/ CorrectAndResubmit(t) \/ AfterSubmitNavigation(t)
    \/ VerifyStage(t) \/ PollCodes(t) \/ WatchCode(t) \/ Report(t)

TabStep(t) ==
    \/ FlowStep(t)
    \/ Hello(t) \/ HelloLost(t) \/ WatchConfirmed(t) \/ TabRemoved(t)
    \/ BeginApplication(t) \/ OpenPacket(t) \/ StartManualFill(t)
    \/ SiteAnswers(t) \/ Reload(t) \/ UserSubmits(t)

Next ==
    \/ \E t \in Tabs : TabStep(t)
    \/ \E m \in Modes : Kick(m) \/ DeadlinePasses(m)
    \/ StopCurrent
    \/ UserRetries

Spec == Init /\ [][Next]_vars

-----------------------------------------------------------------------------
(* Properties.                                                             *)

\* Over all its documents a run opens at most MAX_HOPS pages on its own, is
\* corrected once and presses submit twice at most, and only if it may submit.
\* A run whose progress could not be stored is excused (flow.ts:133).
RunLimits ==
    \A n \in 1..MaxRuns :
        /\ past[n].hops <= MaxHops
        /\ past[n].presses > 0 => past[n].auto
        /\ past[n].unsaved \/ (past[n].presses <= 2 /\ past[n].fixes <= 1)

\* A form that was submitted is submitted again by the same run only after it
\* came back with errors (flow.ts:558).
PressedAgainOnErrors ==
    [][\A t \in Tabs : PressSubmit(t) =>
          \/ past[Flow(t).n].presses = 0
          \/ tab[t].back
          \/ past[Flow(t).n].unsaved]_vars

\* Unless the user stops it, a run that has pressed submit is not handed back
\* or declared failed while the site may have taken the application.
GivenUpUnsent ==
    [][\A m \in Modes :
          (/\ run[m].n # 0 /\ run'[m].n = 0 /\ byHand' = byHand
           /\ server = "in_progress" /\ server' \in {"ready", "failed"})
          => \/ past[run[m].n].presses = 0
             \/ tab[run[m].tab].back
             \/ past[run[m].n].unsaved]_vars

\* With the user out of the way and no progress lost, the site gets the
\* application once, whatever the pages do.
AcceptedOnce ==
    accepted > 1 => byHand > 0 \/ \E n \in 1..MaxRuns : past[n].unsaved

\* What the server calls submitted the site has taken.
SubmittedWasAccepted == server = "submitted" => accepted > 0
=============================================================================
