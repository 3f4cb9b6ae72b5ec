-------------------------- MODULE FormFlow_proofs --------------------------
(* For any tabs and bounds: what a run may do over all its documents, and    *)
(* that the site gets the application once.                                  *)
EXTENDS FormFlow, TLAPS

-----------------------------------------------------------------------------
(* A run and a flow, each against its tab T and what the run has done, p.    *)
(* What is not stored of a run is not known after the next page load: the    *)
(* clauses on presses and corrective passes excuse a run that lost a call.   *)

Early == {"opening", "filling"}
Late  == {"submitting", "verifying"}

EarlyPCs == {"locate", "find", "hop", "goto", "read", "ask", "fill", "next", "clickNext",
             "moved", "stuck", "presubmit", "press"}
LatePCs  == {"click", "watch", "correct", "after", "verify", "poll", "codeWatch"}

\* A run as it is stored.  Of a fill by hand the user may press the button.
RunFit(m, r, T, p) ==
    /\ T.open
    /\ r.auto => p.auto /\ m = "auto"
    /\ p.hops <= r.hops
    /\ ~p.unsaved =>
          /\ r.passes <= 1
          /\ r.attempts <= IF r.phase \in Late THEN r.passes + 1 ELSE r.passes
          /\ p.presses <= r.attempts /\ p.fixes <= r.passes
          /\ m = "auto" =>
                /\ r.phase \in Early => T.pressed = "no" /\ (p.presses = 0 \/ T.back)
                /\ T.page = "errors" => T.pressed = "no" /\ T.back

\* A flow, whether its run goes on or not ...
LooseFit(f, T, p) ==
    /\ f.auto => p.auto /\ f.mode = "auto"
    /\ f.pc \in {"press", "click"} => f.auto
    /\ f.corrective # "no" => f.pc \in {"read", "ask", "fill"}
    /\ f.pc = "goto" => p.hops < MaxHops
    /\ ~p.unsaved =>
          /\ f.pc = "click" => p.presses <= 1 /\ T.pressed = "no" /\ (p.presses = 0 \/ T.back)
          /\ f.corrective # "no" => p.fixes = 0

\* ... and while it does, as r.
TiedFit(f, T, r, p) ==
    /\ f.pc = "goto" => p.hops < r.hops
    /\ ~p.unsaved =>
          /\ f.pc # "report" =>
                /\ f.attempts = IF f.pc = "press" THEN r.attempts + 1 ELSE r.attempts
                /\ f.passes = IF f.pc = "correct" THEN r.passes + 1 ELSE r.passes
          /\ f.pc \in EarlyPCs => r.phase \in Early
          /\ f.pc \in LatePCs => r.phase \in Late
          /\ f.pc = "report" /\ f.outcome \in {"released", "failed"} => r.phase \in Early
          /\ f.pc = "click" => p.presses < r.attempts
          /\ f.corrective # "no" => p.fixes < r.passes
          /\ f.pc = "correct" => /\ f.passes = 1 /\ f.attempts <= 1
                                 /\ f.mode = "auto" => T.page = "errors"

FlowFits(t) ==
    Active(t) => /\ LooseFit(Flow(t), tab[t], past[Flow(t).n])
                 /\ Managed(Flow(t)) => TiedFit(Flow(t), tab[t], RunOf(t), past[Flow(t).n])

RunsFit(t) ==
    \A m \in Modes :
        run[m].n # 0 /\ run[m].tab = t => RunFit(m, run[m], tab[t], past[run[m].n])

FitInv == \A t \in Tabs : RunsFit(t) /\ FlowFits(t)

-----------------------------------------------------------------------------
(* Which flow works on which run.                                            *)

NumbersInv ==
    /\ \A m \in Modes : run[m].n <= runs
    /\ \A t \in Tabs : Flow(t).n <= runs
    /\ \A n \in 1..MaxRuns : n > runs => past[n].presses = 0 /\ past[n].fixes = 0 /\ past[n].hops = 0

PlacesInv ==
    /\ \A t \in packet : tab[t].open
    /\ \A t \in Tabs : ~tab[t].open => ~Active(t) /\ tab[t].pressed = "no"
    /\ run["auto"].n # 0 =>
          /\ run["auto"].tab \notin packet
          /\ run["manual"].n # 0 => run["manual"].tab # run["auto"].tab
          /\ run["manual"].n # run["auto"].n

FlowsInv ==
    /\ \A t \in Tabs, m \in Modes : Active(t) /\ run[m].n # 0 =>
          /\ run[m].tab = t <=> Flow(t).n = run[m].n
          /\ run[m].tab = t => Flow(t).mode = m
    /\ \A t, u \in Tabs : Active(t) /\ Flow(t).n = Flow(u).n => t = u

-----------------------------------------------------------------------------
(* What the site has taken, and how often.                                   *)

\* As long as nothing has been taken no page, flow or server says otherwise.
SaysUntaken(t) == tab[t].page # "thanks" /\ Flow(t).outcome # "submitted"

UntakenInv == accepted = 0 => server # "submitted" /\ \A t \in Tabs : SaysUntaken(t)

\* The user is out of the way and no progress is lost.
Clean == byHand = 0 /\ \A n \in 1..MaxRuns : ~past[n].unsaved

Quiet(t) == ~Active(t) /\ tab[t].pressed = "no"
Pressing(t) == tab[t].pressed # "no" \/ (Active(t) /\ Flow(t).pc = "click")

\* The application is with the site, or its answer in the tab, only while no
\* second press can come.
OpenRun ==
    LET r == run["auto"] IN
    /\ r.n # 0 /\ watches = {}
    /\ \A t \in Tabs : Quiet(t) \/ t = r.tab
    /\ r.phase \in Early \/ tab[r.tab].page \in {"errors", "code"} => accepted = 0

OnceInv ==
    /\ accepted <= 1
    /\ run["manual"].n = 0 /\ packet = {}
    /\ \A t, u \in Tabs : t = u \/ Quiet(t) \/ Quiet(u)
    /\ \A t \in Tabs : Pressing(t) => accepted = 0
    /\ server = "ready" =>
          accepted = 0 /\ run["auto"].n = 0 /\ watches = {} /\ \A t \in Tabs : Quiet(t)
    /\ server = "in_progress" => OpenRun
    /\ run["auto"].n # 0 => server = "in_progress"

CleanInv == Clean => OnceInv

ShapeInv == NumbersInv /\ PlacesInv /\ FlowsInv

Inv == TypeOK /\ ShapeInv /\ FitInv /\ RunLimits /\ UntakenInv /\ CleanInv

-----------------------------------------------------------------------------
(* The records the model is built from.                                      *)

LEMMA NoTabIs == NoTab \in Tabs
  BY BoundsAssumption DEF BoundsAssumption, NoTab

LEMMA NoRunIs == NoRun \in RunRec /\ NoRun.n = 0 /\ ~NoRun.auto
  BY BoundsAssumption, NoTabIs DEF BoundsAssumption, NoRun, RunRec, Phases

LEMMA NoFlowIs ==
    /\ NoFlow \in FlowRec /\ NoFlow.n = 0 /\ NoFlow.mode = "auto" /\ ~NoFlow.aborted
    /\ ~NoFlow.auto /\ NoFlow.corrective = "no" /\ NoFlow.outcome = "failed"
  BY BoundsAssumption DEF BoundsAssumption, NoFlow, FlowRec, Modes, PCs, Outcomes

LEMMA ClosedIs ==
    /\ Closed \in TabRec /\ Closed.flow = NoFlow /\ Closed.pressed = "no" /\ ~Closed.back
    /\ Closed.page = "other" /\ ~Closed.open
  BY NoFlowIs DEF Closed, TabRec, Pages

\* Two states of a tab that look the same to a run and a flow.
SameView(T, U) == T.open = U.open /\ T.page = U.page /\ T.pressed = U.pressed /\ T.back = U.back

LEMMA DocumentIs ==
    ASSUME NEW T \in TabRec, NEW page \in Pages
    PROVE  /\ Document(T, page) \in TabRec
           /\ Document(T, page).open /\ Document(T, page).page = page
           /\ Document(T, page).pressed = "no" /\ Document(T, page).back = T.back
           /\ Document(T, page).flow = NoFlow
  <1>1. T.back \in BOOLEAN /\ T.closing \in BOOLEAN
    BY DEF TabRec
  <1> QED
    BY <1>1, ClosedIs, NoFlowIs DEF Document, Closed, TabRec

LEMMA StartWatchIs ==
    ASSUME NEW T \in TabRec, NEW fresh \in BOOLEAN
    PROVE  /\ StartWatch(T, fresh) \in TabRec
           /\ SameView(StartWatch(T, fresh), T)
           /\ StartWatch(T, fresh).flow = T.flow
  BY DEF StartWatch, TabRec, SameView

LEMMA JobIs ==
    ASSUME TypeOK, NEW m \in Modes, NEW page \in Pages
    PROVE  LET job == Job(m, page) IN
           /\ job \in FlowRec
           /\ job.n = run[m].n /\ job.mode = m /\ job.attempts = run[m].attempts
           /\ job.passes = run[m].passes /\ job.auto = run[m].auto
           /\ job.corrective = "no" /\ job.outcome = "needs_input"
           /\ \/ job.pc = "after" /\ run[m].phase \in Late
              \/ job.pc \in {"report", "locate"} /\ run[m].phase \in Early
  <1> DEFINE pc == IF run[m].phase \in {"submitting", "verifying"} THEN "after"
                   ELSE IF page = "other" THEN "report" ELSE "locate"
  <1>1. run[m] \in RunRec
    BY DEF TypeOK
  <1>2. /\ pc \in PCs
        /\ \/ pc = "after" /\ run[m].phase \in Late
           \/ pc \in {"report", "locate"} /\ run[m].phase \in Early
    BY <1>1 DEF PCs, RunRec, Phases, Late, Early
  <1> HIDE DEF pc
  <1>3. Job(m, page) = [NoFlow EXCEPT !.n = run[m].n, !.mode = m, !.attempts = run[m].attempts,
                               !.passes = run[m].passes, !.auto = run[m].auto, !.pc = pc,
                               !.outcome = "needs_input"]
    BY DEF Job, pc
  <1>4. /\ run[m].n \in 0..MaxRuns /\ run[m].attempts \in Nat /\ run[m].passes \in Nat
        /\ run[m].auto \in BOOLEAN /\ m \in Modes /\ "needs_input" \in Outcomes
    BY <1>1 DEF RunRec, Outcomes
  <1> QED
    BY <1>2, <1>3, <1>4, NoFlowIs DEF NoFlow, FlowRec

LEMMA StartFlowIs ==
    ASSUME NEW T \in TabRec, NEW job \in FlowRec
    PROVE  /\ StartFlow(T, job) \in TabRec
           /\ SameView(StartFlow(T, job), T)
           /\ StartFlow(T, job).flow \in {T.flow, job}
           /\ ~(job.n \in T.finished \/ T.flow.n = job.n) => StartFlow(T, job).flow = job
  BY DEF StartFlow, TabRec, SameView

LEMMA OutcomeIs ==
    ASSUME NEW t, Flow(t) \in FlowRec, NEW o \in Outcomes
    PROVE  LET f == Outcome(t, o) IN
           /\ f \in FlowRec /\ f.n = Flow(t).n /\ f.mode = Flow(t).mode
           /\ f.pc = "report" /\ f.outcome = o /\ f.corrective = "no" /\ ~f.auto
  <1>1. "report" \in PCs
    BY DEF PCs
  <1> QED
    BY <1>1, NoFlowIs DEF Outcome, NoFlow, FlowRec

LEMMA GoIs ==
    ASSUME NEW t, Flow(t) \in FlowRec, NEW pc \in PCs
    PROVE  LET f == Go(t, pc) IN
           /\ f \in FlowRec /\ f.n = Flow(t).n /\ f.mode = Flow(t).mode
           /\ f.pc = pc /\ f.outcome = Flow(t).outcome /\ f.corrective = Flow(t).corrective
           /\ f.auto = Flow(t).auto /\ f.attempts = Flow(t).attempts
           /\ f.passes = Flow(t).passes
  BY DEF Go, FlowRec

-----------------------------------------------------------------------------
(* A step touches one tab, the run in it and what that run has done.         *)

\* The runs of tab t go on as they are, make progress, or end.
RunMoves(t, m) ==
    \/ run'[m] = run[m]
    \/ run'[m].n = 0
    \/ run[m].n # 0 /\ run[m].tab = t /\ run'[m].n = run[m].n /\ run'[m].tab = t

\* The flow of tab t ends, goes on, or is started for a run that is in t.
FlowMoves(t) ==
    \/ Flow(t)'.n = 0
    \/ Flow(t)'.n = Flow(t).n /\ Flow(t)'.mode = Flow(t).mode
    \/ \E m \in Modes : /\ run[m].n # 0 /\ run[m].tab = t /\ run'[m] = run[m]
                        /\ Flow(t)'.n = run[m].n /\ Flow(t)'.mode = m

TabMoves(t) ==
    /\ \A u \in Tabs : u # t => tab'[u] = tab[u]
    /\ \A m \in Modes : RunMoves(t, m)
    /\ \A n \in 1..MaxRuns : n # Flow(t).n => past'[n] = past[n]
    /\ FlowMoves(t)

LEMMA TabIs ==
    ASSUME TypeOK, NEW t \in Tabs, NEW T \in TabRec, tab' = [tab EXCEPT ![t] = T]
    PROVE  /\ tab' \in [Tabs -> TabRec]
           /\ tab'[t] = T
           /\ \A u \in Tabs : u # t => tab'[u] = tab[u]
  BY DEF TypeOK

LEMMA TabTypes ==
    ASSUME TypeOK, NEW t \in Tabs
    PROVE  /\ tab[t] \in TabRec /\ Flow(t) \in FlowRec
           /\ tab[t].page \in Pages /\ tab[t].open \in BOOLEAN
           /\ Flow(t).n \in 0..MaxRuns /\ Flow(t).mode \in Modes /\ Flow(t).pc \in PCs
           /\ Flow(t).attempts \in Nat /\ Flow(t).passes \in Nat
  BY DEF TypeOK, TabRec, FlowRec, Flow

LEMMA RunTypes ==
    ASSUME TypeOK, NEW m \in Modes
    PROVE  /\ run[m] \in RunRec /\ run[m].n \in 0..MaxRuns /\ run[m].tab \in Tabs
           /\ run[m].phase \in Phases /\ run[m].attempts \in Nat /\ run[m].passes \in Nat
           /\ run[m].hops \in 0..MaxHops /\ run[m].auto \in BOOLEAN
  BY DEF TypeOK, RunRec

LEMMA PastTypes ==
    ASSUME TypeOK, NEW n \in 1..MaxRuns
    PROVE  /\ past[n] \in PastRec /\ past[n].presses \in Nat /\ past[n].fixes \in Nat
           /\ past[n].hops \in Nat
  BY DEF TypeOK, PastRec

\* The other tabs stay fit, with their flows and runs.
LEMMA OthersFit ==
    ASSUME TypeOK, ShapeInv, FitInv, NEW t \in Tabs, TabMoves(t), NEW u \in Tabs, u # t
    PROVE  RunsFit(u)' /\ FlowFits(u)'
  <1>1. tab'[u] = tab[u] /\ Flow(u)' = Flow(u) /\ RunsFit(u) /\ FlowFits(u)
    BY DEF TabMoves, FitInv, Flow
  <1>2. ASSUME NEW m \in Modes, run'[m].n # 0, run'[m].tab = u
        PROVE  run'[m] = run[m] /\ past'[run[m].n] = past[run[m].n]
    <2>1. run'[m] = run[m]
      BY <1>2 DEF TabMoves, RunMoves
    <2>2. run[m].n # Flow(t).n
      BY <1>2, <2>1 DEF ShapeInv, FlowsInv, Active
    <2>3. run[m].n \in 1..MaxRuns
      BY <1>2, <2>1, RunTypes, BoundsAssumption DEF BoundsAssumption
    <2> QED
      BY <2>1, <2>2, <2>3 DEF TabMoves
  <1>3. RunsFit(u)'
    <2>1. ASSUME NEW m \in Modes, run'[m].n # 0, run'[m].tab = u
          PROVE  RunFit(m, run'[m], tab'[u], past'[run'[m].n])
      <3>1. RunFit(m, run[m], tab[u], past[run[m].n])
        BY <2>1, <1>1, <1>2 DEF RunsFit
      <3> QED
        BY <3>1, <2>1, <1>1, <1>2
    <2> QED
      BY <2>1 DEF RunsFit, RunFit, Early, Late
  <1>4. FlowFits(u)'
    <2> SUFFICES ASSUME Active(u)
                 PROVE  /\ LooseFit(Flow(u), tab[u], past[Flow(u).n])'
                        /\ Managed(Flow(u))' => TiedFit(Flow(u), tab[u], RunOf(u), past[Flow(u).n])'
      BY <1>1 DEF FlowFits, Active
    <2> DEFINE f == Flow(u)
               m == Flow(u).mode
    <2>1. f.n # 0 /\ f.n \in 1..MaxRuns /\ m \in Modes
      BY TabTypes, BoundsAssumption DEF BoundsAssumption, Active
    <2>2. f.n # Flow(t).n
      BY DEF ShapeInv, FlowsInv
    <2>3. past'[f.n] = past[f.n]
      BY <2>1, <2>2 DEF TabMoves
    <2>4. LooseFit(f, tab[u], past[f.n])
      BY <1>1 DEF FlowFits
    <2>5. LooseFit(f, tab[u], past[f.n])'
      BY <2>3, <2>4, <1>1 DEF LooseFit
    <2>6. ASSUME run'[m].n = f.n
          PROVE  TiedFit(f, tab[u], run[m], past[f.n])'
      <3>1. run[m].n = f.n /\ run'[m] = run[m]
        BY <2>1, <2>2, <2>6 DEF TabMoves, RunMoves, ShapeInv, FlowsInv
      <3>2. TiedFit(f, tab[u], run[m], past[f.n])
        BY <3>1, <1>1, <2>1 DEF FlowFits, Managed, RunOf
      <3> QED
        BY <3>1, <3>2, <2>3, <1>1 DEF TiedFit, EarlyPCs, LatePCs, Early, Late
    <2> QED
      BY <2>5, <2>6, <1>1 DEF Managed, RunOf
  <1> QED
    BY <1>3, <1>4

\* The tab may close, and a fill by hand may begin in it.
PlaceStays(t) ==
    /\ runs' = runs
    /\ tab'[t].open \/ (~Active(t)' /\ tab'[t].pressed = "no" /\ t \notin packet')
    /\ packet' \subseteq packet \cup {t}
    /\ packet' \subseteq packet \/ run'["auto"].n = 0

LEMMA ShapeStays ==
    ASSUME TypeOK, ShapeInv, NEW t \in Tabs, TabMoves(t), PlaceStays(t)
    PROVE  ShapeInv'
  <1>1. \A u \in Tabs : u # t => tab'[u] = tab[u] /\ Flow(u)' = Flow(u)
    BY DEF TabMoves, Flow
  <1>2. \A m \in Modes : run'[m].n # 0 => run'[m].n = run[m].n /\ run'[m].tab = run[m].tab
    BY DEF TabMoves, RunMoves
  <1>3. NumbersInv'
    <2>1. \A m \in Modes : run'[m].n <= runs
      BY <1>2, RunTypes DEF ShapeInv, NumbersInv, TypeOK
    <2>2. \A u \in Tabs : Flow(u)'.n <= runs
      BY <1>1, TabTypes DEF TabMoves, FlowMoves, ShapeInv, NumbersInv, TypeOK
    <2>3. ASSUME NEW n \in 1..MaxRuns, n > runs
          PROVE  past'[n] = past[n]
      BY <2>3, TabTypes DEF TabMoves, ShapeInv, NumbersInv, TypeOK
    <2> QED
      BY <2>1, <2>2, <2>3 DEF ShapeInv, NumbersInv, PlaceStays
  <1>4. PlacesInv'
    BY <1>1, <1>2 DEF ShapeInv, PlacesInv, PlaceStays, Active, Modes, TypeOK
  <1>5. FlowsInv'
    <2>1. ASSUME NEW u \in Tabs, NEW m \in Modes, Flow(u)'.n # 0, run'[m].n # 0
          PROVE  /\ run'[m].tab = u <=> Flow(u)'.n = run'[m].n
                 /\ run'[m].tab = u => Flow(u)'.mode = m
      <3>1. CASE u # t
        BY <2>1, <3>1, <1>1, <1>2 DEF ShapeInv, FlowsInv, Active
      <3>2. CASE u = t /\ Flow(t)'.n = Flow(t).n /\ Flow(t)'.mode = Flow(t).mode
        BY <2>1, <3>2, <1>2 DEF ShapeInv, FlowsInv, Active
      <3>3. CASE u = t /\ \E k \in Modes :
                   /\ run[k].n # 0 /\ run[k].tab = t /\ run'[k] = run[k]
                   /\ Flow(t)'.n = run[k].n /\ Flow(t)'.mode = k
        BY <2>1, <3>3, <1>2 DEF ShapeInv, PlacesInv, Modes
      <3> QED
        BY <2>1, <3>1, <3>2, <3>3 DEF TabMoves, FlowMoves
    <2>2. ASSUME NEW u \in Tabs, u # t, Flow(t)'.n # 0
          PROVE  Flow(u)'.n # Flow(t)'.n
      BY <2>2, <1>1 DEF TabMoves, FlowMoves, ShapeInv, FlowsInv, Active
    <2>3. \A u, v \in Tabs : Flow(u)'.n # 0 /\ Flow(u)'.n = Flow(v)'.n => u = v
      BY <2>2, <1>1 DEF ShapeInv, FlowsInv, Active
    <2> QED
      BY <2>1, <2>3 DEF FlowsInv, Active
  <1> QED
    BY <1>3, <1>4, <1>5 DEF ShapeInv

LEMMA FitStays ==
    ASSUME TypeOK, ShapeInv, FitInv, NEW t \in Tabs, TabMoves(t), RunsFit(t)', FlowFits(t)'
    PROVE  FitInv'
  <1>1. \A u \in Tabs : RunsFit(u)' /\ FlowFits(u)'
    BY OthersFit
  <1> QED
    BY <1>1 DEF FitInv

PastFit(p) ==
    /\ p.hops <= MaxHops
    /\ p.presses > 0 => p.auto
    /\ p.unsaved \/ (p.presses <= 2 /\ p.fixes <= 1)

\* What tab t does of which the other tabs must know, if the site is to get
\* the application once.
OnceHere(t) ==
    LET here == run["auto"].n # 0 /\ run["auto"].tab = t IN
    /\ accepted' <= 1
    /\ \A m \in Modes : run'[m].n = run[m].n
    /\ ~Quiet(t) \/ here \/ Quiet(t)'
    /\ accepted' = accepted \/ ~Quiet(t)
    /\ Pressing(t)' => accepted' = 0
    /\ here /\ (run'["auto"].phase \in Early \/ tab'[t].page \in {"errors", "code"}) =>
          accepted' = 0

LEMMA OnceStays ==
    ASSUME TypeOK, OnceInv, NEW t \in Tabs, TabMoves(t), OnceHere(t),
           server' = server, watches' \subseteq watches, packet' \subseteq packet
    PROVE  OnceInv'
  <1> DEFINE r == run["auto"]
             here == r.n # 0 /\ r.tab = t
  <1>1. \A u \in Tabs : u # t => /\ tab'[u] = tab[u] /\ Flow(u)' = Flow(u)
                                 /\ Quiet(u)' <=> Quiet(u)
                                 /\ Pressing(u)' <=> Pressing(u)
    BY DEF TabMoves, Flow, Active, Quiet, Pressing
  <1>2. /\ r'.n = r.n /\ run'["manual"].n = run["manual"].n
        /\ r.n # 0 => r'.tab = r.tab
        /\ r.n # 0 /\ r.tab # t => r' = r
    BY DEF OnceHere, TabMoves, RunMoves, Modes
  <1>3. ~Quiet(t) \/ here => \A u \in Tabs : u # t => Quiet(u)
    BY DEF OnceInv, OpenRun
  <1>4. \A u, v \in Tabs : u = v \/ Quiet(u)' \/ Quiet(v)'
    BY <1>1, <1>3 DEF OnceInv, OnceHere
  <1>5. \A u \in Tabs : Quiet(u) => ~Pressing(u)
    BY DEF Quiet, Pressing
  <1>6. \A u \in Tabs : Pressing(u)' => accepted' = 0
    BY <1>1, <1>3, <1>5 DEF OnceInv, OnceHere
  <1>7. server = "ready" => /\ accepted' = 0 /\ r'.n = 0 /\ watches = {}
                            /\ \A u \in Tabs : Quiet(u)'
    BY <1>1, <1>2 DEF OnceInv, OnceHere
  <1>8. ASSUME server = "in_progress"
        PROVE  OpenRun'
    <2>1. /\ r.n # 0 /\ watches = {} /\ \A u \in Tabs : Quiet(u) \/ u = r.tab
          /\ r.phase \in Early \/ tab[r.tab].page \in {"errors", "code"} => accepted = 0
      BY <1>8 DEF OnceInv, OpenRun
    <2>2. \A u \in Tabs : Quiet(u)' \/ u = r.tab
      BY <2>1, <1>1 DEF OnceHere
    <2>3. r'.phase \in Early \/ tab'[r.tab].page \in {"errors", "code"} => accepted' = 0
      <3>1. CASE r.tab = t
        BY <3>1, <2>1 DEF OnceHere
      <3>2. CASE r.tab # t
        <4>1. r' = r /\ tab'[r.tab] = tab[r.tab]
          BY <3>2, <2>1, <1>1, <1>2, RunTypes DEF Modes
        <4>2. accepted' = accepted
          BY <3>2, <2>1 DEF OnceHere
        <4> QED
          BY <4>1, <4>2, <2>1
      <3> QED
        BY <3>1, <3>2
    <2> QED
      BY <2>1, <2>2, <2>3, <1>2 DEF OpenRun, Early
  <1>9. accepted' <= 1 /\ run'["manual"].n = 0 /\ packet' = {}
        /\ (r'.n # 0 => server = "in_progress")
    BY <1>2 DEF OnceInv, OnceHere
  <1> QED
    BY <1>4, <1>6, <1>7, <1>8, <1>9 DEF OnceInv

LEMMA MoveKeeps ==
    ASSUME Inv, TypeOK', NEW t \in Tabs, TabMoves(t), PlaceStays(t), RunsFit(t)', FlowFits(t)',
           Flow(t).n \in 1..MaxRuns => PastFit(past'[Flow(t).n]),
           accepted' = 0 => accepted = 0 /\ SaysUntaken(t)' /\ server' # "submitted",
           Clean' => OnceInv'
    PROVE  Inv'
  <1>1. ShapeInv' /\ FitInv'
    BY ShapeStays, FitStays DEF Inv
  <1>2. \A n \in 1..MaxRuns : PastFit(past'[n])
    BY DEF Inv, RunLimits, PastFit, TabMoves
  <1>3. RunLimits'
    BY <1>2 DEF RunLimits, PastFit
  <1>4. UntakenInv'
    BY DEF Inv, UntakenInv, SaysUntaken, TabMoves, Flow
  <1> QED
    BY <1>1, <1>3, <1>4 DEF Inv, CleanInv

LEMMA StepKeeps ==
    ASSUME Inv, TypeOK', NEW t \in Tabs, TabMoves(t), tab'[t].open, RunsFit(t)', FlowFits(t)',
           UNCHANGED <<server, watches, packet, runs>>,
           Flow(t).n \in 1..MaxRuns => PastFit(past'[Flow(t).n]),
           accepted' = 0 => accepted = 0 /\ SaysUntaken(t)',
           Clean' => Clean /\ OnceHere(t)
    PROVE  Inv'
  <1>1. PlaceStays(t)
    BY DEF PlaceStays
  <1>2. accepted' = 0 => server' # "submitted"
    BY DEF Inv, UntakenInv
  <1>3. Clean' => OnceInv'
    BY OnceStays DEF Inv, CleanInv
  <1> QED
    BY <1>1, <1>2, <1>3, MoveKeeps

\* The run of tab t is over, or its application is known to be submitted.
Settled(t) ==
    /\ \A m \in Modes : run'[m].n = 0
    /\ Quiet(t) => Quiet(t)'
    /\ Pressing(t)' => Pressing(t)
    /\ server' \in {"ready", "in_progress"} =>
          server' = "ready" /\ accepted = 0 /\ watches' = {} /\ \A u \in Tabs : Quiet(u)'

LEMMA SettleKeeps ==
    ASSUME Inv, TypeOK', NEW t \in Tabs, TabMoves(t), PlaceStays(t), RunsFit(t)', FlowFits(t)',
           UNCHANGED <<accepted, past>>, packet' \subseteq packet,
           accepted = 0 => SaysUntaken(t)' /\ server' # "submitted",
           Clean' => Clean /\ Settled(t)
    PROVE  Inv'
  <1>1. Flow(t).n \in 1..MaxRuns => PastFit(past'[Flow(t).n])
    BY DEF Inv, RunLimits, PastFit
  <1>2. ASSUME OnceInv, Settled(t)
        PROVE  OnceInv'
    <2>1. \A u \in Tabs : u # t => /\ Quiet(u)' <=> Quiet(u)
                                   /\ Pressing(u)' <=> Pressing(u)
      BY DEF TabMoves, Flow, Active, Quiet, Pressing
    <2>2. \A u, v \in Tabs : u = v \/ Quiet(u)' \/ Quiet(v)'
      BY <1>2, <2>1 DEF OnceInv, Settled
    <2>3. \A u \in Tabs : Pressing(u)' => accepted' = 0
      BY <1>2, <2>1 DEF OnceInv, Settled
    <2>4. accepted' <= 1 /\ packet' = {} /\ run'["manual"].n = 0 /\ run'["auto"].n = 0
      BY <1>2 DEF OnceInv, Settled, Modes
    <2>5. server' # "in_progress"
          /\ (server' = "ready" => accepted' = 0 /\ watches' = {} /\ \A u \in Tabs : Quiet(u)')
      BY <1>2 DEF Settled
    <2> QED
      BY <2>2, <2>3, <2>4, <2>5 DEF OnceInv
  <1> QED
    BY <1>1, <1>2, MoveKeeps DEF Inv, CleanInv

-----------------------------------------------------------------------------
(* A flow at work: its run, if it goes on, is the one in its tab.            *)

LEMMA Working ==
    ASSUME Inv, NEW t \in Tabs, Active(t)
    PROVE  LET f == Flow(t) IN
           /\ tab[t].open
           /\ f.n \in 1..MaxRuns /\ past[f.n] \in PastRec /\ PastFit(past[f.n])
           /\ LooseFit(f, tab[t], past[f.n])
           /\ Managed(f) => /\ RunOf(t).n = f.n /\ RunOf(t).tab = t
                            /\ TiedFit(f, tab[t], RunOf(t), past[f.n])
                            /\ RunFit(f.mode, RunOf(t), tab[t], past[f.n])
           /\ \A m \in Modes : run[m].n # 0 /\ run[m].tab = t => m = f.mode /\ Managed(f)
  <1> DEFINE f == Flow(t)
  <1>1. f.n \in 1..MaxRuns /\ f.n # 0 /\ f.mode \in Modes
    BY TabTypes, BoundsAssumption DEF Inv, BoundsAssumption, Active
  <1>2. past[f.n] \in PastRec /\ PastFit(past[f.n])
    BY <1>1, PastTypes DEF Inv, RunLimits, PastFit
  <1>3. tab[t].open
    BY DEF Inv, ShapeInv, PlacesInv
  <1>4. \A m \in Modes : run[m].n # 0 /\ run[m].tab = t => m = f.mode /\ Managed(f)
    BY <1>1 DEF Inv, ShapeInv, FlowsInv, Managed
  <1>5. Managed(f) => RunOf(t).n = f.n /\ RunOf(t).tab = t
    BY <1>1 DEF Inv, ShapeInv, FlowsInv, Managed, RunOf
  <1>6. FlowFits(t) /\ RunsFit(t)
    BY DEF Inv, FitInv
  <1>7. Managed(f) => RunFit(f.mode, RunOf(t), tab[t], past[f.n])
    BY <1>1, <1>5, <1>6 DEF RunsFit, RunOf
  <1> QED
    BY <1>1, <1>2, <1>3, <1>4, <1>5, <1>6, <1>7 DEF FlowFits

\* The flow goes on, ...
LEMMA FitsGoOn ==
    ASSUME Inv, NEW t \in Tabs, Active(t), TabMoves(t), \A m \in Modes : run'[m].n = run[m].n,
           Flow(t)'.n = Flow(t).n, Flow(t)'.mode = Flow(t).mode,
           LooseFit(Flow(t)', tab'[t], past'[Flow(t).n]),
           Managed(Flow(t)) =>
              /\ RunFit(Flow(t).mode, run'[Flow(t).mode], tab'[t], past'[Flow(t).n])
              /\ TiedFit(Flow(t)', tab'[t], run'[Flow(t).mode], past'[Flow(t).n])
    PROVE  RunsFit(t)' /\ FlowFits(t)'
  <1> DEFINE n == Flow(t).n
             k == Flow(t).mode
  <1>1. \A m \in Modes : run'[m].n # 0 /\ run'[m].tab = t => m = k /\ Managed(Flow(t))
    BY Working DEF TabMoves, RunMoves
  <1>2. k \in Modes /\ n # 0
    BY TabTypes DEF Inv, Active
  <1>3. Managed(Flow(t))' => Managed(Flow(t))
    BY <1>2 DEF Managed
  <1>4. Managed(Flow(t)) => run'[k].n = n
    BY <1>2 DEF Managed
  <1>5. ASSUME NEW m \in Modes, run'[m].n # 0, run'[m].tab = t
        PROVE  RunFit(m, run'[m], tab'[t], past'[run'[m].n])
    BY <1>1, <1>4, <1>5
  <1>6. RunsFit(t)'
    BY <1>5 DEF RunsFit, RunFit, Early, Late
  <1>7. RunOf(t)' = run'[k]
    BY DEF RunOf
  <1>8. LooseFit(Flow(t), tab[t], past[Flow(t).n])'
    BY DEF LooseFit
  <1>9. Managed(Flow(t))' => TiedFit(Flow(t), tab[t], RunOf(t), past[Flow(t).n])'
    BY <1>3, <1>7 DEF TiedFit, EarlyPCs, LatePCs, Early, Late
  <1> QED
    BY <1>6, <1>8, <1>9 DEF FlowFits

\* ... or ends, and its run goes on without it.
LEMMA FitsEnd ==
    ASSUME Inv, NEW t \in Tabs, Active(t), TabMoves(t), Flow(t)'.n = 0,
           Managed(Flow(t)) /\ run'[Flow(t).mode].n # 0 =>
              RunFit(Flow(t).mode, run'[Flow(t).mode], tab'[t], past'[Flow(t).n])
    PROVE  RunsFit(t)' /\ FlowFits(t)'
  <1> DEFINE n == Flow(t).n
             k == Flow(t).mode
  <1>1. ASSUME NEW m \in Modes, run'[m].n # 0, run'[m].tab = t
        PROVE  RunFit(m, run'[m], tab'[t], past'[run'[m].n])
    <2>1. run'[m].n = run[m].n /\ run[m].tab = t
      BY <1>1 DEF TabMoves, RunMoves
    <2>2. m = k /\ Managed(Flow(t)) /\ run[m].n = n
      BY <2>1, <1>1, Working DEF Managed
    <2> QED
      BY <2>1, <2>2, <1>1
  <1>2. RunsFit(t)'
    BY <1>1 DEF RunsFit, RunFit, Early, Late
  <1> QED
    BY <1>2 DEF FlowFits, Active

LEMMA ViewFits ==
    ASSUME NEW T, NEW U, SameView(T, U), NEW m, NEW r, NEW f, NEW p
    PROVE  /\ RunFit(m, r, T, p) <=> RunFit(m, r, U, p)
           /\ LooseFit(f, T, p) <=> LooseFit(f, U, p)
           /\ TiedFit(f, T, r, p) <=> TiedFit(f, U, r, p)
  BY DEF SameView, RunFit, LooseFit, TiedFit

LEMMA ContinueIs ==
    ASSUME TypeOK, NEW t \in Tabs, NEW f \in FlowRec, Continue(t, f)
    PROVE  /\ tab' \in [Tabs -> TabRec]
           /\ tab'[t] \in TabRec /\ Flow(t)' = f /\ SameView(tab'[t], tab[t])
           /\ tab'[t].open = tab[t].open
           /\ tab'[t].page = tab[t].page /\ tab'[t].pressed = tab[t].pressed
           /\ tab'[t].back = tab[t].back
           /\ \A u \in Tabs : u # t => tab'[u] = tab[u]
  <1> DEFINE T == [tab[t] EXCEPT !.flow = f]
  <1>1. tab[t] \in TabRec
    BY TabTypes
  <1>2. T \in TabRec /\ T.flow = f /\ SameView(T, tab[t])
    BY <1>1 DEF TabRec, SameView
  <1> HIDE DEF T
  <1>3. tab' = [tab EXCEPT ![t] = T]
    BY DEF Continue, T
  <1> QED
    BY <1>2, <1>3, TabIs DEF Flow, SameView

\* Between two calls only the flow moves.
LEMMA LocalKeeps ==
    ASSUME Inv, NEW t \in Tabs, Active(t), NEW f \in FlowRec, Continue(t, f),
           UNCHANGED <<server, run, watches, packet, accepted, past, bounds>>,
           \/ f.n = 0
           \/ /\ f.n = Flow(t).n /\ f.mode = Flow(t).mode
              /\ LooseFit(f, tab[t], past[f.n])
              /\ Managed(Flow(t)) => TiedFit(f, tab[t], RunOf(t), past[f.n])
              /\ f.pc # "click",
           f.outcome = "submitted" => Flow(t).outcome = "submitted" \/ tab[t].page = "thanks"
    PROVE  Inv'
  <1>1. TypeOK /\ tab[t].open
    BY Working DEF Inv
  <1>2. /\ tab' \in [Tabs -> TabRec] /\ Flow(t)' = f /\ SameView(tab'[t], tab[t])
        /\ tab'[t].page = tab[t].page /\ tab'[t].pressed = tab[t].pressed
        /\ \A u \in Tabs : u # t => tab'[u] = tab[u]
        /\ tab'[t].open
    BY <1>1, ContinueIs
  <1>3. TypeOK'
    BY <1>1, <1>2 DEF TypeOK, bounds
  <1>4. TabMoves(t)
    BY <1>2 DEF TabMoves, RunMoves, FlowMoves
  <1>5. RunsFit(t)' /\ FlowFits(t)'
    <2>1. Managed(Flow(t)) => RunFit(Flow(t).mode, RunOf(t), tab'[t], past[Flow(t).n])
      BY <1>2, Working, ViewFits
    <2>2. CASE f.n = 0
      BY <2>1, <2>2, <1>2, <1>4, FitsEnd DEF RunOf
    <2>3. CASE f.n # 0
      <3>1. /\ LooseFit(f, tab'[t], past[f.n])
            /\ Managed(Flow(t)) => TiedFit(f, tab'[t], RunOf(t), past[f.n])
        BY <2>3, <1>2, ViewFits
      <3> QED
        BY <3>1, <2>1, <2>3, <1>2, <1>4, FitsGoOn DEF RunOf
    <2> QED
      BY <2>2, <2>3
  <1>6. Flow(t).n \in 1..MaxRuns => PastFit(past'[Flow(t).n])
    BY Working DEF PastFit
  <1>7. accepted' = 0 => accepted = 0 /\ SaysUntaken(t)'
    BY <1>2 DEF Inv, UntakenInv, SaysUntaken
  <1>8. Clean' => Clean /\ OnceHere(t)
    <2>1. Clean' => Clean
      BY DEF Clean, bounds
    <2>2. ASSUME OnceInv
          PROVE  OnceHere(t)
      <3>1. Pressing(t)' => Pressing(t)
        BY <1>2 DEF Pressing, Active
      <3> QED
        BY <3>1, <2>2, <1>2 DEF OnceHere, OnceInv, OpenRun, Quiet, Pressing, Modes
    <2> QED
      BY <2>1, <2>2 DEF Inv, CleanInv
  <1> QED
    BY <1>2, <1>3, <1>4, <1>5, <1>6, <1>7, <1>8, StepKeeps DEF bounds

NothingMoves == UNCHANGED <<server, run, watches, packet, accepted, past, bounds>>

\* The flow gives up, or comes to its result.
LEMMA QuitKeeps ==
    ASSUME Inv, NEW t \in Tabs, Active(t), Continue(t, NoFlow), NothingMoves
    PROVE  Inv'
  BY NoFlowIs, LocalKeeps DEF NothingMoves

LEMMA OutcomeKeeps ==
    ASSUME Inv, NEW t \in Tabs, Active(t), NEW o \in Outcomes, Continue(t, Outcome(t, o)),
           NothingMoves,
           o = "submitted" => tab[t].page = "thanks",
           o \in {"released", "failed"} /\ Managed(Flow(t)) =>
              past[Flow(t).n].unsaved \/ RunOf(t).phase \in Early
    PROVE  Inv'
  <1> DEFINE f == Outcome(t, o)
  <1>1. /\ f \in FlowRec /\ f.n = Flow(t).n /\ f.mode = Flow(t).mode
        /\ f.pc = "report" /\ f.outcome = o /\ f.corrective = "no" /\ ~f.auto
    BY TabTypes, OutcomeIs DEF Inv
  <1> HIDE DEF f
  <1>2. LooseFit(f, tab[t], past[f.n])
    BY <1>1 DEF LooseFit
  <1>3. Managed(Flow(t)) => TiedFit(f, tab[t], RunOf(t), past[f.n])
    BY <1>1 DEF TiedFit, EarlyPCs, LatePCs
  <1>4. Continue(t, f)
    BY DEF f
  <1> QED
    BY <1>1, <1>2, <1>3, <1>4, LocalKeeps DEF NothingMoves

\* The flow goes to another point of the same phase.
LEMMA GoKeeps ==
    ASSUME Inv, NEW t \in Tabs, Active(t), NEW pc \in PCs, Continue(t, Go(t, pc)), NothingMoves,
           {Flow(t).pc, pc} \cap {"press", "click", "goto", "correct", "report"} = {},
           pc \in EarlyPCs => Flow(t).pc \in EarlyPCs,
           pc \in LatePCs => Flow(t).pc \in LatePCs,
           Flow(t).corrective # "no" => pc \in {"read", "ask", "fill"}
    PROVE  Inv'
  <1> DEFINE f == Go(t, pc)
  <1>1. /\ f \in FlowRec /\ f.n = Flow(t).n /\ f.mode = Flow(t).mode
        /\ f.pc = pc /\ f.outcome = Flow(t).outcome /\ f.corrective = Flow(t).corrective
        /\ f.auto = Flow(t).auto /\ f.attempts = Flow(t).attempts
        /\ f.passes = Flow(t).passes
    BY TabTypes, GoIs DEF Inv
  <1> HIDE DEF f
  <1>2. /\ LooseFit(Flow(t), tab[t], past[f.n])
        /\ Managed(Flow(t)) => TiedFit(Flow(t), tab[t], RunOf(t), past[f.n])
    BY <1>1, Working
  <1>3. LooseFit(f, tab[t], past[f.n])
    BY <1>1, <1>2 DEF LooseFit
  <1>4. Managed(Flow(t)) => TiedFit(f, tab[t], RunOf(t), past[f.n])
    BY <1>1, <1>2 DEF TiedFit
  <1>5. Continue(t, f)
    BY DEF f
  <1> QED
    BY <1>1, <1>3, <1>4, <1>5, LocalKeeps DEF NothingMoves

LEMMA NeedsUserKeeps ==
    ASSUME Inv, NEW t \in Tabs, Active(t), Continue(t, NeedsUser(t)), NothingMoves
    PROVE  Inv'
  BY OutcomeKeeps DEF NeedsUser, Outcomes

\* What the phase of a flow says of its run.
LEMMA PhaseKnown ==
    ASSUME Inv, NEW t \in Tabs, Active(t), Managed(Flow(t)), ~past[Flow(t).n].unsaved
    PROVE  /\ Flow(t).pc \in EarlyPCs => RunOf(t).phase \in Early
           /\ Flow(t).pc \in LatePCs => RunOf(t).phase \in Late
  BY Working DEF TiedFit

\* A flow with other counts than its own.
LEMMA AttemptsAre ==
    ASSUME NEW f \in FlowRec, NEW a \in Nat
    PROVE  LET g == [f EXCEPT !.attempts = a] IN
           /\ g \in FlowRec /\ g.n = f.n /\ g.mode = f.mode /\ g.pc = f.pc
           /\ g.outcome = f.outcome /\ g.corrective = f.corrective /\ g.auto = f.auto
           /\ g.attempts = a /\ g.passes = f.passes
  BY DEF FlowRec

LEMMA PassesAre ==
    ASSUME NEW f \in FlowRec, NEW a \in Nat
    PROVE  LET g == [f EXCEPT !.passes = a] IN
           /\ g \in FlowRec /\ g.n = f.n /\ g.mode = f.mode /\ g.pc = f.pc
           /\ g.outcome = f.outcome /\ g.corrective = f.corrective /\ g.auto = f.auto
           /\ g.attempts = f.attempts /\ g.passes = a
  BY DEF FlowRec

LEMMA CorrectiveIs ==
    ASSUME NEW f \in FlowRec, NEW c \in {"no", "step", "submit"}
    PROVE  LET g == [f EXCEPT !.corrective = c] IN
           /\ g \in FlowRec /\ g.n = f.n /\ g.mode = f.mode /\ g.pc = f.pc
           /\ g.outcome = f.outcome /\ g.corrective = c /\ g.auto = f.auto
           /\ g.attempts = f.attempts /\ g.passes = f.passes
  BY DEF FlowRec

\* Steps that only read run nothing but the flow.
LEMMA FindFormStep ==
    ASSUME Inv, NEW t \in Tabs, FindForm(t)
    PROVE  Inv'
  <1>1. Active(t) /\ Flow(t).pc = "find" /\ NothingMoves
    BY DEF FindForm, At, Locally, NothingMoves
  <1>2. \/ Continue(t, Go(t, "hop"))
        \/ Continue(t, Go(t, "read"))
        \/ Continue(t, NeedsUser(t))
    BY DEF FindForm, Locally
  <1>3. Flow(t).corrective = "no"
    BY <1>1, Working DEF LooseFit
  <1>4. "hop" \in PCs /\ "read" \in PCs
    BY DEF PCs
  <1> QED
    BY <1>1, <1>2, <1>3, <1>4, GoKeeps, NeedsUserKeeps DEF EarlyPCs, LatePCs

LEMMA AskServerStep ==
    ASSUME Inv, NEW t \in Tabs, AskServer(t)
    PROVE  Inv'
  <1>1. Active(t) /\ Flow(t).pc = "ask" /\ NothingMoves
    BY DEF AskServer, At, Locally, NothingMoves
  <1>2. \/ Continue(t, Go(t, "fill"))
        \/ Continue(t, Outcome(t, "released"))
        \/ Continue(t, Outcome(t, "failed"))
        \/ Continue(t, NoFlow)
    BY DEF AskServer, Locally
  <1>3. "fill" \in PCs /\ "released" \in Outcomes /\ "failed" \in Outcomes
    BY DEF PCs, Outcomes
  <1>4. Managed(Flow(t)) => past[Flow(t).n].unsaved \/ RunOf(t).phase \in Early
    BY <1>1, PhaseKnown DEF EarlyPCs
  <1>5. CASE Continue(t, Go(t, "fill"))
    BY <1>1, <1>3, <1>5, GoKeeps DEF EarlyPCs, LatePCs
  <1> QED
    BY <1>1, <1>2, <1>3, <1>4, <1>5, OutcomeKeeps, QuitKeeps

LEMMA StepMovedStep ==
    ASSUME Inv, NEW t \in Tabs, StepMoved(t)
    PROVE  Inv'
  <1>1. Active(t) /\ Flow(t).pc = "moved" /\ NothingMoves
    BY DEF StepMoved, At, Locally, NothingMoves
  <1>2. Continue(t, Go(t, "read")) \/ Continue(t, NeedsUser(t))
    BY DEF StepMoved, Locally
  <1>3. Flow(t).corrective = "no" /\ "read" \in PCs
    BY <1>1, Working DEF LooseFit, PCs
  <1> QED
    BY <1>1, <1>2, <1>3, GoKeeps, NeedsUserKeeps DEF EarlyPCs, LatePCs

LEMMA SubmitStageStep ==
    ASSUME Inv, NEW t \in Tabs, SubmitStage(t)
    PROVE  Inv'
  <1> DEFINE f == [Go(t, "press") EXCEPT !.attempts = @ + 1]
  <1>1. Active(t) /\ Flow(t).pc = "presubmit" /\ NothingMoves
    BY DEF SubmitStage, At, Locally, NothingMoves
  <1>2. Continue(t, NeedsUser(t)) \/ (Flow(t).auto /\ Continue(t, f))
    BY DEF SubmitStage, Locally, MayPress
  <1>3. CASE Flow(t).auto /\ Continue(t, f)
    <2>1. /\ f \in FlowRec /\ f.n = Flow(t).n /\ f.mode = Flow(t).mode
          /\ f.pc = "press" /\ f.outcome = Flow(t).outcome /\ f.corrective = Flow(t).corrective
          /\ f.auto = Flow(t).auto /\ f.attempts = Flow(t).attempts + 1
          /\ f.passes = Flow(t).passes
      <3> DEFINE g == Go(t, "press")
      <3>1. /\ g \in FlowRec /\ g.n = Flow(t).n /\ g.mode = Flow(t).mode
            /\ g.pc = "press" /\ g.outcome = Flow(t).outcome
            /\ g.corrective = Flow(t).corrective /\ g.auto = Flow(t).auto
            /\ g.attempts = Flow(t).attempts /\ g.passes = Flow(t).passes
            /\ Flow(t).attempts \in Nat
        BY TabTypes, GoIs DEF Inv, PCs
      <3>2. f = [g EXCEPT !.attempts = g.attempts + 1]
        OBVIOUS
      <3> HIDE DEF g, f
      <3> QED
        BY <3>1, <3>2, AttemptsAre
    <2> HIDE DEF f
    <2>2. /\ LooseFit(Flow(t), tab[t], past[f.n])
          /\ Managed(Flow(t)) => TiedFit(Flow(t), tab[t], RunOf(t), past[f.n])
      BY <2>1, <1>1, Working
    <2>3. LooseFit(f, tab[t], past[f.n])
      BY <2>1, <2>2, <1>1, <1>3 DEF LooseFit
    <2>4. Managed(Flow(t)) => TiedFit(f, tab[t], RunOf(t), past[f.n])
      BY <2>1, <2>2, <1>1, TabTypes DEF TiedFit, EarlyPCs, LatePCs, Inv
    <2> QED
      BY <1>1, <1>3, <2>1, <2>3, <2>4, LocalKeeps DEF NothingMoves
  <1> QED
    BY <1>1, <1>2, <1>3, NeedsUserKeeps

LEMMA CorrectedKeeps ==
    ASSUME Inv, NEW t \in Tabs, Active(t), Flow(t).pc \in {"watch", "after"},
           tab[t].page = "errors", Continue(t, Corrected(t)), NothingMoves
    PROVE  Inv'
  <1> DEFINE g == Go(t, "correct")
             f == [g EXCEPT !.passes = g.passes + 1]
  <1>1. CASE ~MayCorrect(Flow(t))
    BY <1>1, NeedsUserKeeps DEF Corrected
  <1>2. CASE MayCorrect(Flow(t))
    <2>1. /\ g \in FlowRec /\ g.n = Flow(t).n /\ g.mode = Flow(t).mode
          /\ g.pc = "correct" /\ g.outcome = Flow(t).outcome
          /\ g.corrective = Flow(t).corrective /\ g.auto = Flow(t).auto
          /\ g.attempts = Flow(t).attempts /\ g.passes = Flow(t).passes
          /\ Flow(t).attempts \in Nat /\ Flow(t).passes \in Nat
      BY TabTypes, GoIs DEF Inv, PCs
    <2>2. Continue(t, f)
      BY <1>2 DEF Corrected
    <2> HIDE DEF g
    <2>3. /\ f \in FlowRec /\ f.n = Flow(t).n /\ f.mode = Flow(t).mode /\ f.pc = "correct"
          /\ f.outcome = Flow(t).outcome /\ f.corrective = Flow(t).corrective
          /\ f.auto = Flow(t).auto /\ f.attempts = Flow(t).attempts
          /\ f.passes = Flow(t).passes + 1
      BY <2>1, PassesAre
    <2> HIDE DEF f
    <2>4. /\ LooseFit(Flow(t), tab[t], past[f.n])
          /\ Managed(Flow(t)) => TiedFit(Flow(t), tab[t], RunOf(t), past[f.n])
      BY <2>3, Working
    <2>5. LooseFit(f, tab[t], past[f.n])
      BY <2>3, <2>4 DEF LooseFit
    <2>6. Flow(t).passes = 0 /\ Flow(t).attempts <= 1
      BY <1>2, <2>1 DEF MayCorrect
    <2>7. Managed(Flow(t)) => TiedFit(f, tab[t], RunOf(t), past[f.n])
      BY <2>1, <2>3, <2>4, <2>6 DEF TiedFit, LooseFit, EarlyPCs, LatePCs
    <2> QED
      BY <2>2, <2>3, <2>5, <2>7, LocalKeeps DEF NothingMoves
  <1> QED
    BY <1>1, <1>2

LEMMA WatchOutcomeStep ==
    ASSUME Inv, NEW t \in Tabs, WatchOutcome(t)
    PROVE  Inv'
  <1>1. Active(t) /\ Flow(t).pc = "watch" /\ NothingMoves
    BY DEF WatchOutcome, At, Locally, NothingMoves
  <1>2. \/ tab[t].page = "thanks" /\ Continue(t, Outcome(t, "submitted"))
        \/ Continue(t, Go(t, "verify"))
        \/ tab[t].page = "errors" /\ Continue(t, Corrected(t))
        \/ Continue(t, Outcome(t, "needs_input"))
    BY DEF WatchOutcome, Locally, Unconfirmed
  <1>3. /\ Flow(t).corrective = "no" /\ "verify" \in PCs
        /\ "submitted" \in Outcomes /\ "needs_input" \in Outcomes
    BY <1>1, Working DEF LooseFit, PCs, Outcomes
  <1>4. CASE Continue(t, Go(t, "verify"))
    BY <1>1, <1>3, <1>4, GoKeeps DEF EarlyPCs, LatePCs
  <1> QED
    BY <1>1, <1>2, <1>3, <1>4, CorrectedKeeps, OutcomeKeeps

LEMMA AfterSubmitNavigationStep ==
    ASSUME Inv, NEW t \in Tabs, AfterSubmitNavigation(t)
    PROVE  Inv'
  <1>1. Active(t) /\ Flow(t).pc = "after" /\ NothingMoves
    BY DEF AfterSubmitNavigation, At, Locally, NothingMoves
  <1>2. \/ tab[t].page = "thanks" /\ Continue(t, Outcome(t, "submitted"))
        \/ Continue(t, Go(t, "verify"))
        \/ tab[t].page = "errors" /\ Continue(t, Corrected(t))
        \/ Continue(t, NeedsUser(t))
    BY DEF AfterSubmitNavigation, Locally, ResubmitOn
  <1>3. /\ Flow(t).corrective = "no" /\ "verify" \in PCs /\ "submitted" \in Outcomes
    BY <1>1, Working DEF LooseFit, PCs, Outcomes
  <1>4. CASE Continue(t, Go(t, "verify"))
    BY <1>1, <1>3, <1>4, GoKeeps DEF EarlyPCs, LatePCs
  <1> QED
    BY <1>1, <1>2, <1>3, <1>4, CorrectedKeeps, OutcomeKeeps, NeedsUserKeeps

LEMMA WatchCodeStep ==
    ASSUME Inv, NEW t \in Tabs, WatchCode(t)
    PROVE  Inv'
  <1>1. Active(t) /\ Flow(t).pc = "codeWatch" /\ NothingMoves
    BY DEF WatchCode, At, Locally, NothingMoves
  <1>2. \/ tab[t].page = "thanks" /\ Continue(t, Outcome(t, "submitted"))
        \/ Continue(t, NeedsUser(t))
        \/ Continue(t, Go(t, "poll"))
    BY DEF WatchCode, Locally
  <1>3. /\ Flow(t).corrective = "no" /\ "poll" \in PCs /\ "submitted" \in Outcomes
    BY <1>1, Working DEF LooseFit, PCs, Outcomes
  <1>4. CASE Continue(t, Go(t, "poll"))
    BY <1>1, <1>3, <1>4, GoKeeps DEF EarlyPCs, LatePCs
  <1> QED
    BY <1>1, <1>2, <1>3, <1>4, OutcomeKeeps, NeedsUserKeeps

-----------------------------------------------------------------------------
(* Steps that store the run's progress.                                      *)

Unsaved(p) == [p EXCEPT !.unsaved = TRUE]

\* The call arrives, is refused, or is lost.
LEMMA ProgressKeeps ==
    ASSUME Inv, NEW t \in Tabs, Active(t), NEW r, NEW f \in FlowRec, Progress(t, r, f),
           Managed(Flow(t)) =>
              /\ r \in RunRec /\ r.n = RunOf(t).n /\ r.tab = RunOf(t).tab
              /\ RunFit(Flow(t).mode, r, tab[t], past[f.n])
              /\ TiedFit(f, tab[t], r, past[f.n]) /\ LooseFit(f, tab[t], past[f.n])
              /\ ~past[f.n].unsaved /\ f.mode = "auto" /\ (r.phase \in Early \/ f.pc = "click") =>
                    RunOf(t).phase \in Early \/ tab[t].page \in {"errors", "code"},
           f.n = Flow(t).n, f.mode = Flow(t).mode, f.outcome = Flow(t).outcome, f.pc # "goto"
    PROVE  Inv'
  <1> DEFINE n == Flow(t).n
             k == Flow(t).mode
  <1>1. /\ TypeOK /\ tab[t].open /\ n \in 1..MaxRuns /\ k \in Modes
        /\ past[n] \in PastRec /\ PastFit(past[n])
    BY Working, TabTypes DEF Inv
  <1>2. CASE ~Managed(Flow(t)) /\ Continue(t, NoFlow) /\ UNCHANGED <<run, past, lost>>
    BY <1>2, QuitKeeps DEF Progress, NothingMoves, bounds
  <1>3. ASSUME Managed(Flow(t)), Continue(t, f)
        PROVE  /\ tab' \in [Tabs -> TabRec] /\ Flow(t)' = f /\ SameView(tab'[t], tab[t])
               /\ tab'[t].page = tab[t].page /\ tab'[t].pressed = tab[t].pressed
               /\ tab'[t].open
               /\ \A u \in Tabs : u # t => tab'[u] = tab[u]
               /\ run[k].n = n /\ run[k].tab = t /\ n # 0
               /\ \A m \in Modes : run[m].n # 0 /\ run[m].tab = t => m = k
    BY <1>1, <1>3, ContinueIs, Working DEF RunOf
  <1>4. CASE Managed(Flow(t)) /\ HandleProgress(k, r) /\ Continue(t, f) /\ UNCHANGED <<past, lost>>
    <2>1. /\ run'[k] = r /\ r \in RunRec /\ r.n = n /\ r.tab = t
          /\ \A m \in Modes : m # k => run'[m] = run[m]
          /\ run' \in [Modes -> RunRec]
      BY <1>1, <1>3, <1>4 DEF HandleProgress, TypeOK, RunOf
    <2>2. TypeOK'
      BY <1>1, <1>3, <1>4, <2>1 DEF TypeOK, Progress
    <2>3. TabMoves(t)
      BY <1>3, <1>4, <2>1 DEF TabMoves, RunMoves, FlowMoves
    <2>4. RunsFit(t)' /\ FlowFits(t)'
      <3>1. /\ RunFit(k, r, tab'[t], past[n]) /\ LooseFit(f, tab'[t], past[n])
            /\ TiedFit(f, tab'[t], r, past[n])
        BY <1>3, <1>4, ViewFits
      <3>2. \A m \in Modes : run'[m].n = run[m].n
        BY <1>3, <1>4, <2>1
      <3> QED
        BY <1>3, <1>4, <2>1, <2>3, <3>1, <3>2, FitsGoOn
    <2>5. accepted' = 0 => accepted = 0 /\ SaysUntaken(t)'
      BY <1>3, <1>4 DEF Inv, UntakenInv, SaysUntaken, Progress
    <2>6. Clean' => Clean /\ OnceHere(t)
      <3>1. Clean' => Clean
        BY <1>4 DEF Clean, Progress
      <3>2. ASSUME Clean, OnceInv
            PROVE  OnceHere(t)
        <4>1. k = "auto" /\ server = "in_progress"
          BY <3>2, <1>3, <1>4, <1>1 DEF OnceInv, Modes
        <4>2. r.phase \in Early \/ f.pc = "click" => accepted = 0
          BY <3>2, <4>1, <1>1, <1>3, <1>4 DEF OnceInv, OpenRun, Clean, RunOf
        <4>3. tab[t].page \in {"errors", "code"} => accepted = 0
          BY <3>2, <4>1, <1>3, <1>4 DEF OnceInv, OpenRun
        <4>4. Pressing(t)' => accepted = 0
          BY <3>2, <4>2, <1>3, <1>4 DEF Pressing, Active, OnceInv
        <4>5. ~Quiet(t) /\ \A m \in Modes : run'[m].n = run[m].n
          BY <1>3, <1>4, <2>1 DEF Quiet
        <4>6. run'["auto"] = r /\ accepted' = accepted /\ accepted <= 1
          BY <4>1, <2>1, <3>2, <1>4 DEF Progress, OnceInv
        <4> QED
          BY <4>2, <4>3, <4>4, <4>5, <4>6, <1>3, <1>4 DEF OnceHere
      <3> QED
        BY <3>1, <3>2 DEF Inv, CleanInv
    <2>7. n \in 1..MaxRuns => PastFit(past'[n])
      BY <1>1, <1>4
    <2> QED
      BY <1>3, <1>4, <2>2, <2>3, <2>4, <2>5, <2>6, <2>7, StepKeeps DEF Progress
  <1>5. CASE /\ Managed(Flow(t)) /\ Lose(1)
             /\ past' = [past EXCEPT ![n].unsaved = TRUE]
             /\ Continue(t, f) /\ UNCHANGED run
    <2>1. /\ past'[n] = Unsaved(past[n]) /\ past' \in [1..MaxRuns -> PastRec]
          /\ past'[n].unsaved /\ past'[n].hops = past[n].hops
          /\ past'[n].presses = past[n].presses /\ past'[n].auto = past[n].auto
          /\ \A i \in 1..MaxRuns : i # n => past'[i] = past[i]
      BY <1>1, <1>5 DEF TypeOK, PastRec, Unsaved
    <2>2. TypeOK'
      <3>1. lost' \in 0..MaxLost
        BY <1>1, <1>5, BoundsAssumption DEF TypeOK, Lose, BoundsAssumption
      <3> QED
        BY <1>1, <1>3, <1>5, <2>1, <3>1 DEF TypeOK, Progress
    <2>3. TabMoves(t)
      BY <1>3, <1>5, <2>1 DEF TabMoves, RunMoves, FlowMoves
    <2>4. RunsFit(t)' /\ FlowFits(t)'
      <3>1. SameView(tab'[t], tab[t])
        BY <1>3, <1>5
      <3>2. RunFit(k, RunOf(t), tab[t], past[n])
        BY <1>5, Working
      <3>3. LooseFit(f, tab[t], past[n])
        BY <1>5
      <3>4. RunFit(k, RunOf(t), tab'[t], past[n]) /\ LooseFit(f, tab'[t], past[n])
        BY <3>1, <3>2, <3>3, ViewFits
      <3>5. RunFit(k, RunOf(t), tab'[t], past'[n]) /\ LooseFit(f, tab'[t], past'[n])
        BY <3>4, <2>1 DEF RunFit, LooseFit
      <3>6. TiedFit(f, tab'[t], RunOf(t), past'[n])
        BY <2>1 DEF TiedFit
      <3>7. run' = run
        BY <1>5
      <3> QED
        BY <1>3, <1>5, <2>3, <3>5, <3>6, <3>7, FitsGoOn DEF RunOf
    <2>5. accepted' = 0 => accepted = 0 /\ SaysUntaken(t)'
      BY <1>3, <1>5 DEF Inv, UntakenInv, SaysUntaken, Progress
    <2>6. ~Clean'
      BY <1>1, <2>1 DEF Clean
    <2>7. n \in 1..MaxRuns => PastFit(past'[n])
      BY <1>1, <2>1 DEF PastFit
    <2> QED
      BY <1>3, <1>5, <2>2, <2>3, <2>4, <2>5, <2>6, <2>7, StepKeeps DEF Progress
  <1> QED
    BY <1>2, <1>4, <1>5 DEF Progress

\* The run after handleProgress.
LEMMA PhaseIs ==
    ASSUME NEW r \in RunRec, NEW ph \in Phases
    PROVE  LET q == [r EXCEPT !.phase = ph] IN
           /\ q \in RunRec /\ q.n = r.n /\ q.tab = r.tab /\ q.phase = ph
           /\ q.attempts = r.attempts /\ q.passes = r.passes /\ q.hops = r.hops
           /\ q.auto = r.auto
  BY DEF RunRec

LEMMA RunPassesAre ==
    ASSUME NEW r \in RunRec, NEW s \in Nat
    PROVE  LET q == [r EXCEPT !.passes = s] IN
           /\ q \in RunRec /\ q.n = r.n /\ q.tab = r.tab /\ q.phase = r.phase
           /\ q.attempts = r.attempts /\ q.passes = s /\ q.hops = r.hops
           /\ q.auto = r.auto
  BY DEF RunRec

LEMMA RunAttemptsAre ==
    ASSUME NEW r \in RunRec, NEW a \in Nat
    PROVE  LET q == [r EXCEPT !.attempts = a] IN
           /\ q \in RunRec /\ q.n = r.n /\ q.tab = r.tab /\ q.phase = r.phase
           /\ q.attempts = a /\ q.passes = r.passes /\ q.hops = r.hops
           /\ q.auto = r.auto
  BY DEF RunRec

\* Nothing about the run changes but that it is, still, in an early phase.
LEMMA EarlyGoes ==
    ASSUME Inv, NEW t \in Tabs, Active(t), NEW pc \in EarlyPCs, NEW r, NEW m,
           Flow(t).pc \in EarlyPCs,
           {Flow(t).pc, pc} \cap {"press", "goto"} = {},
           Flow(t).corrective # "no" => pc \in {"read", "ask", "fill"},
           m = Flow(t).mode, r.auto = RunOf(t).auto, r.hops = RunOf(t).hops,
           r.passes = RunOf(t).passes, r.attempts = RunOf(t).attempts,
           r = RunOf(t) \/ r.phase = "filling",
           Managed(Flow(t))
    PROVE  /\ RunFit(m, r, tab[t], past[Flow(t).n])
           /\ TiedFit(Go(t, pc), tab[t], r, past[Flow(t).n])
  <1> DEFINE f == Flow(t)
             g == Go(t, pc)
             p == past[f.n]
  <1>1. /\ RunFit(f.mode, RunOf(t), tab[t], p) /\ TiedFit(f, tab[t], RunOf(t), p)
        /\ ~p.unsaved => RunOf(t).phase \in Early
    BY Working, PhaseKnown
  <1>2. ~p.unsaved => r.phase \in Early
    BY <1>1 DEF Early
  <1>3. /\ g.pc = pc /\ g.attempts = f.attempts /\ g.passes = f.passes
        /\ g.corrective = f.corrective /\ g.mode = f.mode /\ g.outcome = f.outcome
    BY GoIs, TabTypes DEF Inv, EarlyPCs, PCs
  <1> HIDE DEF g, f
  <1>4. RunFit(m, r, tab[t], p)
    BY <1>1, <1>2 DEF RunFit, Early, Late, f
  <1>5. TiedFit(g, tab[t], r, p)
    BY <1>1, <1>2, <1>3 DEF TiedFit, EarlyPCs, LatePCs, f
  <1> QED
    BY <1>4, <1>5 DEF f, g

\* The call changes no more than the phase, to "filling".
LEMMA FillingKeeps ==
    ASSUME Inv, NEW t \in Tabs, Active(t), NEW pc \in EarlyPCs, NEW r,
           Progress(t, r, Go(t, pc)),
           Flow(t).pc \in EarlyPCs,
           {Flow(t).pc, pc} \cap {"press", "goto"} = {},
           Flow(t).corrective # "no" => pc \in {"read", "ask", "fill"},
           r \in {RunOf(t), [RunOf(t) EXCEPT !.phase = "filling"]}
    PROVE  Inv'
  <1> DEFINE f == Flow(t)
             g == Go(t, pc)
  <1>1. /\ g \in FlowRec /\ g.n = f.n /\ g.mode = f.mode /\ g.outcome = f.outcome
        /\ g.pc = pc /\ g.corrective = f.corrective /\ g.auto = f.auto
    BY GoIs, TabTypes DEF Inv, EarlyPCs, PCs
  <1>2. /\ r \in RunRec /\ r.n = RunOf(t).n /\ r.tab = RunOf(t).tab
        /\ r.passes = RunOf(t).passes /\ r.attempts = RunOf(t).attempts
        /\ r.auto = RunOf(t).auto /\ r.hops = RunOf(t).hops
        /\ r = RunOf(t) \/ r.phase = "filling"
    <2>1. RunOf(t) \in RunRec /\ "filling" \in Phases
      BY RunTypes, TabTypes DEF Inv, RunOf, Phases
    <2> DEFINE q == [RunOf(t) EXCEPT !.phase = "filling"]
    <2>2. /\ q \in RunRec /\ q.n = RunOf(t).n /\ q.tab = RunOf(t).tab
          /\ q.passes = RunOf(t).passes /\ q.attempts = RunOf(t).attempts
          /\ q.auto = RunOf(t).auto /\ q.hops = RunOf(t).hops /\ q.phase = "filling"
      BY <2>1, PhaseIs
    <2>3. r = RunOf(t) \/ r = q
      OBVIOUS
    <2> HIDE DEF q
    <2>4. CASE r = q
      BY <2>2, <2>4
    <2> QED
      BY <2>1, <2>3, <2>4
  <1>3. LooseFit(g, tab[t], past[g.n])
    <2>1. LooseFit(f, tab[t], past[f.n])
      BY Working
    <2> HIDE DEF g, f
    <2> QED
      BY <2>1, <1>1 DEF LooseFit, f, EarlyPCs
  <1>4. Managed(f) => /\ RunFit(f.mode, r, tab[t], past[g.n])
                      /\ TiedFit(g, tab[t], r, past[g.n])
    BY <1>1, <1>2, EarlyGoes
  <1>5. Managed(f) /\ ~past[g.n].unsaved => RunOf(t).phase \in Early
    BY <1>1, PhaseKnown
  <1>6. g.pc # "goto" /\ Progress(t, r, g)
    BY <1>1
  <1> HIDE DEF g
  <1> QED
    BY <1>1, <1>2, <1>3, <1>4, <1>5, <1>6, ProgressKeeps

LEMMA LocateStep ==
    ASSUME Inv, NEW t \in Tabs, Locate(t)
    PROVE  Inv'
  <1>1. /\ Active(t) /\ Flow(t).pc = "locate"
        /\ Progress(t, [RunOf(t) EXCEPT !.phase = "filling"], Go(t, "find"))
    BY DEF Locate, At
  <1>2. Flow(t).corrective = "no"
    BY <1>1, Working DEF LooseFit
  <1> QED
    BY <1>1, <1>2, FillingKeeps DEF EarlyPCs

LEMMA ReadStepStep ==
    ASSUME Inv, NEW t \in Tabs, ReadStep(t)
    PROVE  Inv'
  <1>1. Active(t) /\ Flow(t).pc = "read" /\ Progress(t, RunOf(t), Go(t, "ask"))
    BY DEF ReadStep, At
  <1> QED
    BY <1>1, FillingKeeps DEF EarlyPCs

LEMMA NextStep ==
    ASSUME Inv, NEW t \in Tabs, Next_(t)
    PROVE  Inv'
  <1>1. /\ Active(t) /\ Flow(t).pc = "next"
        /\ Progress(t, [RunOf(t) EXCEPT !.phase = "filling"], Go(t, "clickNext"))
    BY DEF Next_, At
  <1>2. Flow(t).corrective = "no"
    BY <1>1, Working DEF LooseFit
  <1> QED
    BY <1>1, <1>2, FillingKeeps DEF EarlyPCs

LEMMA StepStuckStep ==
    ASSUME Inv, NEW t \in Tabs, StepStuck(t)
    PROVE  Inv'
  <1> DEFINE f == Flow(t)
             p == past[f.n]
             r == [RunOf(t) EXCEPT !.passes = f.passes + 1]
             a == Go(t, "read")
             b == [a EXCEPT !.passes = a.passes + 1]
             g == [b EXCEPT !.corrective = "step"]
  <1>1. Active(t) /\ f.pc = "stuck"
    BY DEF StepStuck, At
  <1>2. CASE ~(f.passes < 1)
    <2>1. Continue(t, NeedsUser(t)) /\ NothingMoves
      BY <1>2 DEF StepStuck, Locally, NothingMoves
    <2> QED
      BY <1>1, <2>1, NeedsUserKeeps
  <1>3. CASE f.passes < 1
    <2>1. /\ f \in FlowRec /\ f.passes = 0 /\ f.attempts \in Nat
          /\ RunOf(t) \in RunRec /\ RunOf(t).attempts \in Nat /\ RunOf(t).passes \in Nat
      BY <1>3, TabTypes, RunTypes DEF Inv, RunOf
    <2>2. /\ a \in FlowRec /\ a.n = f.n /\ a.mode = f.mode /\ a.outcome = f.outcome
          /\ a.pc = "read" /\ a.auto = f.auto /\ a.attempts = f.attempts /\ a.passes = 0
      BY <2>1, GoIs DEF PCs
    <2>3. Progress(t, r, g)
      BY <1>3 DEF StepStuck
    <2>4. /\ r \in RunRec /\ r.n = RunOf(t).n /\ r.tab = RunOf(t).tab
          /\ r.phase = RunOf(t).phase /\ r.attempts = RunOf(t).attempts
          /\ r.passes = 1 /\ r.hops = RunOf(t).hops /\ r.auto = RunOf(t).auto
      BY <2>1, RunPassesAre
    <2> HIDE DEF a, r
    <2>5. b \in FlowRec /\ b.n = f.n /\ b.mode = f.mode /\ b.outcome = f.outcome
          /\ b.pc = "read" /\ b.auto = f.auto /\ b.attempts = f.attempts /\ b.passes = 1
      BY <2>2, PassesAre
    <2> HIDE DEF b
    <2>6. g \in FlowRec /\ g.n = f.n /\ g.mode = f.mode /\ g.outcome = f.outcome
          /\ g.pc = "read" /\ g.auto = f.auto /\ g.attempts = f.attempts /\ g.passes = 1
          /\ g.corrective = "step"
      BY <2>5, CorrectiveIs
    <2> HIDE DEF g
    <2>7. LooseFit(f, tab[t], p) /\ p \in PastRec
      BY <1>1, Working
    <2>8. Managed(f) => /\ RunFit(f.mode, RunOf(t), tab[t], p)
                        /\ TiedFit(f, tab[t], RunOf(t), p)
                        /\ ~p.unsaved => RunOf(t).phase \in Early
      BY <1>1, Working, PhaseKnown DEF EarlyPCs
    <2>9. Managed(f) /\ ~p.unsaved => /\ RunOf(t).passes = 0 /\ p.fixes = 0 /\ p.presses \in Nat
                                      /\ RunOf(t).attempts = 0 /\ f.attempts = 0
      BY <1>1, <2>1, <2>7, <2>8 DEF TiedFit, RunFit, Early, Late, PastRec
    <2>10. Managed(f) => LooseFit(g, tab[t], p)
      BY <2>6, <2>7, <2>9 DEF LooseFit
    <2>11. Managed(f) => RunFit(f.mode, r, tab[t], p)
      BY <2>4, <2>8, <2>9 DEF RunFit, Early, Late
    <2>12. Managed(f) => TiedFit(g, tab[t], r, p)
      BY <2>4, <2>6, <2>8, <2>9 DEF TiedFit, EarlyPCs, LatePCs, Early
    <2>13. Managed(f) /\ ~p.unsaved => RunOf(t).phase \in Early
      BY <2>8
    <2> QED
      BY <1>1, <2>3, <2>4, <2>6, <2>10, <2>11, <2>12, <2>13, ProgressKeeps
  <1> QED
    BY <1>2, <1>3

LEMMA StorePressStep ==
    ASSUME Inv, NEW t \in Tabs, StorePress(t)
    PROVE  Inv'
  <1> DEFINE f == Flow(t)
             p == past[f.n]
             q == [RunOf(t) EXCEPT !.phase = "submitting"]
             r == [q EXCEPT !.attempts = f.attempts]
             g == Go(t, "click")
  <1>1. Active(t) /\ f.pc = "press"
    BY DEF StorePress, At
  <1>2. Progress(t, r, g)
    BY DEF StorePress, PressStored
  <1>3. /\ f \in FlowRec /\ f.attempts \in Nat /\ RunOf(t) \in RunRec
        /\ RunOf(t).attempts \in Nat /\ RunOf(t).passes \in Nat /\ "submitting" \in Phases
    BY TabTypes, RunTypes DEF Inv, RunOf, Phases
  <1>4. /\ g \in FlowRec /\ g.n = f.n /\ g.mode = f.mode /\ g.outcome = f.outcome
        /\ g.pc = "click" /\ g.auto = f.auto /\ g.attempts = f.attempts
        /\ g.passes = f.passes /\ g.corrective = f.corrective
    BY <1>3, GoIs DEF PCs
  <1>5. /\ q \in RunRec /\ q.n = RunOf(t).n /\ q.tab = RunOf(t).tab /\ q.phase = "submitting"
        /\ q.passes = RunOf(t).passes /\ q.hops = RunOf(t).hops /\ q.auto = RunOf(t).auto
    BY <1>3, PhaseIs
  <1> HIDE DEF q, g
  <1>6. /\ r \in RunRec /\ r.n = RunOf(t).n /\ r.tab = RunOf(t).tab /\ r.phase = "submitting"
        /\ r.passes = RunOf(t).passes /\ r.hops = RunOf(t).hops /\ r.auto = RunOf(t).auto
        /\ r.attempts = f.attempts
    BY <1>3, <1>5, RunAttemptsAre
  <1> HIDE DEF r
  <1>7. /\ LooseFit(f, tab[t], p) /\ p \in PastRec
        /\ Managed(f) => /\ RunFit(f.mode, RunOf(t), tab[t], p)
                         /\ TiedFit(f, tab[t], RunOf(t), p)
                         /\ ~p.unsaved => RunOf(t).phase \in Early
    BY <1>1, Working, PhaseKnown DEF EarlyPCs
  <1>8. f.auto /\ p.auto /\ f.mode = "auto" /\ f.corrective = "no"
    BY <1>1, <1>7 DEF LooseFit
  <1>9. Managed(f) /\ ~p.unsaved =>
           /\ f.attempts = RunOf(t).attempts + 1 /\ f.passes = RunOf(t).passes
           /\ RunOf(t).passes <= 1 /\ RunOf(t).attempts <= RunOf(t).passes
           /\ p.presses <= RunOf(t).attempts /\ p.presses \in Nat
           /\ tab[t].pressed = "no" /\ (p.presses = 0 \/ tab[t].back)
    BY <1>1, <1>7, <1>8 DEF TiedFit, RunFit, Early, Late, PastRec
  <1>10. Managed(f) => LooseFit(g, tab[t], p)
    BY <1>3, <1>4, <1>8, <1>9 DEF LooseFit
  <1>11. Managed(f) => RunFit(f.mode, r, tab[t], p)
    BY <1>3, <1>6, <1>7, <1>8, <1>9 DEF RunFit, Early, Late
  <1>12. Managed(f) => TiedFit(g, tab[t], r, p)
    BY <1>3, <1>4, <1>6, <1>8, <1>9 DEF TiedFit, EarlyPCs, LatePCs, Late
  <1> QED
    BY <1>1, <1>2, <1>4, <1>6, <1>7, <1>10, <1>11, <1>12, ProgressKeeps

LEMMA CorrectAndResubmitStep ==
    ASSUME Inv, NEW t \in Tabs, CorrectAndResubmit(t)
    PROVE  Inv'
  <1> DEFINE f == Flow(t)
             p == past[f.n]
             q == [RunOf(t) EXCEPT !.phase = "filling"]
             r == [q EXCEPT !.passes = f.passes]
             a == Go(t, "read")
             g == [a EXCEPT !.corrective = "submit"]
  <1>1. Active(t) /\ f.pc = "correct"
    BY DEF CorrectAndResubmit, At
  <1>2. Progress(t, r, g)
    BY DEF CorrectAndResubmit
  <1>3. /\ f \in FlowRec /\ f.attempts \in Nat /\ f.passes \in Nat /\ RunOf(t) \in RunRec
        /\ RunOf(t).attempts \in Nat /\ RunOf(t).passes \in Nat /\ "filling" \in Phases
    BY TabTypes, RunTypes DEF Inv, RunOf, Phases
  <1>4. /\ a \in FlowRec /\ a.n = f.n /\ a.mode = f.mode /\ a.outcome = f.outcome
        /\ a.pc = "read" /\ a.auto = f.auto /\ a.attempts = f.attempts /\ a.passes = f.passes
    BY <1>3, GoIs DEF PCs
  <1>5. /\ q \in RunRec /\ q.n = RunOf(t).n /\ q.tab = RunOf(t).tab /\ q.phase = "filling"
        /\ q.attempts = RunOf(t).attempts /\ q.hops = RunOf(t).hops /\ q.auto = RunOf(t).auto
    BY <1>3, PhaseIs
  <1> HIDE DEF q, a
  <1>6. /\ r \in RunRec /\ r.n = RunOf(t).n /\ r.tab = RunOf(t).tab /\ r.phase = "filling"
        /\ r.attempts = RunOf(t).attempts /\ r.hops = RunOf(t).hops /\ r.auto = RunOf(t).auto
        /\ r.passes = f.passes
    BY <1>3, <1>5, RunPassesAre
  <1>7. /\ g \in FlowRec /\ g.n = f.n /\ g.mode = f.mode /\ g.outcome = f.outcome
        /\ g.pc = "read" /\ g.auto = f.auto /\ g.attempts = f.attempts
        /\ g.passes = f.passes /\ g.corrective = "submit"
    BY <1>4, CorrectiveIs
  <1> HIDE DEF r, g
  <1>8. /\ LooseFit(f, tab[t], p) /\ p \in PastRec
        /\ Managed(f) => /\ RunFit(f.mode, RunOf(t), tab[t], p)
                         /\ TiedFit(f, tab[t], RunOf(t), p)
    BY <1>1, Working
  <1>9. Managed(f) /\ ~p.unsaved =>
           /\ f.passes = 1 /\ RunOf(t).passes = 0 /\ p.fixes = 0
           /\ f.attempts = RunOf(t).attempts /\ RunOf(t).attempts <= 1
           /\ p.presses <= RunOf(t).attempts
           /\ f.mode = "auto" => tab[t].page = "errors" /\ tab[t].pressed = "no" /\ tab[t].back
    BY <1>1, <1>3, <1>8 DEF TiedFit, RunFit, PastRec
  <1>10. Managed(f) => LooseFit(g, tab[t], p)
    BY <1>7, <1>8, <1>9 DEF LooseFit
  <1>11. Managed(f) => RunFit(f.mode, r, tab[t], p)
    BY <1>3, <1>6, <1>8, <1>9 DEF RunFit, Early, Late
  <1>12. Managed(f) => TiedFit(g, tab[t], r, p)
    BY <1>3, <1>6, <1>7, <1>9 DEF TiedFit, EarlyPCs, LatePCs, Early
  <1> QED
    BY <1>1, <1>2, <1>6, <1>7, <1>9, <1>10, <1>11, <1>12, ProgressKeeps

LEMMA VerifyStageStep ==
    ASSUME Inv, NEW t \in Tabs, VerifyStage(t)
    PROVE  Inv'
  <1> DEFINE f == Flow(t)
             p == past[f.n]
             r == [RunOf(t) EXCEPT !.phase = "verifying"]
             g == Go(t, "poll")
  <1>1. Active(t) /\ f.pc = "verify"
    BY DEF VerifyStage, At
  <1>2. Progress(t, r, g)
    BY DEF VerifyStage
  <1>3. f \in FlowRec /\ RunOf(t) \in RunRec /\ "verifying" \in Phases
    BY TabTypes, RunTypes DEF Inv, RunOf, Phases
  <1>4. /\ g \in FlowRec /\ g.n = f.n /\ g.mode = f.mode /\ g.outcome = f.outcome
        /\ g.pc = "poll" /\ g.auto = f.auto /\ g.attempts = f.attempts
        /\ g.passes = f.passes /\ g.corrective = f.corrective
    BY <1>3, GoIs DEF PCs
  <1>5. /\ r \in RunRec /\ r.n = RunOf(t).n /\ r.tab = RunOf(t).tab /\ r.phase = "verifying"
        /\ r.attempts = RunOf(t).attempts /\ r.passes = RunOf(t).passes
        /\ r.hops = RunOf(t).hops /\ r.auto = RunOf(t).auto
    BY <1>3, PhaseIs
  <1> HIDE DEF g, r
  <1>6. /\ LooseFit(f, tab[t], p)
        /\ Managed(f) => /\ RunFit(f.mode, RunOf(t), tab[t], p)
                         /\ TiedFit(f, tab[t], RunOf(t), p)
                         /\ ~p.unsaved => RunOf(t).phase \in Late
    BY <1>1, Working, PhaseKnown DEF LatePCs
  <1>7. LooseFit(g, tab[t], p)
    BY <1>1, <1>4, <1>6 DEF LooseFit
  <1>8. Managed(f) => RunFit(f.mode, r, tab[t], p)
    BY <1>5, <1>6 DEF RunFit, Early, Late
  <1>9. Managed(f) => TiedFit(g, tab[t], r, p)
    BY <1>1, <1>4, <1>5, <1>6 DEF TiedFit, EarlyPCs, LatePCs, Late
  <1>10. r.phase \notin Early
    BY <1>5 DEF Early
  <1> QED
    BY <1>1, <1>2, <1>4, <1>5, <1>7, <1>8, <1>9, <1>10, ProgressKeeps

-----------------------------------------------------------------------------
(* Steps in the page: what the run has done is counted, the document may go. *)

LEMMA WorkKeeps ==
    ASSUME Inv, NEW t \in Tabs, Active(t), NEW T \in TabRec, tab' = [tab EXCEPT ![t] = T], T.open,
           UNCHANGED <<server, watches, packet, accepted, runs, byHand>>, lost' \in 0..MaxLost,
           run' \in [Modes -> RunRec],
           \A m \in Modes :
              \/ run'[m] = run[m]
              \/ /\ m = Flow(t).mode /\ Managed(Flow(t)) /\ run'[m].n = run[m].n
                 /\ run'[m].tab = run[m].tab /\ run'[m].phase = run[m].phase,
           past' \in [1..MaxRuns -> PastRec],
           \A i \in 1..MaxRuns : i # Flow(t).n => past'[i] = past[i],
           PastFit(past'[Flow(t).n]), past'[Flow(t).n].unsaved = past[Flow(t).n].unsaved,
           \/ T.flow.n = 0
           \/ /\ T.flow.n = Flow(t).n /\ T.flow.mode = Flow(t).mode
              /\ LooseFit(T.flow, T, past'[Flow(t).n])
              /\ Managed(Flow(t)) => TiedFit(T.flow, T, run'[Flow(t).mode], past'[Flow(t).n]),
           Managed(Flow(t)) => RunFit(Flow(t).mode, run'[Flow(t).mode], T, past'[Flow(t).n]),
           T.page \in {"thanks", "errors", "code"} => T.page = tab[t].page,
           T.flow.outcome = "submitted" => Flow(t).outcome = "submitted",
           T.pressed # "no" \/ (T.flow.n # 0 /\ T.flow.pc = "click") =>
              Pressing(t) \/ (Managed(Flow(t)) /\ tab[t].page = "code")
    PROVE  Inv'
  <1> DEFINE n == Flow(t).n
             k == Flow(t).mode
  <1>1. /\ TypeOK /\ n \in 1..MaxRuns /\ n # 0 /\ k \in Modes
        /\ Managed(Flow(t)) => run[k].n = n /\ run[k].tab = t
    BY Working, TabTypes DEF Inv, RunOf, Active
  <1>2. /\ tab' \in [Tabs -> TabRec] /\ tab'[t] = T /\ Flow(t)' = T.flow
        /\ \A u \in Tabs : u # t => tab'[u] = tab[u]
    BY <1>1, TabIs DEF Flow
  <1>3. TypeOK'
    BY <1>1, <1>2 DEF TypeOK
  <1>4. \A m \in Modes : RunMoves(t, m)
    BY <1>1 DEF RunMoves
  <1>5. TabMoves(t)
    BY <1>2, <1>4 DEF TabMoves, FlowMoves
  <1>6. \A m \in Modes : run'[m].n = run[m].n /\ run'[m].tab = run[m].tab /\ run'[m].phase = run[m].phase
    OBVIOUS
  <1>7. RunsFit(t)' /\ FlowFits(t)'
    <2>1. CASE T.flow.n = 0
      BY <2>1, <1>2, <1>5, FitsEnd
    <2>2. CASE T.flow.n # 0
      BY <2>2, <1>2, <1>5, <1>6, FitsGoOn
    <2> QED
      BY <2>1, <2>2
  <1>8. accepted' = 0 => accepted = 0 /\ SaysUntaken(t)'
    BY <1>2 DEF Inv, UntakenInv, SaysUntaken
  <1>9. Clean' => Clean
    BY DEF Clean
  <1>10. ASSUME Clean, OnceInv
         PROVE  OnceHere(t)
    <2>1. ~Quiet(t)
      BY DEF Quiet
    <2>2. Managed(Flow(t)) => k = "auto" /\ server = "in_progress"
      BY <1>1, <1>10 DEF OnceInv, Modes
    <2>3. Managed(Flow(t)) /\ tab[t].page = "code" => accepted = 0
      BY <1>1, <1>10, <2>2 DEF OnceInv, OpenRun
    <2>4. Pressing(t)' => accepted = 0
      BY <1>2, <1>10, <2>3 DEF OnceInv, Pressing, Active
    <2>5. run'["auto"].n = run["auto"].n /\ run'["auto"].phase = run["auto"].phase
      BY <1>6 DEF Modes
    <2>6. run["auto"].n # 0 /\ run["auto"].tab = t
          /\ (run'["auto"].phase \in Early \/ tab'[t].page \in {"errors", "code"}) => accepted = 0
      BY <1>2, <1>10, <2>5 DEF OnceInv, OpenRun
    <2> QED
      BY <1>6, <1>10, <2>1, <2>4, <2>6 DEF OnceHere, OnceInv
  <1>11. n \in 1..MaxRuns => PastFit(past'[n])
    OBVIOUS
  <1> QED
    BY <1>2, <1>3, <1>5, <1>7, <1>8, <1>9, <1>10, <1>11, StepKeeps DEF Inv, CleanInv

\* The tab with another flow in it.
LEMMA FlowIn ==
    ASSUME NEW T \in TabRec, NEW f \in FlowRec
    PROVE  LET U == [T EXCEPT !.flow = f] IN
           /\ U \in TabRec /\ U.flow = f /\ SameView(U, T)
           /\ U.open = T.open /\ U.page = T.page /\ U.pressed = T.pressed /\ U.back = T.back
  BY DEF TabRec, SameView

LEMMA HopStep ==
    ASSUME Inv, NEW t \in Tabs, Hop(t)
    PROVE  Inv'
  <1> DEFINE f == Flow(t)
             p == past[f.n]
             r == [RunOf(t) EXCEPT !.hops = @ + 1]
             g == Go(t, "goto")
  <1>1. /\ Active(t) /\ f.pc = "hop" /\ TypeOK
        /\ UNCHANGED <<server, watches, packet, accepted, past, runs, byHand>>
    BY DEF Hop, At, Inv
  <1>2. CASE Continue(t, NeedsUser(t)) /\ UNCHANGED <<run, lost>>
    BY <1>1, <1>2, NeedsUserKeeps DEF NothingMoves, bounds
  <1>3. CASE /\ Managed(f) /\ MayHop(RunOf(t))
             /\ run' = [run EXCEPT ![f.mode] = Hopped(@)]
             /\ \/ Continue(t, g) /\ UNCHANGED lost
                \/ Lose(1) /\ UNCHANGED tab
    <2>1. /\ f \in FlowRec /\ f.mode \in Modes /\ tab[t] \in TabRec /\ RunOf(t) \in RunRec
          /\ RunOf(t).hops \in 0..MaxHops /\ MaxHops \in Nat /\ RunOf(t).hops < MaxHops
          /\ RunOf(t) = run[f.mode]
      BY <1>1, <1>3, TabTypes, RunTypes, BoundsAssumption DEF RunOf, MayHop, BoundsAssumption
    <2>2. /\ r \in RunRec /\ r.n = RunOf(t).n /\ r.tab = RunOf(t).tab /\ r.phase = RunOf(t).phase
          /\ r.attempts = RunOf(t).attempts /\ r.passes = RunOf(t).passes
          /\ r.hops = RunOf(t).hops + 1 /\ r.auto = RunOf(t).auto
      BY <2>1 DEF RunRec
    <2>3. run'[f.mode] = r /\ run' \in [Modes -> RunRec]
          /\ \A m \in Modes : m # f.mode => run'[m] = run[m]
      BY <1>1, <1>3, <2>1, <2>2 DEF TypeOK, Hopped
    <2> HIDE DEF r
    <2>4. /\ g \in FlowRec /\ g.n = f.n /\ g.mode = f.mode /\ g.outcome = f.outcome
          /\ g.pc = "goto" /\ g.auto = f.auto /\ g.attempts = f.attempts
          /\ g.passes = f.passes /\ g.corrective = f.corrective
      BY <2>1, GoIs DEF PCs
    <2> HIDE DEF g
    <2>5. /\ LooseFit(f, tab[t], p) /\ p \in PastRec /\ PastFit(p) /\ f.n \in 1..MaxRuns
          /\ tab[t].open
          /\ RunFit(f.mode, RunOf(t), tab[t], p) /\ TiedFit(f, tab[t], RunOf(t), p)
      BY <1>1, <1>3, Working
    <2>6. p.hops <= RunOf(t).hops /\ p.hops \in Nat
      BY <2>5 DEF RunFit, PastRec
    <2>7. RunFit(f.mode, r, tab[t], p)
      BY <2>1, <2>2, <2>5, <2>6 DEF RunFit
    <2>8. TiedFit(f, tab[t], r, p)
      BY <1>1, <2>2, <2>5 DEF TiedFit
    <2>9. CASE Continue(t, g) /\ UNCHANGED lost
      <3> DEFINE T == [tab[t] EXCEPT !.flow = g]
      <3>1. /\ T \in TabRec /\ T.flow = g /\ SameView(T, tab[t])
            /\ T.open /\ T.page = tab[t].page /\ T.pressed = tab[t].pressed
        BY <2>1, <2>4, <2>5, FlowIn
      <3>2. tab' = [tab EXCEPT ![t] = T]
        BY <2>9 DEF Continue
      <3> HIDE DEF T
      <3>3. LooseFit(g, tab[t], p)
        BY <1>1, <2>1, <2>4, <2>5, <2>6 DEF LooseFit
      <3>4. TiedFit(g, tab[t], r, p)
        BY <1>1, <2>1, <2>2, <2>4, <2>5, <2>6 DEF TiedFit, EarlyPCs, LatePCs
      <3>5. LooseFit(T.flow, T, p) /\ TiedFit(T.flow, T, r, p) /\ RunFit(f.mode, r, T, p)
        BY <2>7, <3>1, <3>3, <3>4, ViewFits
      <3>6. lost' \in 0..MaxLost /\ past' \in [1..MaxRuns -> PastRec] /\ past'[f.n] = p
        BY <1>1, <2>9 DEF TypeOK
      <3>7. \A m \in Modes : \/ run'[m] = run[m]
                             \/ /\ m = f.mode /\ Managed(f) /\ run'[m].n = run[m].n
                                /\ run'[m].tab = run[m].tab /\ run'[m].phase = run[m].phase
        BY <1>3, <2>1, <2>2, <2>3
      <3>8. T.pressed # "no" \/ (T.flow.n # 0 /\ T.flow.pc = "click") => Pressing(t)
        BY <2>4, <3>1 DEF Pressing
      <3> QED
        BY <1>1, <2>3, <2>4, <2>5, <3>1, <3>2, <3>5, <3>6, <3>7, <3>8, WorkKeeps
    <2>10. CASE Lose(1) /\ UNCHANGED tab
      <3>1. tab' = [tab EXCEPT ![t] = tab[t]]
        BY <1>1, <2>10 DEF TypeOK
      <3>2. lost' \in 0..MaxLost /\ past' \in [1..MaxRuns -> PastRec] /\ past'[f.n] = p
        BY <1>1, <2>10, BoundsAssumption DEF TypeOK, Lose, BoundsAssumption
      <3>3. \A m \in Modes : \/ run'[m] = run[m]
                             \/ /\ m = f.mode /\ Managed(f) /\ run'[m].n = run[m].n
                                /\ run'[m].tab = run[m].tab /\ run'[m].phase = run[m].phase
        BY <1>3, <2>1, <2>2, <2>3
      <3>4. tab[t].flow = f
        BY DEF Flow
      <3>5. tab[t].pressed # "no" \/ (f.n # 0 /\ f.pc = "click") => Pressing(t)
        BY <1>1 DEF Pressing
      <3> QED
        BY <1>1, <2>1, <2>3, <2>5, <2>7, <2>8, <3>1, <3>2, <3>3, <3>4, <3>5, WorkKeeps
    <2> QED
      BY <1>3, <2>9, <2>10
  <1> QED
    BY <1>2, <1>3 DEF Hop

LEMMA PastIs ==
    ASSUME TypeOK, NEW n \in 1..MaxRuns, NEW q \in PastRec, past' = [past EXCEPT ![n] = q]
    PROVE  /\ past' \in [1..MaxRuns -> PastRec] /\ past'[n] = q
           /\ \A i \in 1..MaxRuns : i # n => past'[i] = past[i]
  BY DEF TypeOK

\* One page, one corrective pass, one press more.
LEMMA OneMore ==
    ASSUME NEW p \in PastRec
    PROVE  /\ p.hops \in Nat /\ p.fixes \in Nat /\ p.presses \in Nat
           /\ LET q == [p EXCEPT !.hops = p.hops + 1] IN
              /\ q \in PastRec /\ q.hops = p.hops + 1 /\ q.fixes = p.fixes
              /\ q.presses = p.presses /\ q.auto = p.auto /\ q.unsaved = p.unsaved
           /\ LET q == [p EXCEPT !.fixes = p.fixes + 1] IN
              /\ q \in PastRec /\ q.hops = p.hops /\ q.fixes = p.fixes + 1
              /\ q.presses = p.presses /\ q.auto = p.auto /\ q.unsaved = p.unsaved
           /\ LET q == [p EXCEPT !.presses = p.presses + 1] IN
              /\ q \in PastRec /\ q.hops = p.hops /\ q.fixes = p.fixes
              /\ q.presses = p.presses + 1 /\ q.auto = p.auto /\ q.unsaved = p.unsaved
  <1>1. p.hops \in Nat /\ p.fixes \in Nat /\ p.presses \in Nat
    BY DEF PastRec
  <1>2. p.hops + 1 \in Nat /\ p.fixes + 1 \in Nat /\ p.presses + 1 \in Nat
    BY <1>1
  <1> QED
    BY <1>1, <1>2 DEF PastRec

\* The flow ends with its document, in an early phase.
LEMMA LeaveKeeps ==
    ASSUME Inv, NEW t \in Tabs, Active(t), Flow(t).pc \in EarlyPCs, NEW page \in Landing,
           tab' = [tab EXCEPT ![t] = Document(tab[t], page)],
           UNCHANGED <<server, run, watches, packet, accepted, bounds>>,
           past' \in [1..MaxRuns -> PastRec],
           \A i \in 1..MaxRuns : i # Flow(t).n => past'[i] = past[i],
           LET p == past[Flow(t).n]
               q == past'[Flow(t).n] IN
           /\ q.presses = p.presses /\ q.fixes = p.fixes /\ q.auto = p.auto
           /\ q.unsaved = p.unsaved
           /\ PastFit(q) /\ (Managed(Flow(t)) => q.hops <= RunOf(t).hops)
    PROVE  Inv'
  <1> DEFINE T == Document(tab[t], page)
             n == Flow(t).n
             k == Flow(t).mode
  <1>1. /\ TypeOK /\ tab[t] \in TabRec /\ page \in Pages
        /\ Flow(t).outcome \in Outcomes
    BY TabTypes DEF Inv, Landing, Pages, FlowRec
  <1>2. /\ T \in TabRec /\ T.open /\ T.page = page /\ T.pressed = "no"
        /\ T.back = tab[t].back /\ T.flow.n = 0 /\ T.flow.outcome = "failed"
    BY <1>1, DocumentIs, NoFlowIs
  <1>3. tab' = [tab EXCEPT ![t] = T]
    OBVIOUS
  <1> HIDE DEF T
  <1>4. Managed(Flow(t)) => /\ RunFit(k, RunOf(t), tab[t], past[n])
                            /\ ~past[n].unsaved => RunOf(t).phase \in Early
    BY Working, PhaseKnown
  <1>5. Managed(Flow(t)) => RunFit(k, RunOf(t), T, past'[n])
    BY <1>2, <1>4 DEF RunFit, Landing
  <1>6. Managed(Flow(t)) => RunFit(k, run'[k], T, past'[n])
    BY <1>5 DEF RunOf
  <1>7. lost' \in 0..MaxLost /\ run' \in [Modes -> RunRec] /\ \A m \in Modes : run'[m] = run[m]
    BY <1>1 DEF bounds, TypeOK
  <1>8. UNCHANGED <<server, watches, packet, accepted, runs, byHand>>
    BY DEF bounds
  <1>9. T.page \notin {"thanks", "errors", "code"}
    BY <1>2 DEF Landing
  <1> QED
    BY <1>2, <1>3, <1>6, <1>7, <1>8, <1>9, WorkKeeps

LEMMA GotoStep ==
    ASSUME Inv, NEW t \in Tabs, Goto(t)
    PROVE  Inv'
  <1> DEFINE n == Flow(t).n
             p == past[n]
  <1>1. /\ Active(t) /\ Flow(t).pc = "goto" /\ TypeOK
        /\ past' = [past EXCEPT ![n].hops = @ + 1]
        /\ UNCHANGED <<server, run, watches, packet, accepted, bounds>>
    BY DEF Goto, At, Inv
  <1>2. PICK page \in Landing : tab' = [tab EXCEPT ![t] = Document(tab[t], page)]
    BY DEF Goto
  <1>3. /\ n \in 1..MaxRuns /\ p \in PastRec /\ PastFit(p) /\ LooseFit(Flow(t), tab[t], p)
        /\ Managed(Flow(t)) => TiedFit(Flow(t), tab[t], RunOf(t), p) /\ RunOf(t) \in RunRec
    BY <1>1, Working, TabTypes, RunTypes DEF RunOf
  <1>4. /\ past' \in [1..MaxRuns -> PastRec] /\ \A i \in 1..MaxRuns : i # n => past'[i] = past[i]
        /\ past'[n].presses = p.presses /\ past'[n].fixes = p.fixes
        /\ past'[n].auto = p.auto /\ past'[n].unsaved = p.unsaved
        /\ past'[n].hops = p.hops + 1 /\ p.hops \in Nat
    <2> DEFINE q == [p EXCEPT !.hops = p.hops + 1]
    <2>1. past' = [past EXCEPT ![n] = q]
      BY <1>1
    <2>2. /\ q \in PastRec /\ q.hops = p.hops + 1 /\ q.fixes = p.fixes /\ p.hops \in Nat
          /\ q.presses = p.presses /\ q.auto = p.auto /\ q.unsaved = p.unsaved
      BY <1>3, OneMore
    <2> HIDE DEF q
    <2> QED
      BY <1>1, <1>3, <2>1, <2>2, PastIs
  <1>5. PastFit(past'[n])
    BY <1>1, <1>3, <1>4, BoundsAssumption DEF PastFit, LooseFit, BoundsAssumption
  <1>6. Managed(Flow(t)) => past'[n].hops <= RunOf(t).hops
    BY <1>1, <1>3, <1>4 DEF TiedFit, RunRec
  <1>7. Flow(t).pc \in EarlyPCs
    BY <1>1 DEF EarlyPCs
  <1> QED
    BY <1>1, <1>2, <1>4, <1>5, <1>6, <1>7, LeaveKeeps

LEMMA ClickNextStep ==
    ASSUME Inv, NEW t \in Tabs, ClickNext(t)
    PROVE  Inv'
  <1>1. Active(t) /\ Flow(t).pc = "clickNext" /\ NothingMoves
    BY DEF ClickNext, At, NothingMoves
  <1>2. /\ Flow(t).corrective = "no" /\ PastFit(past[Flow(t).n])
        /\ Managed(Flow(t)) => past[Flow(t).n].hops <= RunOf(t).hops
    BY <1>1, Working DEF LooseFit, RunFit
  <1>3. CASE Continue(t, Go(t, "moved"))
    BY <1>1, <1>2, <1>3, GoKeeps DEF EarlyPCs, LatePCs, PCs
  <1>4. CASE Continue(t, Go(t, "stuck"))
    BY <1>1, <1>2, <1>4, GoKeeps DEF EarlyPCs, LatePCs, PCs
  <1>5. CASE tab' = [tab EXCEPT ![t] = Document(tab[t], "form")]
    <2>1. "form" \in Landing /\ Flow(t).pc \in EarlyPCs
      BY <1>1 DEF Landing, EarlyPCs
    <2>2. past' = past /\ past' \in [1..MaxRuns -> PastRec]
      BY <1>1 DEF NothingMoves, Inv, TypeOK
    <2>3. UNCHANGED <<server, run, watches, packet, accepted, bounds>>
      BY <1>1 DEF NothingMoves
    <2> QED
      BY <1>1, <1>2, <1>5, <2>1, <2>2, <2>3, LeaveKeeps
  <1> QED
    BY <1>3, <1>4, <1>5 DEF ClickNext

LEMMA FillStepStep ==
    ASSUME Inv, NEW t \in Tabs, FillStep(t)
    PROVE  Inv'
  <1> DEFINE e == Flow(t)
             n == e.n
             p == past[n]
             a == [e EXCEPT !.corrective = "no"]
  <1>1. /\ Active(t) /\ e.pc = "fill" /\ TypeOK
        /\ UNCHANGED <<server, run, watches, packet, accepted, bounds>>
    BY DEF FillStep, At, Inv
  <1>2. /\ n \in 1..MaxRuns /\ p \in PastRec /\ PastFit(p) /\ LooseFit(e, tab[t], p)
        /\ e \in FlowRec /\ tab[t] \in TabRec /\ tab[t].open
        /\ Managed(e) => /\ TiedFit(e, tab[t], RunOf(t), p) /\ RunOf(t) \in RunRec
                         /\ RunFit(e.mode, RunOf(t), tab[t], p)
    BY <1>1, Working, TabTypes, RunTypes DEF RunOf
  <1>3. PICK f \in AfterFill(t) : Continue(t, f)
    BY DEF FillStep
  <1>4. /\ a \in FlowRec /\ a.n = n /\ a.mode = e.mode /\ a.outcome = e.outcome
        /\ a.corrective = "no" /\ a.auto = e.auto /\ a.attempts = e.attempts
        /\ a.passes = e.passes
    BY <1>2, CorrectiveIs
  <1>5. \/ f = NeedsUser(t)
        \/ f = [a EXCEPT !.pc = "presubmit"] \/ f = [a EXCEPT !.pc = "next"]
    BY DEF AfterFill
  <1> HIDE DEF a
  <1>6. /\ f \in FlowRec /\ f.n = n /\ f.mode = e.mode /\ f.corrective = "no"
        /\ f.outcome \in {e.outcome, "needs_input"}
        /\ \/ f.pc = "report" /\ f.outcome = "needs_input" /\ ~f.auto
           \/ /\ f.pc \in {"presubmit", "next"} /\ f.auto = e.auto
              /\ f.attempts = e.attempts /\ f.passes = e.passes
    <2>1. CASE f = NeedsUser(t)
      BY <1>2, <2>1, OutcomeIs DEF NeedsUser, Outcomes
    <2>2. CASE f = [a EXCEPT !.pc = "presubmit"]
      BY <1>4, <2>2 DEF FlowRec, PCs
    <2>3. CASE f = [a EXCEPT !.pc = "next"]
      BY <1>4, <2>3 DEF FlowRec, PCs
    <2> QED
      BY <1>5, <2>1, <2>2, <2>3
  <1> DEFINE q == past'[n]
  <1>7. /\ past' \in [1..MaxRuns -> PastRec] /\ \A i \in 1..MaxRuns : i # n => past'[i] = past[i]
        /\ q.presses = p.presses /\ q.hops = p.hops /\ q.auto = p.auto
        /\ q.unsaved = p.unsaved /\ p.fixes \in Nat
        /\ q.fixes = IF e.corrective = "no" THEN p.fixes ELSE p.fixes + 1
    <2>1. CASE e.corrective = "no" /\ past' = past
      BY <1>1, <1>2, <2>1 DEF TypeOK, PastRec
    <2> DEFINE s == [p EXCEPT !.fixes = p.fixes + 1]
    <2>2. CASE e.corrective # "no" /\ past' = [past EXCEPT ![n] = s]
      <3>1. /\ s \in PastRec /\ s.hops = p.hops /\ s.fixes = p.fixes + 1 /\ p.fixes \in Nat
            /\ s.presses = p.presses /\ s.auto = p.auto /\ s.unsaved = p.unsaved
        BY <1>2, OneMore
      <3> HIDE DEF s
      <3>2. /\ past' \in [1..MaxRuns -> PastRec] /\ past'[n] = s
            /\ \A i \in 1..MaxRuns : i # n => past'[i] = past[i]
        BY <1>1, <1>2, <2>2, <3>1, PastIs
      <3> QED
        BY <2>2, <3>1, <3>2
    <2> QED
      BY <2>1, <2>2 DEF FillStep
  <1> HIDE DEF q
  <1>8. PastFit(q)
    BY <1>2, <1>7 DEF PastFit, LooseFit
  <1>9. Managed(e) => RunFit(e.mode, RunOf(t), tab[t], q)
    BY <1>2, <1>7 DEF RunFit, TiedFit, RunRec
  <1>10. LooseFit(f, tab[t], q)
    BY <1>2, <1>6, <1>7 DEF LooseFit
  <1>11. Managed(e) => TiedFit(f, tab[t], RunOf(t), q)
    BY <1>1, <1>2, <1>6, <1>7 DEF TiedFit, EarlyPCs, LatePCs
  <1> DEFINE T == [tab[t] EXCEPT !.flow = f]
  <1>12. /\ T \in TabRec /\ T.flow = f /\ SameView(T, tab[t])
         /\ T.open /\ T.page = tab[t].page /\ T.pressed = tab[t].pressed
    BY <1>2, <1>6, FlowIn
  <1>13. tab' = [tab EXCEPT ![t] = T]
    BY <1>3 DEF Continue
  <1> HIDE DEF T
  <1>14. /\ LooseFit(T.flow, T, q)
         /\ Managed(e) => TiedFit(T.flow, T, RunOf(t), q) /\ RunFit(e.mode, RunOf(t), T, q)
    BY <1>9, <1>10, <1>11, <1>12, ViewFits
  <1>15. /\ lost' \in 0..MaxLost /\ run' \in [Modes -> RunRec] /\ run' = run
         /\ UNCHANGED <<server, watches, packet, accepted, runs, byHand>>
    BY <1>1 DEF bounds, TypeOK
  <1>16. T.pressed # "no" \/ (T.flow.n # 0 /\ T.flow.pc = "click") => Pressing(t)
    BY <1>6, <1>12 DEF Pressing
  <1>17. T.flow.outcome = "submitted" => e.outcome = "submitted"
    BY <1>6, <1>12
  <1>18. /\ T.flow.n = n /\ T.flow.mode = e.mode /\ past'[n] = q
         /\ Managed(e) => TiedFit(T.flow, T, run'[e.mode], q) /\ RunFit(e.mode, run'[e.mode], T, q)
    BY <1>6, <1>12, <1>14, <1>15 DEF RunOf, q
  <1> QED
    BY <1>1, <1>7, <1>8, <1>12, <1>13, <1>14, <1>15, <1>16, <1>17, <1>18, WorkKeeps

LEMMA PressSubmitStep ==
    ASSUME Inv, NEW t \in Tabs, PressSubmit(t)
    PROVE  Inv'
  <1> DEFINE e == Flow(t)
             n == e.n
             p == past[n]
             q == past'[n]
             f == Go(t, "watch")
             T == tab'[t]
  <1>1. /\ Active(t) /\ e.pc = "click" /\ TypeOK
        /\ past' = [past EXCEPT ![n].presses = @ + 1]
        /\ UNCHANGED <<server, run, watches, packet, accepted, bounds>>
    BY DEF PressSubmit, At, Inv
  <1>2. /\ n \in 1..MaxRuns /\ p \in PastRec /\ PastFit(p) /\ LooseFit(e, tab[t], p)
        /\ e \in FlowRec /\ tab[t] \in TabRec /\ tab[t].open
        /\ Managed(e) => /\ TiedFit(e, tab[t], RunOf(t), p) /\ RunOf(t) \in RunRec
                         /\ RunFit(e.mode, RunOf(t), tab[t], p)
    BY <1>1, Working, TabTypes, RunTypes DEF RunOf
  <1>3. /\ f \in FlowRec /\ f.n = n /\ f.mode = e.mode /\ f.outcome = e.outcome
        /\ f.pc = "watch" /\ f.auto = e.auto /\ f.attempts = e.attempts
        /\ f.passes = e.passes /\ f.corrective = e.corrective
    BY <1>2, GoIs DEF PCs
  <1>4. /\ past' \in [1..MaxRuns -> PastRec] /\ \A i \in 1..MaxRuns : i # n => past'[i] = past[i]
        /\ q.presses = p.presses + 1 /\ q.fixes = p.fixes /\ q.hops = p.hops
        /\ q.auto = p.auto /\ q.unsaved = p.unsaved /\ p.presses \in Nat
    <2> DEFINE s == [p EXCEPT !.presses = p.presses + 1]
    <2>1. past' = [past EXCEPT ![n] = s]
      BY <1>1
    <2>2. /\ s \in PastRec /\ s.hops = p.hops /\ s.fixes = p.fixes /\ p.presses \in Nat
          /\ s.presses = p.presses + 1 /\ s.auto = p.auto /\ s.unsaved = p.unsaved
      BY <1>2, OneMore
    <2> HIDE DEF s
    <2> QED
      BY <1>1, <1>2, <2>1, <2>2, PastIs
  <1>5. /\ T \in TabRec /\ T.open /\ T.flow = f /\ T.pressed = "flow" /\ ~T.back
        /\ T.page = IF tab[t].page = "errors" THEN "form" ELSE tab[t].page
        /\ tab' = [tab EXCEPT ![t] = T]
    <2>1. tab' = [tab EXCEPT ![t] = [tab[t] EXCEPT !.flow = f, !.pressed = "flow", !.back = FALSE,
                               !.page = IF tab[t].page = "errors" THEN "form" ELSE tab[t].page]]
      BY <1>1, <1>2 DEF PressSubmit, Go, Flow, TypeOK, TabRec
    <2>2. tab[t].page \in Pages /\ "form" \in Pages
      BY <1>2 DEF TabRec, Pages
    <2> HIDE DEF f
    <2> QED
      BY <1>1, <1>2, <1>3, <2>1, <2>2 DEF TypeOK, TabRec
  <1> HIDE DEF q, f, T
  <1>6. e.auto /\ p.auto /\ e.mode = "auto"
    BY <1>1, <1>2 DEF LooseFit
  <1>7. PastFit(q)
    BY <1>1, <1>2, <1>4, <1>6 DEF PastFit, LooseFit
  <1>8. Managed(e) /\ ~p.unsaved => RunOf(t).phase \in Late /\ p.presses < RunOf(t).attempts
    BY <1>1, <1>2 DEF TiedFit, LatePCs
  <1>9. Managed(e) => RunFit(e.mode, RunOf(t), T, q)
    BY <1>2, <1>4, <1>5, <1>8 DEF RunFit, RunRec, Early, Late
  <1>10. LooseFit(f, T, q)
    BY <1>1, <1>2, <1>3, <1>4, <1>6 DEF LooseFit
  <1>11. Managed(e) => TiedFit(f, T, RunOf(t), q)
    BY <1>1, <1>2, <1>3, <1>4, <1>8, <1>10 DEF TiedFit, LooseFit, EarlyPCs, LatePCs
  <1>12. /\ lost' \in 0..MaxLost /\ run' \in [Modes -> RunRec] /\ run' = run
         /\ UNCHANGED <<server, watches, packet, accepted, runs, byHand>>
    BY <1>1 DEF bounds, TypeOK
  <1>13. Managed(e) => TiedFit(T.flow, T, run'[e.mode], q) /\ RunFit(e.mode, run'[e.mode], T, q)
    BY <1>5, <1>9, <1>11, <1>12 DEF RunOf
  <1>14. Pressing(t) /\ past'[n] = q
    BY <1>1 DEF Pressing, q
  <1>15. T.page \in {"thanks", "errors", "code"} => T.page = tab[t].page
    BY <1>5
  <1> QED
    BY <1>1, <1>3, <1>4, <1>5, <1>7, <1>10, <1>12, <1>13, <1>14, <1>15, WorkKeeps

LEMMA PollCodesStep ==
    ASSUME Inv, NEW t \in Tabs, PollCodes(t)
    PROVE  Inv'
  <1> DEFINE e == Flow(t)
             n == e.n
             p == past[n]
             f == Go(t, "codeWatch")
             T == tab'[t]
  <1>1. /\ Active(t) /\ e.pc = "poll" /\ TypeOK
        /\ UNCHANGED <<server, run, watches, packet, accepted, past, bounds>>
    BY DEF PollCodes, At, Inv
  <1>2. CASE Continue(t, NeedsUser(t))
    BY <1>1, <1>2, NeedsUserKeeps DEF NothingMoves
  <1>3. CASE /\ tab[t].page = "code" /\ Managed(e)
             /\ tab' = [tab EXCEPT ![t] = [tab[t] EXCEPT !.flow = f, !.pressed = "code"]]
    <2>1. /\ n \in 1..MaxRuns /\ p \in PastRec /\ PastFit(p) /\ LooseFit(e, tab[t], p)
          /\ e \in FlowRec /\ tab[t] \in TabRec /\ tab[t].open
          /\ TiedFit(e, tab[t], RunOf(t), p) /\ RunOf(t) \in RunRec
          /\ RunFit(e.mode, RunOf(t), tab[t], p)
      BY <1>1, <1>3, Working, TabTypes, RunTypes DEF RunOf
    <2>2. /\ f \in FlowRec /\ f.n = n /\ f.mode = e.mode /\ f.outcome = e.outcome
          /\ f.pc = "codeWatch" /\ f.auto = e.auto /\ f.attempts = e.attempts
          /\ f.passes = e.passes /\ f.corrective = e.corrective
      BY <2>1, GoIs DEF PCs
    <2>3. /\ T \in TabRec /\ T.open /\ T.flow = f /\ T.pressed = "code" /\ T.back = tab[t].back
          /\ T.page = "code" /\ tab' = [tab EXCEPT ![t] = T]
      <3> HIDE DEF f
      <3> QED
        BY <1>1, <1>3, <2>1, <2>2 DEF TypeOK, TabRec
    <2> HIDE DEF f, T
    <2>4. ~p.unsaved => RunOf(t).phase \in Late
      BY <1>1, <2>1 DEF TiedFit, LatePCs
    <2>5. RunFit(e.mode, RunOf(t), T, p)
      BY <2>1, <2>3, <2>4 DEF RunFit, Early, Late
    <2>6. LooseFit(f, T, p)
      BY <1>1, <2>1, <2>2 DEF LooseFit
    <2>7. TiedFit(f, T, RunOf(t), p)
      BY <1>1, <2>1, <2>2, <2>4 DEF TiedFit, EarlyPCs, LatePCs
    <2>8. /\ lost' \in 0..MaxLost /\ run' \in [Modes -> RunRec] /\ run' = run
          /\ past' \in [1..MaxRuns -> PastRec] /\ past' = past
          /\ UNCHANGED <<server, watches, packet, accepted, runs, byHand>>
      BY <1>1 DEF bounds, TypeOK
    <2>9. TiedFit(T.flow, T, run'[e.mode], p) /\ RunFit(e.mode, run'[e.mode], T, p)
      BY <2>3, <2>5, <2>7, <2>8 DEF RunOf
    <2>10. /\ tab[t].page = "code" /\ Managed(e) /\ PastFit(past'[n])
           /\ past'[n] = p /\ \A m \in Modes : run'[m] = run[m]
      BY <1>3, <2>1, <2>8
    <2> QED
      BY <1>1, <2>1, <2>2, <2>3, <2>6, <2>8, <2>9, <2>10, WorkKeeps
  <1>4. \/ Continue(t, NeedsUser(t))
        \/ /\ tab[t].page = "code" /\ Managed(e)
           /\ tab' = [tab EXCEPT ![t] = [tab[t] EXCEPT !.flow = f, !.pressed = "code"]]
    BY <1>1 DEF PollCodes, Go, Flow, TypeOK, TabRec
  <1> QED
    BY <1>2, <1>3, <1>4

-----------------------------------------------------------------------------
(* Steps of the site and of the user in the page: no run moves.              *)

LEMMA PageKeeps ==
    ASSUME Inv, NEW t \in Tabs, NEW T \in TabRec, tab' = [tab EXCEPT ![t] = T], T.open,
           UNCHANGED <<server, run, watches, packet, past, runs>>,
           accepted' \in Nat, lost' \in 0..MaxLost, byHand' \in 0..MaxByHand,
           T.flow = Flow(t) \/ T.flow = NoFlow,
           \A m \in Modes :
              run[m].n # 0 /\ run[m].tab = t => RunFit(m, run[m], T, past[run[m].n]),
           Active(t) /\ T.flow = Flow(t) =>
              /\ LooseFit(Flow(t), T, past[Flow(t).n])
              /\ Managed(Flow(t)) => TiedFit(Flow(t), T, RunOf(t), past[Flow(t).n]),
           accepted' = 0 => accepted = 0 /\ T.page # "thanks",
           Clean' => Clean /\ (OnceInv => OnceHere(t))
    PROVE  Inv'
  <1>1. TypeOK
    BY DEF Inv
  <1>2. /\ tab' \in [Tabs -> TabRec] /\ tab'[t] = T /\ Flow(t)' = T.flow
        /\ \A u \in Tabs : u # t => tab'[u] = tab[u]
    BY <1>1, TabIs DEF Flow
  <1>3. TypeOK'
    BY <1>1, <1>2 DEF TypeOK
  <1>4. TabMoves(t)
    BY <1>2, NoFlowIs DEF TabMoves, RunMoves, FlowMoves
  <1>5. RunsFit(t)'
    <2>1. \A m \in Modes :
             run'[m].n # 0 /\ run'[m].tab = t => RunFit(m, run'[m], tab'[t], past'[run'[m].n])
      BY <1>2
    <2> QED
      BY <2>1 DEF RunsFit, RunFit, Early, Late
  <1>6. FlowFits(t)'
    <2>1. CASE T.flow = NoFlow
      BY <1>2, <2>1, NoFlowIs DEF FlowFits, Active
    <2>2. CASE T.flow = Flow(t)
      <3>1. /\ Active(t)' <=> Active(t)
            /\ Managed(Flow(t))' <=> Managed(Flow(t))
            /\ RunOf(t)' = RunOf(t)
        BY <1>2, <2>2 DEF Active, Managed, RunOf
      <3>2. Active(t) =>
               /\ LooseFit(Flow(t)', tab'[t], past'[Flow(t)'.n])
               /\ Managed(Flow(t)) => TiedFit(Flow(t)', tab'[t], RunOf(t)', past'[Flow(t)'.n])
        BY <1>2, <2>2, <3>1
      <3> QED
        BY <3>1, <3>2 DEF FlowFits, LooseFit, TiedFit, EarlyPCs, LatePCs, Early, Late
    <2> QED
      BY <2>1, <2>2
  <1>7. Flow(t).n \in 1..MaxRuns => PastFit(past'[Flow(t).n])
    BY DEF Inv, RunLimits, PastFit
  <1>8. accepted' = 0 => accepted = 0 /\ SaysUntaken(t)'
    BY <1>2, NoFlowIs DEF Inv, UntakenInv, SaysUntaken
  <1> QED
    BY <1>2, <1>3, <1>4, <1>5, <1>6, <1>7, <1>8, StepKeeps DEF Inv, CleanInv

\* What is known of tab t as it is.
LEMMA Here ==
    ASSUME Inv, NEW t \in Tabs
    PROVE  /\ TypeOK /\ tab[t] \in TabRec
           /\ \A m \in Modes : run[m].n # 0 /\ run[m].tab = t =>
                 /\ RunFit(m, run[m], tab[t], past[run[m].n]) /\ run[m].n \in 1..MaxRuns
                 /\ run[m] \in RunRec
           /\ Active(t) => /\ LooseFit(Flow(t), tab[t], past[Flow(t).n])
                           /\ Flow(t).n \in 1..MaxRuns
                           /\ Managed(Flow(t)) =>
                                 /\ TiedFit(Flow(t), tab[t], RunOf(t), past[Flow(t).n])
                                 /\ RunFit(Flow(t).mode, RunOf(t), tab[t], past[Flow(t).n])
  <1>1. TypeOK /\ RunsFit(t)
    BY DEF Inv, FitInv
  <1> QED
    BY <1>1, Working, TabTypes, RunTypes, BoundsAssumption DEF RunsFit, BoundsAssumption

LEMMA SiteAnswersStep ==
    ASSUME Inv, NEW t \in Tabs, SiteAnswers(t)
    PROVE  Inv'
  <1>1. /\ tab[t].open /\ tab[t].pressed # "no"
        /\ UNCHANGED <<server, run, watches, packet, past, bounds>>
    BY DEF SiteAnswers
  <1>2. PICK page \in Pages :
           /\ page # "form" /\ page # "gateway"
           /\ tab' \in {[tab EXCEPT ![t] = [tab[t] EXCEPT !.pressed = "no", !.page = page,
                                                          !.back = (page = "errors")]],
                        [tab EXCEPT ![t] = Document([tab[t] EXCEPT !.pressed = "no", !.page = page,
                                                          !.back = (page = "errors")], page)]}
           /\ accepted' = IF page \in Taken THEN accepted + 1 ELSE accepted
    BY DEF SiteAnswers, Taken, Pages
  <1> DEFINE R == [tab[t] EXCEPT !.pressed = "no", !.page = page, !.back = (page = "errors")]
             D == Document(R, page)
             T == tab'[t]
  <1>3. /\ TypeOK /\ tab[t] \in TabRec /\ accepted \in Nat
    BY Here DEF TypeOK
  <1>4. /\ R \in TabRec /\ R.open /\ R.page = page /\ R.pressed = "no"
        /\ R.back = (page = "errors") /\ R.flow = Flow(t)
    BY <1>1, <1>3 DEF TabRec, Flow
  <1>5. /\ T \in TabRec /\ T.open /\ T.page = page /\ T.pressed = "no"
        /\ T.back = (page = "errors") /\ (T.flow = Flow(t) \/ T.flow = NoFlow)
        /\ tab' = [tab EXCEPT ![t] = T]
    <2>1. tab' = [tab EXCEPT ![t] = R] \/ tab' = [tab EXCEPT ![t] = D]
      BY <1>2
    <2> HIDE DEF R
    <2>2. /\ D \in TabRec /\ D.open /\ D.page = page /\ D.pressed = "no"
          /\ D.back = (page = "errors") /\ D.flow = NoFlow
      BY <1>4, DocumentIs
    <2> HIDE DEF D
    <2> QED
      BY <1>3, <1>4, <2>1, <2>2 DEF TypeOK
  <1> HIDE DEF T
  <1>6. ASSUME NEW m \in Modes, run[m].n # 0, run[m].tab = t
        PROVE  /\ RunFit(m, run[m], T, past[run[m].n])
               /\ ~past[run[m].n].unsaved /\ m = "auto" => run[m].phase \notin Early
    <2>1. RunFit(m, run[m], tab[t], past[run[m].n])
      BY <1>6, Here
    <2> QED
      BY <1>1, <1>5, <2>1 DEF RunFit
  <1>7. Active(t) => /\ LooseFit(Flow(t), T, past[Flow(t).n])
                     /\ ~past[Flow(t).n].unsaved => Flow(t).pc # "click"
    <2>1. Active(t) => LooseFit(Flow(t), tab[t], past[Flow(t).n])
      BY Here
    <2> QED
      BY <1>1, <1>5, <2>1 DEF LooseFit
  <1>8. Active(t) /\ Managed(Flow(t)) => TiedFit(Flow(t), T, RunOf(t), past[Flow(t).n])
    <2>1. Active(t) /\ Managed(Flow(t)) =>
             /\ TiedFit(Flow(t), tab[t], RunOf(t), past[Flow(t).n])
             /\ RunFit(Flow(t).mode, RunOf(t), tab[t], past[Flow(t).n])
      BY Here
    <2> QED
      BY <1>1, <1>5, <2>1 DEF TiedFit, RunFit
  <1>9. accepted' \in Nat /\ (accepted' = 0 => accepted = 0 /\ T.page # "thanks")
        /\ (page \notin Taken => accepted' = accepted) /\ accepted' <= accepted + 1
    BY <1>2, <1>3, <1>5 DEF Taken
  <1>10. Clean' => Clean /\ (OnceInv => OnceHere(t))
    <2>1. Clean' => Clean
      BY <1>1 DEF Clean, bounds
    <2>2. ASSUME Clean, OnceInv
          PROVE  OnceHere(t)
      <3>1. Pressing(t) /\ ~Quiet(t)
        BY <1>1 DEF Pressing, Quiet
      <3>2. accepted = 0 /\ accepted' <= 1
        BY <2>2, <3>1, <1>9 DEF OnceInv
      <3>3. ~Pressing(t)'
        <4>1. Flow(t)' = T.flow /\ tab'[t].pressed = "no"
          BY <1>5 DEF T, Flow
        <4>2. Active(t) => Flow(t).pc # "click"
          BY <1>7, <2>2, Here DEF Clean
        <4> QED
          BY <1>5, <4>1, <4>2, NoFlowIs DEF Pressing, Active
      <3>4. run["auto"].n # 0 /\ run["auto"].tab = t => run["auto"].phase \notin Early
        BY <1>6, <2>2, Here DEF Clean, Modes
      <3>5. page \in {"errors", "code"} => accepted' = 0
        BY <1>9, <3>2 DEF Taken
      <3> QED
        BY <1>1, <1>5, <3>1, <3>2, <3>3, <3>4, <3>5 DEF OnceHere, T, Early
    <2> QED
      BY <2>1, <2>2
  <1>11. runs' = runs /\ lost' \in 0..MaxLost /\ byHand' \in 0..MaxByHand
    BY <1>1, <1>3 DEF bounds, TypeOK
  <1> QED
    BY <1>1, <1>5, <1>6, <1>7, <1>8, <1>9, <1>10, <1>11, PageKeeps

LEMMA LoseIs ==
    ASSUME TypeOK, NEW k \in Nat, Lose(k)
    PROVE  lost' \in 0..MaxLost
  BY BoundsAssumption DEF TypeOK, Lose, BoundsAssumption

LEMMA ReloadStep ==
    ASSUME Inv, NEW t \in Tabs, Reload(t)
    PROVE  Inv'
  <1> DEFINE page == IF tab[t].page = "errors" THEN "form" ELSE tab[t].page
             D == Document(tab[t], page)
             T == [D EXCEPT !.pressed = tab[t].pressed]
  <1>1. /\ tab[t].open /\ Lose(1) /\ tab' = [tab EXCEPT ![t] = T]
        /\ UNCHANGED <<server, run, watches, packet, accepted, past, runs, byHand>>
    BY DEF Reload
  <1>2. /\ TypeOK /\ tab[t] \in TabRec /\ page \in Pages /\ accepted \in Nat
        /\ lost' \in 0..MaxLost /\ tab[t].pressed \in {"no", "flow", "user", "code"}
    BY <1>1, Here, TabTypes, LoseIs DEF Pages, TypeOK, TabRec
  <1>3. D \in TabRec /\ D.open /\ D.page = page /\ D.back = tab[t].back /\ D.flow = NoFlow
    BY <1>2, DocumentIs
  <1> HIDE DEF D
  <1>4. /\ T \in TabRec /\ T.open /\ T.page = page /\ T.pressed = tab[t].pressed
        /\ T.back = tab[t].back /\ T.flow = NoFlow
    BY <1>2, <1>3 DEF TabRec
  <1> HIDE DEF T
  <1>5. ASSUME NEW m \in Modes, run[m].n # 0, run[m].tab = t
        PROVE  RunFit(m, run[m], T, past[run[m].n])
    <2>1. RunFit(m, run[m], tab[t], past[run[m].n])
      BY <1>5, Here
    <2> QED
      BY <1>4, <2>1 DEF RunFit
  <1>6. accepted' = 0 => accepted = 0 /\ T.page # "thanks"
    BY <1>1, <1>4 DEF Inv, UntakenInv, SaysUntaken
  <1>7. Clean' => Clean
    BY <1>1 DEF Clean
  <1>8. ASSUME OnceInv
        PROVE  OnceHere(t)
    <2>1. tab'[t] = T /\ Flow(t)' = NoFlow
      BY <1>1, <1>2, <1>4 DEF TypeOK, Flow
    <2>2. /\ Quiet(t) => Quiet(t)'
          /\ Pressing(t)' => Pressing(t)
      BY <2>1, <1>4, NoFlowIs DEF Quiet, Pressing, Active
    <2>3. tab'[t].page \in {"errors", "code"} => tab'[t].page = tab[t].page
      BY <2>1, <1>4
    <2> QED
      BY <1>1, <1>8, <2>2, <2>3 DEF OnceHere, OnceInv, OpenRun
  <1>9. Active(t) /\ T.flow = Flow(t) => FALSE
    BY <1>4, NoFlowIs DEF Active
  <1>10. byHand' \in 0..MaxByHand /\ accepted' \in Nat
    BY <1>1, <1>2 DEF TypeOK
  <1> QED
    BY <1>1, <1>2, <1>4, <1>5, <1>6, <1>7, <1>8, <1>9, <1>10, PageKeeps

LEMMA UserSubmitsStep ==
    ASSUME Inv, NEW t \in Tabs, UserSubmits(t)
    PROVE  Inv'
  <1> DEFINE T == [tab[t] EXCEPT !.pressed = "user", !.back = FALSE, !.armed = tab[t].watching]
  <1>1. /\ tab[t].open /\ ~Active(t) /\ RunsIn(t) = {}
        /\ byHand < MaxByHand /\ byHand' = byHand + 1
        /\ UNCHANGED <<server, run, watches, packet, accepted, past, runs, lost>>
    BY DEF UserSubmits
  <1>2. TypeOK /\ tab[t] \in TabRec
    BY Here
  <1>3. tab' = [tab EXCEPT ![t] = T]
    BY <1>2 DEF UserSubmits, TypeOK
  <1>4. T \in TabRec /\ T.open /\ T.page = tab[t].page /\ T.flow = Flow(t)
    BY <1>1, <1>2 DEF TabRec, Flow
  <1> HIDE DEF T
  <1>5. \A m \in Modes : ~(run[m].n # 0 /\ run[m].tab = t)
    BY <1>1 DEF RunsIn
  <1>6. accepted' = 0 => accepted = 0 /\ T.page # "thanks"
    BY <1>1, <1>4 DEF Inv, UntakenInv, SaysUntaken
  <1>7. byHand' \in 0..MaxByHand /\ accepted' \in Nat /\ lost' \in 0..MaxLost /\ ~Clean'
    BY <1>1, <1>2, BoundsAssumption DEF TypeOK, BoundsAssumption, Clean
  <1> QED
    BY <1>1, <1>3, <1>4, <1>5, <1>6, <1>7, PageKeeps

\* The tab looks the same and nothing else happens.
LEMMA LookKeeps ==
    ASSUME Inv, NEW t \in Tabs, NEW T \in TabRec, tab' = [tab EXCEPT ![t] = T],
           SameView(T, tab[t]), T.flow = Flow(t) \/ T.flow = NoFlow, tab[t].open, lost' \in 0..MaxLost,
           UNCHANGED <<server, run, watches, packet, accepted, past, runs, byHand>>
    PROVE  Inv'
  <1>1. TypeOK /\ T.open /\ T.page = tab[t].page /\ T.pressed = tab[t].pressed
    BY Here DEF SameView
  <1>2. \A m \in Modes :
           run[m].n # 0 /\ run[m].tab = t => RunFit(m, run[m], T, past[run[m].n])
    BY Here, ViewFits
  <1>3. Active(t) => /\ LooseFit(Flow(t), T, past[Flow(t).n])
                     /\ Managed(Flow(t)) => TiedFit(Flow(t), T, RunOf(t), past[Flow(t).n])
    BY Here, ViewFits
  <1>4. accepted' = 0 => accepted = 0 /\ T.page # "thanks"
    BY <1>1 DEF Inv, UntakenInv, SaysUntaken
  <1>5. Clean' => Clean
    BY DEF Clean
  <1>6. ASSUME OnceInv
        PROVE  OnceHere(t)
    <2>1. tab'[t] = T /\ (Flow(t)' = Flow(t) \/ Flow(t)' = NoFlow)
      BY <1>1 DEF TypeOK, Flow
    <2>2. /\ Quiet(t) => Quiet(t)'
          /\ Pressing(t)' => Pressing(t)
      BY <2>1, <1>1, NoFlowIs DEF Quiet, Pressing, Active
    <2> QED
      BY <1>1, <1>6, <2>1, <2>2 DEF OnceHere, OnceInv, OpenRun
  <1>7. byHand' \in 0..MaxByHand /\ accepted' \in Nat
    BY <1>1 DEF TypeOK
  <1> QED
    BY <1>1, <1>2, <1>3, <1>4, <1>5, <1>6, <1>7, PageKeeps

LEMMA HelloLostStep ==
    ASSUME Inv, NEW t \in Tabs, HelloLost(t)
    PROVE  Inv'
  <1> DEFINE T == [tab[t] EXCEPT !.greeted = TRUE]
  <1>1. /\ tab[t].open /\ Lose(1)
        /\ UNCHANGED <<server, run, watches, packet, accepted, past, runs, byHand>>
    BY DEF HelloLost
  <1>2. TypeOK /\ tab[t] \in TabRec
    BY Here
  <1>3. tab' = [tab EXCEPT ![t] = T]
    BY DEF HelloLost
  <1>4. T \in TabRec /\ SameView(T, tab[t]) /\ T.flow = Flow(t)
    BY <1>2 DEF TabRec, SameView, Flow
  <1>5. lost' \in 0..MaxLost
    BY <1>1, <1>2, LoseIs
  <1> HIDE DEF T
  <1> QED
    BY <1>1, <1>3, <1>4, <1>5, LookKeeps

-----------------------------------------------------------------------------
(* A document is told of the run in its tab.                                 *)

LEMMA StartKeeps ==
    ASSUME Inv, NEW t \in Tabs, NEW m \in Modes, run[m].n # 0, run[m].tab = t,
           NEW T \in TabRec, tab' = [tab EXCEPT ![t] = T], SameView(T, tab[t]),
           T.flow = Job(m, tab[t].page) \/ T.flow = Flow(t),
           UNCHANGED <<server, run, watches, packet, accepted, past, bounds>>
    PROVE  Inv'
  <1> DEFINE f == T.flow
             r == run[m]
             p == past[r.n]
  <1>1. /\ TypeOK /\ tab[t] \in TabRec /\ tab[t].page \in Pages /\ r \in RunRec
        /\ RunFit(m, r, tab[t], p) /\ tab[t].open
    BY Here, TabTypes, RunTypes DEF RunFit
  <1>2. CASE T.flow = Flow(t)
    <2>1. lost' \in 0..MaxLost
      BY <1>1 DEF bounds, TypeOK
    <2> QED
      BY <1>1, <1>2, <2>1, LookKeeps DEF bounds
  <1>3. CASE T.flow = Job(m, tab[t].page)
    <2>1. /\ f \in FlowRec
          /\ f.n = r.n /\ f.mode = m /\ f.attempts = r.attempts
          /\ f.passes = r.passes /\ f.auto = r.auto
          /\ f.corrective = "no" /\ f.outcome = "needs_input"
          /\ \/ f.pc = "after" /\ r.phase \in Late
             \/ f.pc \in {"report", "locate"} /\ r.phase \in Early
      BY <1>1, <1>3, JobIs
    <2>2. /\ tab' \in [Tabs -> TabRec] /\ tab'[t] = T /\ Flow(t)' = f
          /\ \A u \in Tabs : u # t => tab'[u] = tab[u]
          /\ T.open /\ T.page = tab[t].page /\ T.pressed = tab[t].pressed
      BY <1>1, TabIs DEF Flow, SameView
    <2> HIDE DEF f
    <2>3. LooseFit(f, T, p)
      BY <1>1, <2>1 DEF LooseFit, RunFit
    <2>4. TiedFit(f, T, r, p)
      BY <2>1 DEF TiedFit, EarlyPCs, LatePCs
    <2>5. TypeOK'
      BY <1>1, <2>2 DEF TypeOK, bounds
    <2>6. TabMoves(t)
      BY <2>1, <2>2 DEF TabMoves, RunMoves, FlowMoves
    <2>7. RunsFit(t)'
      <3>1. \A k \in Modes :
               run[k].n # 0 /\ run[k].tab = t => RunFit(k, run[k], T, past[run[k].n])
        BY Here, ViewFits
      <3>2. \A k \in Modes :
               run'[k].n # 0 /\ run'[k].tab = t => RunFit(k, run'[k], tab'[t], past'[run'[k].n])
        BY <2>2, <3>1
      <3> QED
        BY <3>2 DEF RunsFit, RunFit, Early, Late
    <2>8. FlowFits(t)'
      <3>1. RunOf(t)' = r /\ Flow(t)'.n = r.n
        BY <2>1, <2>2 DEF RunOf
      <3>2. /\ LooseFit(Flow(t)', tab'[t], past'[Flow(t)'.n])
            /\ TiedFit(Flow(t)', tab'[t], RunOf(t)', past'[Flow(t)'.n])
        BY <2>2, <2>3, <2>4, <3>1
      <3> QED
        BY <3>2 DEF FlowFits, LooseFit, TiedFit, EarlyPCs, LatePCs, Early, Late
    <2>9. Flow(t).n \in 1..MaxRuns => PastFit(past'[Flow(t).n])
      BY DEF Inv, RunLimits, PastFit
    <2>10. accepted' = 0 => accepted = 0 /\ SaysUntaken(t)'
      BY <2>1, <2>2 DEF Inv, UntakenInv, SaysUntaken
    <2>11. Clean' => Clean
      BY DEF Clean, bounds
    <2>12. ASSUME OnceInv
           PROVE  OnceHere(t)
      <3>1. m = "auto"
        BY <2>12 DEF OnceInv, Modes
      <3>2. Pressing(t)' => Pressing(t)
        BY <2>1, <2>2 DEF Pressing
      <3> QED
        BY <2>2, <2>12, <3>1, <3>2 DEF OnceHere, OnceInv, OpenRun
    <2> QED
      BY <2>2, <2>5, <2>6, <2>7, <2>8, <2>9, <2>10, <2>11, <2>12, StepKeeps DEF Inv, CleanInv, bounds
  <1> QED
    BY <1>2, <1>3

LEMMA HelloStep ==
    ASSUME Inv, NEW t \in Tabs, Hello(t)
    PROVE  Inv'
  <1> DEFINE r == [tab[t] EXCEPT !.greeted = TRUE]
             m == CHOOSE k \in RunsIn(t) : TRUE
             T == IF RunsIn(t) # {} THEN StartFlow(r, Job(m, r.page))
                  ELSE IF t \in watches THEN StartWatch(r, TRUE) ELSE r
  <1>1. /\ tab[t].open /\ tab' = [tab EXCEPT ![t] = T]
        /\ UNCHANGED <<server, run, watches, packet, accepted, past, bounds>>
    BY DEF Hello
  <1>2. TypeOK /\ tab[t] \in TabRec /\ tab[t].page \in Pages
    BY Here, TabTypes
  <1>3. /\ r \in TabRec /\ SameView(r, tab[t]) /\ r.flow = Flow(t) /\ r.page = tab[t].page
    BY <1>2 DEF TabRec, SameView, Flow
  <1> HIDE DEF r
  <1>4. CASE RunsIn(t) # {}
    <2>1. m \in Modes /\ run[m].n # 0 /\ run[m].tab = t
      BY <1>4 DEF RunsIn
    <2> DEFINE job == Job(m, r.page)
    <2>2. job \in FlowRec
      BY <1>2, <1>3, <2>1, JobIs
    <2>3. T = StartFlow(r, job)
      BY <1>4
    <2> HIDE DEF job, T
    <2>4. /\ T \in TabRec /\ SameView(T, r) /\ T.flow \in {r.flow, job}
      BY <1>3, <2>2, <2>3, StartFlowIs
    <2>5. SameView(T, tab[t])
      BY <1>3, <2>4 DEF SameView
    <2>6. T.flow = Job(m, tab[t].page) \/ T.flow = Flow(t)
      BY <1>3, <2>4 DEF job
    <2> HIDE DEF m
    <2> QED
      BY <1>1, <2>1, <2>4, <2>5, <2>6, StartKeeps
  <1>5. CASE RunsIn(t) = {}
    <2>1. T = StartWatch(r, TRUE) \/ T = r
      BY <1>5
    <2> HIDE DEF T
    <2> DEFINE W == StartWatch(r, TRUE)
    <2>2. /\ W \in TabRec /\ SameView(W, r) /\ W.flow = r.flow
      BY <1>3, StartWatchIs
    <2>3. T = W \/ T = r
      BY <2>1
    <2> HIDE DEF W
    <2>4. T \in TabRec /\ SameView(T, tab[t]) /\ T.flow = Flow(t)
      BY <1>3, <2>2, <2>3 DEF SameView
    <2>5. lost' \in 0..MaxLost
      BY <1>1, <1>2 DEF bounds, TypeOK
    <2> QED
      BY <1>1, <2>4, <2>5, LookKeeps DEF bounds
  <1> QED
    BY <1>4, <1>5

LEMMA KickStep ==
    ASSUME Inv, NEW m \in Modes, Kick(m)
    PROVE  Inv'
  <1> DEFINE t == run[m].tab
             job == Job(m, tab[t].page)
             T == StartFlow(tab[t], job)
  <1>1. /\ run[m].n # 0 /\ tab' = [tab EXCEPT ![t] = T]
        /\ UNCHANGED <<server, run, watches, packet, accepted, past, bounds>>
    BY DEF Kick
  <1>2. TypeOK /\ t \in Tabs
    BY RunTypes DEF Inv
  <1>3. tab[t] \in TabRec /\ tab[t].page \in Pages
    BY <1>2, TabTypes
  <1>4. job \in FlowRec
    BY <1>2, <1>3, JobIs
  <1> HIDE DEF job
  <1>5. T \in TabRec /\ SameView(T, tab[t]) /\ T.flow \in {tab[t].flow, job}
    BY <1>3, <1>4, StartFlowIs
  <1>6. T.flow = Job(m, tab[t].page) \/ T.flow = Flow(t)
    BY <1>5 DEF job, Flow
  <1> HIDE DEF T
  <1> QED
    BY <1>1, <1>2, <1>5, <1>6, StartKeeps

-----------------------------------------------------------------------------
(* Runs that end.                                                            *)

LEMMA FinishIs ==
    ASSUME TypeOK, NEW m \in Modes, NEW status \in Outcomes, NEW tabs \in [Tabs -> TabRec],
           FinishRun(m, status, tabs)
    PROVE  /\ run' \in [Modes -> RunRec] /\ run'[m].n = 0
           /\ \A k \in Modes : k # m => run'[k] = run[k]
           /\ server' \in {"ready", "in_progress", "needs_input", "failed", "submitted"}
           /\ server' = "submitted" => server = "submitted" \/ status = "submitted"
           /\ m = "auto" /\ server = "in_progress" =>
                 server' = IF status = "released" THEN "ready" ELSE status
           /\ watches' \subseteq Tabs /\ (status # "needs_input" => watches' = watches)
           /\ tab' \in [Tabs -> TabRec]
           /\ \A u \in Tabs : /\ SameView(tab'[u], tabs[u]) /\ tab'[u].flow = tabs[u].flow
                              /\ u # run[m].tab => tab'[u] = tabs[u]
           /\ status = "needs_input" => tab' = tabs
  <1>1. run' \in [Modes -> RunRec] /\ run'[m] = NoRun /\ \A k \in Modes : k # m => run'[k] = run[k]
    BY NoRunIs DEF FinishRun, TypeOK
  <1>2. /\ server' \in {"ready", "in_progress", "needs_input", "failed", "submitted"}
        /\ server' = "submitted" => server = "submitted" \/ status = "submitted"
        /\ m = "auto" /\ server = "in_progress" =>
              server' = IF status = "released" THEN "ready" ELSE status
    BY DEF FinishRun, Record, Accepts, TypeOK, Outcomes
  <1>3. run[m].tab \in Tabs
    BY RunTypes
  <1>4. watches' \subseteq Tabs /\ (status # "needs_input" => watches' = watches)
    BY <1>3 DEF FinishRun, TypeOK
  <1> DEFINE v == run[m].tab
             T == [tabs[v] EXCEPT !.closing = tabs[v].open]
  <1>5. tab' = tabs \/ tab' = [tabs EXCEPT ![v] = T]
    BY DEF FinishRun
  <1>6. T \in TabRec /\ SameView(T, tabs[v]) /\ T.flow = tabs[v].flow
    BY <1>3 DEF TabRec, SameView
  <1>7. \A u \in Tabs : SameView(tabs[u], tabs[u])
    BY DEF SameView
  <1>8. status = "needs_input" => tab' = tabs
    BY DEF FinishRun
  <1>9. v \in Tabs
    BY <1>3
  <1>10. run'[m].n = 0
    BY <1>1, NoRunIs
  <1> HIDE DEF T, v
  <1>11. /\ tab' \in [Tabs -> TabRec]
         /\ \A u \in Tabs : /\ SameView(tab'[u], tabs[u]) /\ tab'[u].flow = tabs[u].flow
                            /\ u # v => tab'[u] = tabs[u]
    <2>1. CASE tab' = tabs
      BY <1>7, <2>1
    <2>2. CASE tab' = [tabs EXCEPT ![v] = T]
      BY <1>6, <1>7, <1>9, <2>2
    <2> QED
      BY <1>5, <2>1, <2>2
  <1> QED
    BY <1>1, <1>2, <1>4, <1>8, <1>10, <1>11 DEF v

\* A run has its tab to itself.
LEMMA OneRunHere ==
    ASSUME Inv, NEW m \in Modes, run[m].n # 0, NEW k \in Modes, run[k].n # 0,
           run[k].tab = run[m].tab
    PROVE  k = m
  BY DEF Inv, ShapeInv, PlacesInv, Modes

\* What the end of a run leaves of its flow.
FlowLeft(f, e) ==
    \/ f.n = 0 /\ f.outcome # "submitted"
    \/ /\ f.n = e.n /\ f.mode = e.mode /\ f.pc = e.pc /\ f.auto = e.auto
       /\ f.corrective = e.corrective /\ f.outcome = e.outcome

LEMMA SameFlowFits ==
    ASSUME NEW f, NEW e, NEW T, NEW p, LooseFit(e, T, p),
           f.mode = e.mode, f.pc = e.pc, f.auto = e.auto, f.corrective = e.corrective
    PROVE  LooseFit(f, T, p)
  BY Zenon DEF LooseFit

LEMMA FinishKeeps ==
    ASSUME Inv, NEW m \in Modes, run[m].n # 0, NEW status \in Outcomes,
           NEW t \in Tabs, run[m].tab = t,
           NEW tabs \in [Tabs -> TabRec], FinishRun(m, status, tabs),
           \A u \in Tabs : u # t => tabs[u] = tab[u],
           SameView(tabs[t], tab[t]), NEW f, tabs[t].flow = f, FlowLeft(f, Flow(t)),
           UNCHANGED <<packet, accepted, past, runs>>,
           lost' \in 0..MaxLost, byHand' \in 0..MaxByHand,
           status = "submitted" => accepted # 0,
           Clean' => /\ Clean
                     /\ status = "released" =>
                           accepted = 0 /\ f.n = 0 /\ tab[t].pressed = "no"
    PROVE  Inv'
  <1>1. /\ TypeOK /\ tab[t].open /\ run[m].n \in 1..MaxRuns
    BY Here, RunTypes, BoundsAssumption DEF RunFit, Inv, BoundsAssumption
  <1>2. /\ run' \in [Modes -> RunRec] /\ run'[m].n = 0
        /\ \A k \in Modes : k # m => run'[k] = run[k]
        /\ server' \in {"ready", "in_progress", "needs_input", "failed", "submitted"}
        /\ server' = "submitted" => server = "submitted" \/ status = "submitted"
        /\ m = "auto" /\ server = "in_progress" =>
              server' = IF status = "released" THEN "ready" ELSE status
        /\ watches' \subseteq Tabs /\ (status # "needs_input" => watches' = watches)
        /\ tab' \in [Tabs -> TabRec]
        /\ SameView(tab'[t], tabs[t]) /\ tab'[t].flow = f
        /\ \A u \in Tabs : u # t => tab'[u] = tab[u]
    BY <1>1, FinishIs
  <1>3. TypeOK'
    BY <1>1, <1>2 DEF TypeOK
  <1>4. /\ SameView(tab'[t], tab[t]) /\ Flow(t)' = f
        /\ tab'[t].open /\ tab'[t].page = tab[t].page /\ tab'[t].pressed = tab[t].pressed
    BY <1>1, <1>2 DEF SameView, Flow
  <1>5. /\ f.n = 0 \/ (f.n = Flow(t).n /\ f.mode = Flow(t).mode /\ f.pc = Flow(t).pc
                        /\ f.auto = Flow(t).auto /\ f.corrective = Flow(t).corrective)
        /\ f.outcome = "submitted" => Flow(t).outcome = "submitted"
    BY DEF FlowLeft
  <1>6. TabMoves(t)
    BY <1>2, <1>4, <1>5 DEF TabMoves, RunMoves, FlowMoves
  <1>7. PlaceStays(t)
    BY <1>4 DEF PlaceStays
  <1>8. RunsFit(t)'
    <2>1. ASSUME NEW k \in Modes
          PROVE  ~(run'[k].n # 0 /\ run'[k].tab = t)
      BY <1>2, OneRunHere
    <2> QED
      BY <2>1 DEF RunsFit
  <1>9. FlowFits(t)'
    <2>1. CASE f.n = 0
      BY <1>4, <2>1 DEF FlowFits, Active
    <2>2. CASE f.n # 0
      <3>1. /\ f.n = Flow(t).n /\ f.mode = Flow(t).mode /\ f.pc = Flow(t).pc
            /\ f.auto = Flow(t).auto /\ f.corrective = Flow(t).corrective /\ Active(t)
        BY <1>5, <2>2 DEF Active
      <3>2. LooseFit(Flow(t), tab[t], past[f.n])
        BY <3>1, Here
      <3>3. f.mode = m /\ m \in Modes
        BY <3>1 DEF Inv, ShapeInv, FlowsInv
      <3>4. LooseFit(f, tab'[t], past[f.n])
        BY <3>1, <3>2, <1>4, ViewFits, SameFlowFits
      <3>5. ~Managed(Flow(t))'
        BY <3>3, <2>2, <1>2, <1>4 DEF Managed
      <3> QED
        BY <1>4, <3>4, <3>5 DEF FlowFits, LooseFit
    <2> QED
      BY <2>1, <2>2
  <1>10. accepted = 0 => SaysUntaken(t)' /\ server' # "submitted"
    BY <1>1, <1>2, <1>4, <1>5 DEF Inv, UntakenInv, SaysUntaken
  <1>11. ASSUME Clean, OnceInv,
                status = "released" => accepted = 0 /\ f.n = 0 /\ tab[t].pressed = "no"
         PROVE  Settled(t)
    <2>1. m = "auto" /\ server = "in_progress"
      BY <1>11 DEF OnceInv, Modes
    <2>2. watches = {} /\ \A u \in Tabs : Quiet(u) \/ u = t
      BY <1>11, <2>1 DEF OnceInv, OpenRun
    <2>3. /\ Quiet(t) => Quiet(t)'
          /\ Pressing(t)' => Pressing(t)
      BY <1>4, <1>5 DEF Quiet, Pressing, Active
    <2>4. \A k \in Modes : run'[k].n = 0
      BY <1>2, <1>11, <2>1 DEF OnceInv, Modes
    <2>5. ASSUME status = "released"
          PROVE  server' = "ready" /\ accepted = 0 /\ watches' = {} /\ \A u \in Tabs : Quiet(u)'
      <3>1. Quiet(t)'
        BY <1>4, <1>11, <2>5 DEF Quiet, Active
      <3>2. \A u \in Tabs : u # t => Quiet(u)'
        BY <1>2, <2>2 DEF Quiet, Active, Flow
      <3> QED
        BY <1>2, <1>11, <2>1, <2>2, <2>5, <3>1, <3>2
    <2>6. status # "released" => server' \notin {"ready", "in_progress"}
      BY <1>2, <2>1 DEF Outcomes
    <2> QED
      BY <2>3, <2>4, <2>5, <2>6 DEF Settled
  <1>12. Clean' => Clean /\ Settled(t)
    BY <1>11 DEF Inv, CleanInv
  <1> QED
    BY <1>1, <1>3, <1>6, <1>7, <1>8, <1>9, <1>10, <1>12, SettleKeeps

LEMMA AbortedIs ==
    ASSUME Inv, NEW m \in Modes, NEW t \in Tabs, run[m].tab = t, NEW tabs \in MaybeAborted(m)
    PROVE  /\ tabs \in [Tabs -> TabRec]
           /\ \A u \in Tabs : u # t => tabs[u] = tab[u]
           /\ SameView(tabs[t], tab[t]) /\ FlowLeft(tabs[t].flow, Flow(t))
  <1> DEFINE b == Flow(t).aborted \/ (Flow(t).n = run[m].n)
             f == [Flow(t) EXCEPT !.aborted = b]
             T == [tab[t] EXCEPT !.flow = f]
  <1>1. TypeOK /\ tab[t] \in TabRec /\ Flow(t) \in FlowRec /\ Flow(t) = tab[t].flow
    BY TabTypes DEF Inv, Flow
  <1>2. b \in BOOLEAN
    OBVIOUS
  <1> HIDE DEF b
  <1>3. /\ f \in FlowRec /\ f.n = Flow(t).n /\ f.mode = Flow(t).mode /\ f.pc = Flow(t).pc
        /\ f.auto = Flow(t).auto /\ f.corrective = Flow(t).corrective
        /\ f.outcome = Flow(t).outcome
    BY <1>1, <1>2 DEF FlowRec
  <1> HIDE DEF f
  <1>4. T \in TabRec /\ T.flow = f /\ SameView(T, tab[t])
    BY <1>1, <1>3 DEF TabRec, SameView
  <1>5. T = [tab[t] EXCEPT !.flow.aborted = b]
    BY <1>1 DEF T, f
  <1> HIDE DEF T
  <1>6. tabs = tab \/ tabs = [tab EXCEPT ![t] = T]
    BY <1>1, <1>5 DEF MaybeAborted, b, Flow
  <1>7. CASE tabs = tab
    BY <1>1, <1>7 DEF TypeOK, SameView, FlowLeft
  <1>8. CASE tabs = [tab EXCEPT ![t] = T]
    BY <1>1, <1>3, <1>4, <1>8 DEF TypeOK, FlowLeft
  <1> QED
    BY <1>6, <1>7, <1>8

LEMMA DeadlinePassesStep ==
    ASSUME Inv, NEW m \in Modes, DeadlinePasses(m)
    PROVE  Inv'
  <1>1. PICK t \in Tabs : run[m].tab = t
    BY RunTypes DEF Inv
  <1>2. PICK status \in Outcomes : status = TimedOut(run[m].phase)
    BY DEF TimedOut, Outcomes
  <1>3. status \in {"needs_input", "failed"}
    BY <1>2 DEF TimedOut
  <1>4. PICK tabs \in MaybeAborted(m) : FinishRun(m, status, tabs)
    BY <1>2 DEF DeadlinePasses
  <1>5. run[m].n # 0 /\ UNCHANGED <<packet, accepted, past, runs, lost, byHand>>
    BY DEF DeadlinePasses, bounds
  <1>6. /\ tabs \in [Tabs -> TabRec]
        /\ \A u \in Tabs : u # t => tabs[u] = tab[u]
        /\ SameView(tabs[t], tab[t]) /\ FlowLeft(tabs[t].flow, Flow(t))
    BY <1>1, AbortedIs
  <1>7. PICK f : f = tabs[t].flow
    OBVIOUS
  <1>8. lost' \in 0..MaxLost /\ byHand' \in 0..MaxByHand
    BY <1>5 DEF Inv, TypeOK
  <1>9. Clean' => Clean
    BY <1>5 DEF Clean
  <1> QED
    BY <1>1, <1>3, <1>4, <1>5, <1>6, <1>7, <1>8, <1>9, FinishKeeps

LEMMA StopCurrentStep ==
    ASSUME Inv, StopCurrent
    PROVE  Inv'
  <1>1. PICK t \in Tabs : run["auto"].tab = t
    BY RunTypes DEF Inv, Modes
  <1>2. PICK tabs \in MaybeAborted("auto") : FinishRun("auto", "released", tabs)
    BY DEF StopCurrent
  <1>3. /\ run["auto"].n # 0 /\ byHand < MaxByHand /\ byHand' = byHand + 1
        /\ UNCHANGED <<packet, accepted, past, runs, lost>>
    BY DEF StopCurrent
  <1>4. "auto" \in Modes /\ "released" \in Outcomes
    BY DEF Modes, Outcomes
  <1>5. /\ tabs \in [Tabs -> TabRec]
        /\ \A u \in Tabs : u # t => tabs[u] = tab[u]
        /\ SameView(tabs[t], tab[t]) /\ FlowLeft(tabs[t].flow, Flow(t))
    BY <1>1, <1>4, AbortedIs
  <1>6. PICK f : f = tabs[t].flow
    OBVIOUS
  <1>7. lost' \in 0..MaxLost /\ byHand' \in 0..MaxByHand /\ ~Clean'
    BY <1>3, BoundsAssumption DEF Inv, TypeOK, BoundsAssumption, Clean
  <1> QED
    BY <1>1, <1>2, <1>3, <1>4, <1>5, <1>6, <1>7, FinishKeeps

LEMMA ReportedIs ==
    ASSUME Inv, NEW t \in Tabs, Active(t), NEW answered \in BOOLEAN
    PROVE  \E T \in TabRec : /\ Reported(t, answered) = [tab EXCEPT ![t] = T]
                             /\ SameView(T, tab[t]) /\ T.flow = NoFlow
  <1> DEFINE D == tab[t].finished \cup {Flow(t).n}
             U == [tab[t] EXCEPT !.flow = NoFlow, !.finished = D]
             W == StartWatch(U, FALSE)
             T == IF WatchedAfter(t, answered) THEN W ELSE U
  <1>1. TypeOK /\ tab[t] \in TabRec /\ Flow(t).n \in 1..MaxRuns
    BY Here
  <1>2. D \in SUBSET (1..MaxRuns)
    BY <1>1 DEF TabRec
  <1> HIDE DEF D
  <1>3. U \in TabRec /\ U.flow = NoFlow /\ SameView(U, tab[t])
    BY <1>1, <1>2, NoFlowIs DEF TabRec, SameView
  <1>4. Reported(t, answered) = [tab EXCEPT ![t] = T]
    BY DEF Reported, D
  <1> HIDE DEF U
  <1>5. W \in TabRec /\ SameView(W, U) /\ W.flow = U.flow
    BY <1>3, StartWatchIs
  <1> HIDE DEF W
  <1>6. T \in TabRec /\ SameView(T, tab[t]) /\ T.flow = NoFlow
    BY <1>3, <1>5 DEF SameView
  <1> QED
    BY <1>4, <1>6

LEMMA ReportStep ==
    ASSUME Inv, NEW t \in Tabs, Report(t)
    PROVE  Inv'
  <1> DEFINE m == Flow(t).mode
             status == Flow(t).outcome
  <1>1. /\ Active(t) /\ Flow(t).pc = "report" /\ UNCHANGED <<packet, accepted, past, runs, byHand>>
        /\ TypeOK /\ tab[t].open /\ Flow(t) \in FlowRec
    BY Working, TabTypes DEF Report, At, Inv
  <1>2. byHand' \in 0..MaxByHand /\ (Clean' => Clean)
    BY <1>1 DEF TypeOK, Clean
  <1>3. CASE /\ Managed(Flow(t))
             /\ \E answered \in BOOLEAN :
                   /\ Lose(IF answered THEN 0 ELSE 1)
                   /\ FinishRun(m, status, Reported(t, answered))
    <2>1. m \in Modes /\ status \in Outcomes /\ run[m].n # 0 /\ run[m].tab = t
      BY <1>1, <1>3, Working DEF FlowRec, RunOf, Active
    <2>2. PICK answered \in BOOLEAN : /\ Lose(IF answered THEN 0 ELSE 1)
                                      /\ FinishRun(m, status, Reported(t, answered))
      BY <1>3
    <2>3. PICK T \in TabRec : /\ Reported(t, answered) = [tab EXCEPT ![t] = T]
                              /\ SameView(T, tab[t]) /\ T.flow = NoFlow
      BY <1>1, ReportedIs
    <2> DEFINE tabs == [tab EXCEPT ![t] = T]
    <2>4. /\ tabs \in [Tabs -> TabRec] /\ \A u \in Tabs : u # t => tabs[u] = tab[u]
          /\ tabs[t] = T
      BY <1>1 DEF TypeOK
    <2>5. FinishRun(m, status, tabs)
      BY <2>2, <2>3
    <2> HIDE DEF tabs
    <2>6. lost' \in 0..MaxLost
      BY <1>1, <2>2, LoseIs
    <2>7. status = "submitted" => accepted # 0
      BY DEF Inv, UntakenInv, SaysUntaken
    <2>8. ASSUME Clean, status = "released"
          PROVE  accepted = 0 /\ tab[t].pressed = "no"
      <3>1. /\ m = "auto" /\ OpenRun
        BY <2>1, <2>8 DEF Inv, CleanInv, OnceInv, Modes
      <3>2. ~past[Flow(t).n].unsaved
        BY <1>1, <2>8, Here DEF Clean
      <3>3. /\ TiedFit(Flow(t), tab[t], RunOf(t), past[Flow(t).n])
            /\ RunFit(m, RunOf(t), tab[t], past[Flow(t).n])
        BY <1>1, <1>3, Working
      <3>4. RunOf(t).phase \in Early
        BY <1>1, <2>8, <3>2, <3>3 DEF TiedFit
      <3>5. tab[t].pressed = "no"
        BY <3>1, <3>2, <3>3, <3>4 DEF RunFit
      <3> QED
        BY <2>1, <3>1, <3>4, <3>5 DEF OpenRun, RunOf
    <2>9. T.flow.n = 0 /\ FlowLeft(T.flow, Flow(t))
      BY <2>3, NoFlowIs DEF FlowLeft
    <2>10. PICK f : f = T.flow
      OBVIOUS
    <2> HIDE DEF m, status
    <2> QED
      BY <1>1, <1>2, <2>1, <2>3, <2>4, <2>5, <2>6, <2>7, <2>8, <2>9, <2>10, FinishKeeps
  <1>4. CASE /\ tab' = Reported(t, FALSE)
             /\ Lose(IF Managed(Flow(t)) THEN 1 ELSE 0)
             /\ UNCHANGED <<server, run, watches>>
    <2>1. PICK T \in TabRec : /\ Reported(t, FALSE) = [tab EXCEPT ![t] = T]
                              /\ SameView(T, tab[t]) /\ T.flow = NoFlow
      BY <1>1, ReportedIs
    <2>2. lost' \in 0..MaxLost
      BY <1>1, <1>4, LoseIs
    <2> QED
      BY <1>1, <1>4, <2>1, <2>2, LookKeeps
  <1> QED
    BY <1>3, <1>4 DEF Report

-----------------------------------------------------------------------------
(* What the user and the browser do.                                         *)

\* A tab that looks the same keeps its runs and its flow fit.
LEMMA LookFits ==
    ASSUME Inv, NEW t \in Tabs, NEW T \in TabRec, tab' = [tab EXCEPT ![t] = T],
           SameView(T, tab[t]), T.flow = Flow(t), UNCHANGED <<run, past>>
    PROVE  /\ TabMoves(t) /\ RunsFit(t)' /\ FlowFits(t)'
           /\ tab' \in [Tabs -> TabRec] /\ tab'[t] = T /\ Flow(t)' = Flow(t)
  <1>1. TypeOK /\ RunsFit(t) /\ FlowFits(t)
    BY DEF Inv, FitInv
  <1>2. /\ tab' \in [Tabs -> TabRec] /\ tab'[t] = T /\ Flow(t)' = Flow(t)
        /\ \A u \in Tabs : u # t => tab'[u] = tab[u]
    BY <1>1, TabIs DEF Flow
  <1>3. TabMoves(t)
    BY <1>2 DEF TabMoves, RunMoves, FlowMoves
  <1>4. \A m \in Modes :
           run'[m].n # 0 /\ run'[m].tab = t => RunFit(m, run'[m], tab'[t], past'[run'[m].n])
    BY <1>1, <1>2, ViewFits DEF RunsFit
  <1>5. RunsFit(t)'
    BY <1>4 DEF RunsFit, RunFit, Early, Late
  <1>6. Flow(t)'.n # 0 =>
           /\ LooseFit(Flow(t)', tab'[t], past'[Flow(t)'.n])
           /\ Managed(Flow(t)) => TiedFit(Flow(t)', tab'[t], RunOf(t)', past'[Flow(t)'.n])
    BY <1>1, <1>2, ViewFits DEF FlowFits, Active, RunOf
  <1>7. FlowFits(t)'
    BY <1>2, <1>6 DEF FlowFits, Active, Managed, RunOf, LooseFit, TiedFit, EarlyPCs, LatePCs,
                      Early, Late
  <1> QED
    BY <1>2, <1>3, <1>5, <1>7

LEMMA WatchConfirmedStep ==
    ASSUME Inv, NEW t \in Tabs, WatchConfirmed(t)
    PROVE  Inv'
  <1> DEFINE T == [tab[t] EXCEPT !.watching = FALSE]
  <1>1. /\ tab[t].open /\ tab[t].page = "thanks" /\ tab' = [tab EXCEPT ![t] = T]
        /\ UNCHANGED <<run, packet, accepted, past, runs, byHand>>
    BY DEF WatchConfirmed
  <1>2. TypeOK /\ tab[t] \in TabRec
    BY Here
  <1>3. T \in TabRec /\ SameView(T, tab[t]) /\ T.flow = Flow(t)
    BY <1>2 DEF TabRec, SameView, Flow
  <1> HIDE DEF T
  <1>4. CASE /\ t \in watches /\ Record("submitted")
             /\ watches' = watches \ {t} /\ UNCHANGED lost
    <2>1. server' = "submitted"
      BY <1>2, <1>4 DEF Record, Accepts, TypeOK
    <2>2. /\ TabMoves(t) /\ RunsFit(t)' /\ FlowFits(t)'
          /\ tab' \in [Tabs -> TabRec] /\ tab'[t] = T /\ Flow(t)' = Flow(t)
      BY <1>1, <1>3, LookFits
    <2>3. TypeOK'
      BY <1>1, <1>2, <1>4, <2>1, <2>2 DEF TypeOK
    <2>4. T.open /\ T.page = tab[t].page /\ T.pressed = tab[t].pressed
      BY <1>1, <1>3 DEF SameView
    <2>5. PlaceStays(t)
      BY <1>1, <2>2, <2>4 DEF PlaceStays
    <2>6. accepted # 0
      BY <1>1 DEF Inv, UntakenInv, SaysUntaken
    <2>7. Clean' => Clean
      BY <1>1 DEF Clean
    <2>8. ASSUME OnceInv
          PROVE  Settled(t)
      <3>1. \A m \in Modes : run'[m].n = 0
        BY <1>1, <1>4, <2>8 DEF OnceInv, OpenRun, Modes
      <3>2. /\ Quiet(t) => Quiet(t)'
            /\ Pressing(t)' => Pressing(t)
        BY <2>2, <2>4 DEF Quiet, Pressing, Active
      <3> QED
        BY <2>1, <3>1, <3>2 DEF Settled
    <2> QED
      BY <1>1, <2>2, <2>3, <2>5, <2>6, <2>7, <2>8, SettleKeeps DEF Inv, CleanInv
  <1>5. CASE /\ Lose(IF t \in watches THEN 1 ELSE 0)
             /\ UNCHANGED <<server, watches>>
    <2>1. lost' \in 0..MaxLost
      BY <1>2, <1>5, LoseIs
    <2> QED
      BY <1>1, <1>3, <1>5, <2>1, LookKeeps
  <1> QED
    BY <1>4, <1>5 DEF WatchConfirmed

\* A tab that is closed takes with it the runs that were in it.
LEMMA CloseFits ==
    ASSUME Inv, NEW t \in Tabs, tab' = [tab EXCEPT ![t] = Closed], UNCHANGED past,
           run' \in [Modes -> RunRec],
           \A m \in Modes : IF run[m].n # 0 /\ run[m].tab = t THEN run'[m].n = 0
                            ELSE run'[m] = run[m]
    PROVE  /\ TabMoves(t) /\ RunsFit(t)' /\ FlowFits(t)'
           /\ tab' \in [Tabs -> TabRec] /\ tab'[t] = Closed /\ Flow(t)' = NoFlow
           /\ SaysUntaken(t)' /\ Quiet(t)' /\ ~Pressing(t)'
  <1>1. TypeOK
    BY DEF Inv
  <1>2. /\ tab' \in [Tabs -> TabRec] /\ tab'[t] = Closed /\ Flow(t)' = NoFlow
        /\ \A u \in Tabs : u # t => tab'[u] = tab[u]
    BY <1>1, TabIs, ClosedIs DEF Flow
  <1>3. TabMoves(t)
    BY <1>2, NoFlowIs DEF TabMoves, RunMoves, FlowMoves
  <1>4. \A m \in Modes : ~(run'[m].n # 0 /\ run'[m].tab = t)
    OBVIOUS
  <1>5. RunsFit(t)'
    BY <1>4 DEF RunsFit
  <1>6. FlowFits(t)'
    BY <1>2, NoFlowIs DEF FlowFits, Active
  <1>7. SaysUntaken(t)' /\ Quiet(t)' /\ ~Pressing(t)'
    BY <1>2, NoFlowIs, ClosedIs DEF SaysUntaken, Quiet, Pressing, Active
  <1> QED
    BY <1>2, <1>3, <1>5, <1>6, <1>7

LEMMA TabRemovedStep ==
    ASSUME Inv, NEW t \in Tabs, TabRemoved(t)
    PROVE  Inv'
  <1> DEFINE gone == [tab EXCEPT ![t] = Closed]
  <1>1. /\ tab[t].open /\ UNCHANGED <<accepted, past, runs, lost>>
        /\ byHand' = byHand \/ (byHand < MaxByHand /\ byHand' = byHand + 1)
    BY DEF TabRemoved
  <1>2. TypeOK /\ byHand' \in 0..MaxByHand /\ (Clean' => Clean)
    BY <1>1, BoundsAssumption DEF Inv, TypeOK, BoundsAssumption, Clean
  <1>3. CASE /\ RunsIn(t) = {"auto"} /\ FinishRun("auto", "needs_input", gone)
             /\ UNCHANGED packet
    <2>1. run["auto"].n # 0 /\ run["auto"].tab = t
      BY <1>3 DEF RunsIn
    <2>2. ~(run["manual"].n # 0 /\ run["manual"].tab = t)
      BY <1>3 DEF RunsIn, Modes
    <2>3. gone \in [Tabs -> TabRec]
      BY <1>2, ClosedIs DEF TypeOK
    <2> HIDE DEF gone
    <2>4. /\ run' \in [Modes -> RunRec] /\ run'["auto"].n = 0 /\ run'["manual"] = run["manual"]
          /\ server' \in {"ready", "in_progress", "needs_input", "failed", "submitted"}
          /\ server' = "submitted" => server = "submitted"
          /\ server = "in_progress" => server' = "needs_input"
          /\ watches' \subseteq Tabs /\ tab' = gone
      BY <1>2, <1>3, <2>3, FinishIs DEF Modes, Outcomes
    <2>5. \A m \in Modes : IF run[m].n # 0 /\ run[m].tab = t THEN run'[m].n = 0
                           ELSE run'[m] = run[m]
      BY <2>1, <2>2, <2>4 DEF Modes
    <2>6. /\ TabMoves(t) /\ RunsFit(t)' /\ FlowFits(t)'
          /\ tab' \in [Tabs -> TabRec] /\ tab'[t] = Closed /\ Flow(t)' = NoFlow
          /\ SaysUntaken(t)' /\ Quiet(t)' /\ ~Pressing(t)'
      BY <1>1, <2>4, <2>5, CloseFits DEF gone
    <2>7. TypeOK'
      BY <1>1, <1>2, <1>3, <2>4, <2>6 DEF TypeOK
    <2>8. PlaceStays(t)
      BY <1>1, <1>3, <2>1, <2>6, NoFlowIs, ClosedIs
      DEF PlaceStays, Active, Inv, ShapeInv, PlacesInv
    <2>9. accepted = 0 => server' # "submitted"
      BY <2>4 DEF Inv, UntakenInv
    <2>10. OnceInv => Settled(t)
      BY <2>1, <2>4, <2>6 DEF OnceInv, Settled, Modes
    <2> QED
      BY <1>1, <1>2, <1>3, <2>6, <2>7, <2>8, <2>9, <2>10, SettleKeeps DEF Inv, CleanInv
  <1>4. CASE /\ RunsIn(t) # {"auto"}
             /\ run' = [m \in Modes |-> IF m \in RunsIn(t) THEN NoRun ELSE run[m]]
             /\ watches' = watches \ {t} /\ packet' = packet \ {t} /\ tab' = gone
             /\ UNCHANGED server
    <2>1. run' \in [Modes -> RunRec]
      BY <1>2, <1>4, NoRunIs DEF TypeOK
    <2>2. \A m \in Modes : IF run[m].n # 0 /\ run[m].tab = t THEN run'[m].n = 0
                           ELSE run'[m] = run[m]
      BY <1>4, NoRunIs DEF RunsIn
    <2>3. /\ TabMoves(t) /\ RunsFit(t)' /\ FlowFits(t)'
          /\ tab' \in [Tabs -> TabRec] /\ tab'[t] = Closed /\ Flow(t)' = NoFlow
          /\ SaysUntaken(t)' /\ Quiet(t)' /\ ~Pressing(t)'
      BY <1>1, <1>4, <2>1, <2>2, CloseFits
    <2>4. TypeOK'
      BY <1>1, <1>2, <1>4, <2>1, <2>3 DEF TypeOK
    <2>5. PlaceStays(t)
      BY <1>1, <1>4, <2>3, NoFlowIs, ClosedIs DEF PlaceStays, Active
    <2>6. accepted = 0 => server' # "submitted"
      BY <1>4 DEF Inv, UntakenInv
    <2>7. ASSUME OnceInv
          PROVE  OnceHere(t)
      <3>1. "manual" \notin RunsIn(t)
        BY <2>7 DEF OnceInv, RunsIn
      <3>2. "auto" \notin RunsIn(t)
        BY <3>1, <1>4 DEF RunsIn, Modes
      <3>3. run' = run
        BY <1>2, <1>4, <3>1, <3>2 DEF Modes, TypeOK
      <3> QED
        BY <1>1, <2>3, <2>7, <3>2, <3>3 DEF OnceHere, OnceInv, RunsIn, Modes
    <2>8. Clean' => OnceInv'
      BY <1>2, <1>4, <2>3, <2>7, OnceStays DEF Inv, CleanInv
    <2>9. Flow(t).n \in 1..MaxRuns => PastFit(past'[Flow(t).n])
      BY <1>1 DEF Inv, RunLimits, PastFit
    <2> QED
      BY <1>1, <2>3, <2>4, <2>5, <2>6, <2>8, <2>9, MoveKeeps
  <1> QED
    BY <1>3, <1>4 DEF TabRemoved

\* What moves no run and no flow, once the user has a hand in it.
LEMMA StillKeeps ==
    ASSUME Inv, TypeOK', NEW t \in Tabs, NEW T \in TabRec, tab' = [tab EXCEPT ![t] = T],
           SameView(T, tab[t]), T.flow = Flow(t), PlaceStays(t),
           UNCHANGED <<run, accepted, past>>, server' = server \/ server' # "submitted", ~Clean'
    PROVE  Inv'
  <1>1. /\ TabMoves(t) /\ RunsFit(t)' /\ FlowFits(t)'
        /\ tab' \in [Tabs -> TabRec] /\ tab'[t] = T /\ Flow(t)' = Flow(t)
    BY LookFits
  <1>2. accepted = 0 => SaysUntaken(t)' /\ server' # "submitted"
    BY <1>1 DEF Inv, UntakenInv, SaysUntaken, SameView
  <1>3. Flow(t).n \in 1..MaxRuns => PastFit(past'[Flow(t).n])
    BY DEF Inv, RunLimits, PastFit
  <1> QED
    BY <1>1, <1>2, <1>3, MoveKeeps

LEMMA SameTab ==
    ASSUME TypeOK, NEW t \in Tabs
    PROVE  /\ tab[t] \in TabRec /\ tab = [tab EXCEPT ![t] = tab[t]]
           /\ SameView(tab[t], tab[t]) /\ tab[t].flow = Flow(t)
  BY DEF TypeOK, SameView, Flow

LEMMA OpenPacketStep ==
    ASSUME Inv, NEW t \in Tabs, OpenPacket(t)
    PROVE  Inv'
  <1>1. /\ run["auto"].n = 0 /\ RunsIn(t) = {}
        /\ byHand < MaxByHand /\ byHand' = byHand + 1 /\ packet' = {t}
        /\ UNCHANGED <<run, watches, accepted, past, runs, lost>>
        /\ server' \in {"ready", "needs_input"}
    BY DEF OpenPacket
  <1>2. TypeOK
    BY DEF Inv
  <1>3. byHand' \in 0..MaxByHand /\ ~Clean'
    BY <1>1, <1>2, BoundsAssumption DEF TypeOK, BoundsAssumption, Clean
  <1>4. CASE tab[t].open /\ tab' = tab
    <2>1. /\ tab[t] \in TabRec /\ tab' = [tab EXCEPT ![t] = tab[t]]
          /\ SameView(tab[t], tab[t]) /\ tab[t].flow = Flow(t)
      BY <1>2, <1>4, SameTab
    <2>2. TypeOK'
      BY <1>1, <1>2, <1>3, <1>4 DEF TypeOK
    <2>3. PlaceStays(t)
      BY <1>1, <1>4 DEF PlaceStays
    <2> QED
      BY <1>1, <1>3, <2>1, <2>2, <2>3, StillKeeps
  <1>5. CASE tab' = [tab EXCEPT ![t] = [Document(Closed, "form") EXCEPT !.greeted = TRUE]]
    <2> DEFINE D == Document(Closed, "form")
               T == [D EXCEPT !.greeted = TRUE]
    <2>1. D \in TabRec /\ D.open /\ D.page = "form" /\ D.flow = NoFlow
      BY ClosedIs, DocumentIs DEF Pages
    <2>2. tab' = [tab EXCEPT ![t] = T]
      BY <1>5
    <2> HIDE DEF D
    <2>3. T \in TabRec /\ T.open /\ T.page = "form" /\ T.flow = NoFlow
      BY <2>1 DEF TabRec
    <2> HIDE DEF T
    <2>4. /\ tab' \in [Tabs -> TabRec] /\ tab'[t] = T /\ Flow(t)' = NoFlow
          /\ \A u \in Tabs : u # t => tab'[u] = tab[u]
      BY <1>2, <2>2, <2>3, TabIs DEF Flow
    <2>5. TypeOK'
      BY <1>1, <1>2, <1>3, <2>4 DEF TypeOK
    <2>6. TabMoves(t)
      BY <1>1, <2>4, NoFlowIs DEF TabMoves, RunMoves, FlowMoves
    <2>7. PlaceStays(t)
      BY <1>1, <2>3, <2>4 DEF PlaceStays
    <2>8. RunsFit(t)'
      <3>1. \A m \in Modes : ~(run'[m].n # 0 /\ run'[m].tab = t)
        BY <1>1 DEF RunsIn
      <3> QED
        BY <3>1 DEF RunsFit
    <2>9. FlowFits(t)'
      BY <2>4, NoFlowIs DEF FlowFits, Active
    <2>10. SaysUntaken(t)'
      BY <2>3, <2>4, NoFlowIs DEF SaysUntaken
    <2>11. Flow(t).n \in 1..MaxRuns => PastFit(past'[Flow(t).n])
      BY <1>1 DEF Inv, RunLimits, PastFit
    <2> QED
      BY <1>1, <1>3, <2>5, <2>6, <2>7, <2>8, <2>9, <2>10, <2>11, MoveKeeps
  <1> QED
    BY <1>4, <1>5 DEF OpenPacket

LEMMA UserRetriesStep ==
    ASSUME Inv, UserRetries
    PROVE  Inv'
  <1>1. /\ byHand < MaxByHand /\ byHand' = byHand + 1 /\ server' = "ready"
        /\ UNCHANGED <<run, watches, packet, tab, accepted, past, runs, lost>>
    BY DEF UserRetries
  <1>2. PICK t \in Tabs : TRUE
    BY BoundsAssumption DEF BoundsAssumption
  <1>3. TypeOK
    BY DEF Inv
  <1>4. TypeOK' /\ ~Clean'
    BY <1>1, <1>3, BoundsAssumption DEF TypeOK, BoundsAssumption, Clean
  <1>5. /\ tab[t] \in TabRec /\ tab' = [tab EXCEPT ![t] = tab[t]]
        /\ SameView(tab[t], tab[t]) /\ tab[t].flow = Flow(t)
    BY <1>1, <1>3, SameTab
  <1>6. PlaceStays(t)
    BY <1>1 DEF PlaceStays, Inv, ShapeInv, PlacesInv, Active, Flow
  <1> QED
    BY <1>1, <1>4, <1>5, <1>6, StillKeeps

-----------------------------------------------------------------------------
(* A run begins, under a number that no flow has had.                        *)

FinishedInv == \A t \in Tabs : \A n \in tab[t].finished : n <= runs

\* Run m begins as r, in tab t and in no other run's place ...
BeginsRun(m, t, r) ==
    /\ runs < MaxRuns /\ runs' = runs + 1
    /\ \A k \in Modes : k # m => run'[k] = run[k] /\ ~(run[k].n # 0 /\ run[k].tab = t)
    /\ m = "auto" => run["manual"].n = 0
    /\ run'[m] = r /\ r.n = runs + 1 /\ r.tab = t /\ r.phase = "opening"
    /\ r.attempts = 0 /\ r.passes = 0 /\ (r.auto => m = "auto")
    /\ \A n \in 1..MaxRuns : n # r.n => past'[n] = past[n]
    /\ past'[r.n] = [past[r.n] EXCEPT !.auto = r.auto]

\* ... and leaves the tab as T, perhaps with a flow for it.
BeginsIn(m, t, r, T) ==
    /\ T.open /\ (m = "auto" => T.pressed = "no" /\ T.page # "errors")
    /\ \/ T.flow = NoFlow
       \/ /\ T.flow.n = r.n /\ T.flow.mode = m /\ T.flow.pc = "locate"
          /\ T.flow.attempts = 0 /\ T.flow.passes = 0 /\ ~T.flow.auto
          /\ T.flow.corrective = "no" /\ T.flow.outcome = "needs_input"
    /\ packet' \subseteq packet /\ t \notin packet' /\ UNCHANGED accepted
    /\ server' # "submitted" \/ server' = server
    /\ accepted = 0 => T.page # "thanks"

LEMMA BeginKeeps ==
    ASSUME Inv, TypeOK', NEW m \in Modes, NEW t \in Tabs, NEW r \in RunRec, NEW T \in TabRec,
           BeginsRun(m, t, r), BeginsIn(m, t, r, T), tab' = [tab EXCEPT ![t] = T],
           Clean' => OnceInv'
    PROVE  Inv'
  <1> USE DEF BeginsRun, BeginsIn
  <1>1. /\ TypeOK /\ runs \in Nat /\ r.n \in 1..MaxRuns
    BY BoundsAssumption DEF Inv, TypeOK, BoundsAssumption
  <1>2. /\ tab'[t] = T /\ Flow(t)' = T.flow
        /\ \A u \in Tabs : u # t => tab'[u] = tab[u] /\ Flow(u)' = Flow(u)
    BY <1>1, TabIs DEF Flow
  <1>3. /\ \A k \in Modes : run[k].n \in Nat /\ run[k].n <= runs
        /\ \A u \in Tabs : Flow(u).n \in Nat /\ Flow(u).n <= runs
    BY <1>1, RunTypes, TabTypes DEF Inv, ShapeInv, NumbersInv
  <1>4. ASSUME NEW n \in Nat, n # 0, n <= runs
         PROVE  n # r.n /\ past'[n] = past[n]
    <2>1. n \in 1..MaxRuns /\ n # r.n
      BY <1>1, <1>4, BoundsAssumption DEF BoundsAssumption
    <2> QED
      BY <2>1
  <1> DEFINE p == past'[r.n]
  <1>5. p.presses = 0 /\ p.fixes = 0 /\ p.hops = 0 /\ (r.auto => p.auto)
    <2>1. past[r.n].presses = 0 /\ past[r.n].fixes = 0 /\ past[r.n].hops = 0
      BY <1>1 DEF Inv, ShapeInv, NumbersInv
    <2>2. past[r.n] \in PastRec /\ r.auto \in BOOLEAN
      BY <1>1 DEF TypeOK, RunRec
    <2> QED
      BY <2>1, <2>2 DEF PastRec
  <1>6. NumbersInv'
    <2>1. \A k \in Modes : run'[k].n <= runs + 1
      BY <1>1, <1>3
    <2>2. \A u \in Tabs : Flow(u)'.n <= runs + 1
      BY <1>1, <1>2, <1>3, NoFlowIs
    <2>3. \A n \in 1..MaxRuns : n > runs + 1 =>
             past'[n].presses = 0 /\ past'[n].fixes = 0 /\ past'[n].hops = 0
      BY <1>1 DEF Inv, ShapeInv, NumbersInv
    <2> QED
      BY <2>1, <2>2, <2>3 DEF NumbersInv
  <1>7. PlacesInv'
    <2>1. \A u \in packet' : tab'[u].open
      BY <1>1, <1>2 DEF Inv, ShapeInv, PlacesInv, TypeOK
    <2>2. \A u \in Tabs : ~tab'[u].open => Flow(u)'.n = 0 /\ tab'[u].pressed = "no"
      BY <1>2 DEF Inv, ShapeInv, PlacesInv, Active
    <2>3. run'["auto"].n # 0 =>
             /\ run'["auto"].tab \notin packet'
             /\ run'["manual"].n # 0 => run'["manual"].tab # run'["auto"].tab
             /\ run'["manual"].n # run'["auto"].n
      BY <1>1, <1>3 DEF Inv, ShapeInv, PlacesInv, Modes
    <2> QED
      BY <2>1, <2>2, <2>3 DEF PlacesInv, Active
  <1>8. FlowsInv'
    <2>1. ASSUME NEW u \in Tabs, NEW k \in Modes, Flow(u)'.n # 0, run'[k].n # 0
          PROVE  /\ run'[k].tab = u <=> Flow(u)'.n = run'[k].n
                 /\ run'[k].tab = u => Flow(u)'.mode = k
      <3>1. CASE u = t
        BY <2>1, <3>1, <1>1, <1>2, <1>3, NoFlowIs
      <3>2. CASE u # t /\ k = m
        BY <2>1, <3>2, <1>1, <1>2, <1>3
      <3>3. CASE u # t /\ k # m
        BY <2>1, <3>3, <1>2 DEF Inv, ShapeInv, FlowsInv, Active
      <3> QED
        BY <3>1, <3>2, <3>3
    <2>2. ASSUME NEW u \in Tabs, NEW v \in Tabs, Flow(u)'.n # 0, Flow(u)'.n = Flow(v)'.n
          PROVE  u = v
      BY <2>2, <1>1, <1>2, <1>3, NoFlowIs DEF Inv, ShapeInv, FlowsInv, Active
    <2> QED
      BY <2>1, <2>2 DEF FlowsInv, Active
  <1>9. ASSUME NEW u \in Tabs, u # t
        PROVE  RunsFit(u)' /\ FlowFits(u)'
    <2>1. /\ tab'[u] = tab[u] /\ Flow(u)' = Flow(u) /\ RunsFit(u) /\ FlowFits(u)
      BY <1>2, <1>9 DEF Inv, FitInv
    <2>2. ASSUME NEW k \in Modes, run'[k].n # 0, run'[k].tab = u
          PROVE  RunFit(k, run'[k], tab'[u], past'[run'[k].n])
      <3>1. k # m /\ run'[k] = run[k]
        BY <1>9, <2>2
      <3>2. past'[run[k].n] = past[run[k].n]
        BY <3>1, <1>3, <1>4, <2>2
      <3> QED
        BY <2>1, <2>2, <3>1, <3>2 DEF RunsFit
    <2>3. RunsFit(u)'
      BY <2>2 DEF RunsFit, RunFit, Early, Late
    <2>4. ASSUME Flow(u).n # 0
          PROVE  FlowFits(u)'
      <3>1. past'[Flow(u).n] = past[Flow(u).n]
        BY <1>3, <1>4, <2>4
      <3>2. Managed(Flow(u))' => run'[Flow(u).mode] = run[Flow(u).mode]
        BY <1>1, <1>3, <2>1, <2>4, TabTypes DEF Managed
      <3>3. LooseFit(Flow(u)', tab'[u], past'[Flow(u)'.n])
        BY <2>1, <2>4, <3>1 DEF FlowFits, Active
      <3>4. Managed(Flow(u))' => TiedFit(Flow(u)', tab'[u], RunOf(u)', past'[Flow(u)'.n])
        BY <2>1, <2>4, <3>1, <3>2 DEF FlowFits, Active, Managed, RunOf
      <3> QED
        BY <3>3, <3>4 DEF FlowFits, LooseFit, TiedFit, EarlyPCs, LatePCs, Early, Late
    <2> QED
      BY <2>1, <2>3, <2>4 DEF FlowFits, Active
  <1>10. RunFit(m, r, T, p)
    <2> HIDE DEF p
    <2>1. r.hops \in Nat
      BY BoundsAssumption DEF RunRec, BoundsAssumption
    <2> QED
      BY <1>5, <2>1 DEF RunFit, Early, Late
  <1>11. RunsFit(t)'
    <2>1. \A k \in Modes :
             run'[k].n # 0 /\ run'[k].tab = t => RunFit(k, run'[k], tab'[t], past'[run'[k].n])
      BY <1>2, <1>10
    <2> QED
      BY <2>1 DEF RunsFit, RunFit, Early, Late
  <1>12. FlowFits(t)'
    <2>1. CASE T.flow = NoFlow
      BY <1>2, <2>1, NoFlowIs DEF FlowFits, Active
    <2>2. CASE T.flow # NoFlow
      <3> DEFINE f == T.flow
      <3>1. /\ f.n = r.n /\ f.mode = m /\ f.pc = "locate" /\ f.attempts = 0 /\ f.passes = 0
            /\ ~f.auto /\ f.corrective = "no" /\ Flow(t)' = f
        BY <1>2, <2>2
      <3> HIDE DEF f, p
      <3>2. LooseFit(f, T, p)
        BY <3>1 DEF LooseFit
      <3>3. TiedFit(f, T, r, p)
        BY <3>1 DEF TiedFit, EarlyPCs, LatePCs, Early
      <3>4. RunOf(t)' = r
        BY <3>1 DEF RunOf
      <3>5. /\ LooseFit(Flow(t)', tab'[t], past'[Flow(t)'.n])
            /\ TiedFit(Flow(t)', tab'[t], RunOf(t)', past'[Flow(t)'.n])
        BY <1>2, <3>1, <3>2, <3>3, <3>4 DEF p
      <3> QED
        BY <3>5 DEF FlowFits, LooseFit, TiedFit, EarlyPCs, LatePCs, Early, Late
    <2> QED
      BY <2>1, <2>2
  <1>13. FitInv'
    BY <1>9, <1>11, <1>12 DEF FitInv
  <1>14. RunLimits'
    <2>1. \A n \in 1..MaxRuns : PastFit(past[n])
      BY DEF Inv, RunLimits, PastFit
    <2>2. PastFit(p)
      <3> HIDE DEF p
      <3> QED
        BY <1>5, BoundsAssumption DEF PastFit, BoundsAssumption
    <2>3. \A n \in 1..MaxRuns : PastFit(past'[n])
      BY <2>1, <2>2
    <2> QED
      BY <2>3 DEF RunLimits, PastFit
  <1>15. UntakenInv'
    <2>1. accepted = 0 => T.flow.outcome # "submitted"
      BY NoFlowIs
    <2> QED
      BY <1>2, <2>1 DEF Inv, UntakenInv, SaysUntaken
  <1> QED
    BY <1>6, <1>7, <1>8, <1>13, <1>14, <1>15 DEF Inv, ShapeInv, CleanInv

FreshRun(n, t, auto) == [NoRun EXCEPT !.n = n, !.tab = t, !.auto = auto]

LEMMA FreshRunIs ==
    ASSUME NEW n \in 0..MaxRuns, NEW t \in Tabs, NEW auto \in BOOLEAN, NEW r,
           r = FreshRun(n, t, auto)
    PROVE  /\ r \in RunRec /\ r.n = n /\ r.tab = t /\ r.phase = "opening"
           /\ r.attempts = 0 /\ r.passes = 0 /\ r.auto = auto
  BY NoRunIs DEF FreshRun, NoRun, RunRec

LEMMA NewRunIs ==
    ASSUME TypeOK, NEW m \in Modes, NEW t \in Tabs, NEW auto \in BOOLEAN, NewRun(m, t, auto)
    PROVE  /\ runs < MaxRuns /\ runs' = runs + 1 /\ runs' \in 0..MaxRuns
           /\ run' \in [Modes -> RunRec] /\ \A k \in Modes : k # m => run'[k] = run[k]
           /\ run'[m].n = runs + 1 /\ run'[m].tab = t /\ run'[m].phase = "opening"
           /\ run'[m].attempts = 0 /\ run'[m].passes = 0 /\ run'[m].auto = auto
           /\ past' \in [1..MaxRuns -> PastRec]
           /\ \A n \in 1..MaxRuns : n # runs + 1 => past'[n] = past[n]
           /\ past'[runs + 1] = [past[runs + 1] EXCEPT !.auto = auto]
           /\ past'[runs + 1].unsaved = past[runs + 1].unsaved
  <1> DEFINE r == [NoRun EXCEPT !.n = runs + 1, !.tab = t, !.auto = auto]
             p == [past[runs + 1] EXCEPT !.auto = auto]
  <1>1. runs < MaxRuns /\ runs' = runs + 1 /\ runs + 1 \in 1..MaxRuns
    BY BoundsAssumption DEF NewRun, TypeOK, BoundsAssumption
  <1>2. /\ r \in RunRec /\ r.n = runs + 1 /\ r.tab = t /\ r.phase = "opening"
        /\ r.attempts = 0 /\ r.passes = 0 /\ r.auto = auto
    <2>1. PICK n \in 0..MaxRuns : n = runs + 1
      BY <1>1
    <2>2. r = FreshRun(n, t, auto)
      BY <2>1 DEF FreshRun
    <2> HIDE DEF r
    <2> QED
      BY <2>1, <2>2, FreshRunIs
  <1>3. p \in PastRec /\ p.unsaved = past[runs + 1].unsaved
    BY <1>1 DEF TypeOK, PastRec
  <1>4. run' = [run EXCEPT ![m] = r] /\ past' = [past EXCEPT ![runs + 1] = p]
    BY DEF NewRun
  <1> HIDE DEF r
  <1>5. p = [past[runs + 1] EXCEPT !.auto = auto]
    OBVIOUS
  <1> HIDE DEF p
  <1>6. /\ run' \in [Modes -> RunRec] /\ run'[m] = r /\ \A k \in Modes : k # m => run'[k] = run[k]
    BY <1>2, <1>4 DEF TypeOK
  <1>7. /\ past' \in [1..MaxRuns -> PastRec] /\ past'[runs + 1] = p
        /\ \A n \in 1..MaxRuns : n # runs + 1 => past'[n] = past[n]
    BY <1>1, <1>3, <1>4 DEF TypeOK
  <1>8. runs' \in 0..MaxRuns
    BY <1>1
  <1> QED
    BY <1>1, <1>2, <1>3, <1>5, <1>6, <1>7, <1>8

LEMMA BeginApplicationStep ==
    ASSUME Inv, NEW t \in Tabs, BeginApplication(t)
    PROVE  Inv'
  <1>1. /\ server = "ready" /\ run["auto"].n = 0 /\ run["manual"].n = 0 /\ ~tab[t].open
        /\ server' = "in_progress" /\ UNCHANGED <<watches, packet, accepted, lost, byHand>>
        /\ TypeOK /\ "auto" \in Modes
    BY DEF BeginApplication, Inv, Modes
  <1>2. PICK auto \in BOOLEAN : NewRun("auto", t, auto)
    BY DEF BeginApplication
  <1>3. PICK page \in Landing : tab' = [tab EXCEPT ![t] = Document(Closed, page)]
    BY DEF BeginApplication
  <1>4. PICK T : T = Document(Closed, page)
    OBVIOUS
  <1>5. /\ T \in TabRec /\ T.open /\ T.page = page /\ T.pressed = "no" /\ T.flow = NoFlow
        /\ page # "thanks" /\ page # "errors"
    BY <1>4, ClosedIs, DocumentIs DEF Landing, Pages
  <1>6. /\ tab' \in [Tabs -> TabRec] /\ tab'[t] = T /\ Flow(t)' = NoFlow
        /\ \A u \in Tabs : u # t => tab'[u] = tab[u]
    BY <1>1, <1>3, <1>4, <1>5, TabIs DEF Flow
  <1>7. /\ runs < MaxRuns /\ runs' = runs + 1 /\ runs' \in 0..MaxRuns
        /\ run' \in [Modes -> RunRec] /\ \A k \in Modes : k # "auto" => run'[k] = run[k]
        /\ run'["auto"].n = runs + 1 /\ run'["auto"].tab = t /\ run'["auto"].phase = "opening"
        /\ run'["auto"].attempts = 0 /\ run'["auto"].passes = 0 /\ run'["auto"].auto = auto
        /\ past' \in [1..MaxRuns -> PastRec]
        /\ \A n \in 1..MaxRuns : n # runs + 1 => past'[n] = past[n]
        /\ past'[runs + 1] = [past[runs + 1] EXCEPT !.auto = auto]
        /\ past'[runs + 1].unsaved = past[runs + 1].unsaved
    BY <1>1, <1>2, NewRunIs
  <1>8. PICK r \in RunRec : r = run'["auto"]
    BY <1>1, <1>7
  <1>9. TypeOK'
    BY <1>1, <1>6, <1>7 DEF TypeOK
  <1>10. \A k \in Modes : k # "auto" => ~(run[k].n # 0 /\ run[k].tab = t)
    BY <1>1 DEF Modes
  <1>11. t \notin packet'
    BY <1>1 DEF Inv, ShapeInv, PlacesInv
  <1>12. Clean' => Clean
    BY <1>1, <1>7 DEF Clean
  <1>13. ASSUME OnceInv
         PROVE  OnceInv'
    <2>1. /\ accepted = 0 /\ watches = {} /\ packet = {} /\ \A u \in Tabs : Quiet(u)
      BY <1>1, <1>13 DEF OnceInv
    <2>2. \A u \in Tabs : Quiet(u)'
      BY <1>5, <1>6, <2>1, NoFlowIs DEF Quiet, Active, Flow
    <2>3. \A u \in Tabs : ~Pressing(u)'
      BY <2>2 DEF Quiet, Pressing
    <2>4. run'["manual"].n = 0 /\ run'["auto"].n # 0
      BY <1>1, <1>7 DEF Modes, TypeOK
    <2>5. OpenRun'
      BY <1>1, <2>1, <2>2, <2>4 DEF OpenRun
    <2> QED
      BY <1>1, <2>1, <2>2, <2>3, <2>4, <2>5 DEF OnceInv
  <1>14. /\ r.n = runs + 1 /\ r.tab = t /\ r.phase = "opening" /\ r.attempts = 0 /\ r.passes = 0
         /\ run'["auto"] = r /\ past'[r.n] = [past[r.n] EXCEPT !.auto = r.auto]
         /\ \A n \in 1..MaxRuns : n # r.n => past'[n] = past[n]
    BY <1>7, <1>8
  <1>15. \A k \in Modes : k # "auto" => run'[k] = run[k] /\ ~(run[k].n # 0 /\ run[k].tab = t)
    BY <1>7, <1>10
  <1>16. Clean' => OnceInv'
    BY <1>12, <1>13 DEF Inv, CleanInv
  <1>17. BeginsRun("auto", t, r)
    BY <1>1, <1>7, <1>14, <1>15 DEF BeginsRun
  <1>18. BeginsIn("auto", t, r, T)
    BY <1>1, <1>5, <1>11 DEF BeginsIn
  <1>19. tab' = [tab EXCEPT ![t] = T]
    BY <1>3, <1>4
  <1> QED
    BY <1>1, <1>5, <1>9, <1>16, <1>17, <1>18, <1>19, BeginKeeps

ManualJob(n) == [NoFlow EXCEPT !.n = n, !.mode = "manual", !.outcome = "needs_input"]

LEMMA ManualJobIs ==
    ASSUME NEW n \in 0..MaxRuns, NEW job, job = ManualJob(n)
    PROVE  /\ job \in FlowRec /\ job.n = n /\ job.mode = "manual" /\ job.pc = "locate"
           /\ job.attempts = 0 /\ job.passes = 0 /\ ~job.auto /\ job.corrective = "no"
           /\ job.outcome = "needs_input"
  BY NoFlowIs DEF ManualJob, NoFlow, FlowRec, Modes, Outcomes

LEMMA StartManualFillStep ==
    ASSUME Inv, FinishedInv, NEW t \in Tabs, StartManualFill(t)
    PROVE  Inv'
  <1>1. /\ t \in packet /\ packet' = {} /\ watches' = watches \ {t}
        /\ UNCHANGED <<server, accepted, lost, byHand>>
        /\ TypeOK /\ "manual" \in Modes
    BY DEF StartManualFill, Inv, Modes
  <1>2. /\ tab[t].open /\ ~(run["auto"].n # 0 /\ run["auto"].tab = t) /\ tab[t] \in TabRec
    BY <1>1, Here DEF Inv, ShapeInv, PlacesInv
  <1>3. ASSUME \A n \in 1..MaxRuns : past'[n].unsaved = past[n].unsaved
        PROVE  ~Clean'
    BY <1>1, <1>3 DEF Clean, Inv, CleanInv, OnceInv
  <1>4. CASE UNCHANGED <<run, past, runs, tab>>
    <2>1. /\ tab[t] \in TabRec /\ tab' = [tab EXCEPT ![t] = tab[t]]
          /\ SameView(tab[t], tab[t]) /\ tab[t].flow = Flow(t)
      BY <1>1, <1>4, SameTab
    <2>2. TypeOK' /\ PlaceStays(t)
      BY <1>1, <1>2, <1>4 DEF TypeOK, PlaceStays
    <2> QED
      BY <1>1, <1>3, <1>4, <2>1, <2>2, StillKeeps
  <1>5. CASE /\ NewRun("manual", t, FALSE)
             /\ tab' = [tab EXCEPT ![t] =
                          StartFlow(@, [NoFlow EXCEPT !.n = runs + 1, !.mode = "manual",
                                                      !.outcome = "needs_input"])]
    <2>1. /\ runs < MaxRuns /\ runs' = runs + 1 /\ runs' \in 0..MaxRuns
          /\ run' \in [Modes -> RunRec] /\ \A k \in Modes : k # "manual" => run'[k] = run[k]
          /\ run'["manual"].n = runs + 1 /\ run'["manual"].tab = t
          /\ run'["manual"].phase = "opening"
          /\ run'["manual"].attempts = 0 /\ run'["manual"].passes = 0
          /\ run'["manual"].auto = FALSE
          /\ past' \in [1..MaxRuns -> PastRec]
          /\ \A n \in 1..MaxRuns : n # runs + 1 => past'[n] = past[n]
          /\ past'[runs + 1] = [past[runs + 1] EXCEPT !.auto = FALSE]
          /\ past'[runs + 1].unsaved = past[runs + 1].unsaved
      BY <1>1, <1>5, NewRunIs
    <2>2. PICK r \in RunRec : r = run'["manual"]
      BY <1>1, <2>1
    <2> DEFINE job == [NoFlow EXCEPT !.n = runs + 1, !.mode = "manual", !.outcome = "needs_input"]
               T == StartFlow(tab[t], job)
    <2>3. /\ job \in FlowRec /\ job.n = runs + 1 /\ job.mode = "manual" /\ job.pc = "locate"
          /\ job.attempts = 0 /\ job.passes = 0 /\ ~job.auto /\ job.corrective = "no"
          /\ job.outcome = "needs_input"
      <3>1. PICK n \in 0..MaxRuns : n = runs + 1
        BY <2>1
      <3>2. job = ManualJob(n)
        BY <3>1 DEF ManualJob
      <3> HIDE DEF job
      <3> QED
        BY <3>1, <3>2, ManualJobIs
    <2>4. tab' = [tab EXCEPT ![t] = T]
      BY <1>5
    <2> HIDE DEF job
    <2>5. job.n \notin tab[t].finished /\ tab[t].flow.n # job.n
      BY <1>1, <2>3 DEF FinishedInv, Inv, ShapeInv, NumbersInv, Flow, TypeOK
    <2>6. T \in TabRec /\ SameView(T, tab[t]) /\ T.flow = job
      BY <1>2, <2>3, <2>5, StartFlowIs
    <2> HIDE DEF T
    <2>7. tab' \in [Tabs -> TabRec]
      BY <1>1, <2>4, <2>6, TabIs
    <2>8. TypeOK'
      BY <1>1, <2>1, <2>7 DEF TypeOK
    <2>9. ~Clean'
      BY <1>3, <2>1
    <2>10. \A k \in Modes : k # "manual" => run'[k] = run[k] /\ ~(run[k].n # 0 /\ run[k].tab = t)
      BY <1>2, <2>1 DEF Modes
    <2>11. /\ r.n = runs + 1 /\ r.tab = t /\ r.phase = "opening" /\ r.attempts = 0
           /\ r.passes = 0 /\ ~r.auto /\ run'["manual"] = r
           /\ past'[r.n] = [past[r.n] EXCEPT !.auto = r.auto]
           /\ \A n \in 1..MaxRuns : n # r.n => past'[n] = past[n]
      BY <2>1, <2>2
    <2>12. T.open /\ (accepted = 0 => T.page # "thanks")
      BY <1>2, <2>6 DEF SameView, Inv, UntakenInv, SaysUntaken
    <2>13. BeginsRun("manual", t, r)
      BY <2>1, <2>10, <2>11 DEF BeginsRun
    <2>14. /\ T.flow.n = r.n /\ T.flow.mode = "manual" /\ T.flow.pc = "locate"
           /\ T.flow.attempts = 0 /\ T.flow.passes = 0 /\ ~T.flow.auto
           /\ T.flow.corrective = "no" /\ T.flow.outcome = "needs_input"
      BY <2>3, <2>6, <2>11
    <2>15. BeginsIn("manual", t, r, T)
      BY <1>1, <2>12, <2>14 DEF BeginsIn
    <2> QED
      BY <1>1, <2>4, <2>6, <2>8, <2>9, <2>13, <2>15, BeginKeeps
  <1> QED
    BY <1>4, <1>5 DEF StartManualFill

-----------------------------------------------------------------------------
(* What a document holds to be finished has a number that was given.         *)

Grows ==
    /\ runs' = runs \/ runs' = runs + 1
    /\ \A u \in Tabs : tab'[u].finished \subseteq tab[u].finished \cup {Flow(u).n}

LEMMA GrowsIs ==
    ASSUME TypeOK, NEW t \in Tabs, NEW T, tab' = [tab EXCEPT ![t] = T],
           T.finished \subseteq tab[t].finished \cup {Flow(t).n},
           runs' = runs \/ runs' = runs + 1
    PROVE  Grows
  BY DEF TypeOK, Grows

LEMMA ContinueGrows ==
    ASSUME TypeOK, NEW t \in Tabs, NEW f, Continue(t, f), runs' = runs
    PROVE  Grows
  <1> DEFINE T == [tab[t] EXCEPT !.flow = f]
  <1>1. T.finished = tab[t].finished
    BY TabTypes DEF TabRec
  <1>2. tab' = [tab EXCEPT ![t] = T]
    BY DEF Continue
  <1> HIDE DEF T
  <1> QED
    BY <1>1, <1>2, GrowsIs

LEMMA StillGrows ==
    ASSUME tab' = tab, runs' = runs
    PROVE  Grows
  BY DEF Grows

LEMMA LocallyGrows ==
    ASSUME TypeOK, NEW t \in Tabs, NEW fs, Locally(t, fs)
    PROVE  Grows
  <1>1. PICK f \in fs : Continue(t, f)
    BY DEF Locally
  <1>2. runs' = runs
    BY DEF Locally, bounds
  <1> QED
    BY <1>1, <1>2, ContinueGrows

LEMMA ProgressGrows ==
    ASSUME TypeOK, NEW t \in Tabs, NEW r, NEW f, Progress(t, r, f)
    PROVE  Grows
  <1>1. runs' = runs /\ \E g \in {f, NoFlow} : Continue(t, g)
    BY DEF Progress
  <1> QED
    BY <1>1, ContinueGrows

LEMMA DocumentGrows ==
    ASSUME TypeOK, NEW t \in Tabs, NEW r, NEW page, tab' = [tab EXCEPT ![t] = Document(r, page)],
           runs' = runs \/ runs' = runs + 1
    PROVE  Grows
  <1>1. Document(r, page).finished = {}
    BY DEF Document, Closed
  <1>2. PICK T : T = Document(r, page)
    OBVIOUS
  <1> QED
    BY <1>1, <1>2, GrowsIs

LEMMA StartFlowGrows ==
    ASSUME TypeOK, NEW t \in Tabs, NEW T \in TabRec, T.finished = tab[t].finished, NEW job,
           tab' = [tab EXCEPT ![t] = StartFlow(T, job)], runs' = runs \/ runs' = runs + 1
    PROVE  Grows
  <1>1. StartFlow(T, job).finished = T.finished
    BY DEF StartFlow, TabRec
  <1>2. PICK U : U = StartFlow(T, job)
    OBVIOUS
  <1> QED
    BY <1>1, <1>2, GrowsIs

LEMMA FinishGrows ==
    ASSUME TypeOK, NEW m \in Modes, NEW status, NEW tabs \in [Tabs -> TabRec],
           FinishRun(m, status, tabs), runs' = runs,
           \A u \in Tabs : tabs[u].finished \subseteq tab[u].finished \cup {Flow(u).n}
    PROVE  Grows
  <1>1. PICK v \in Tabs : v = run[m].tab
    BY RunTypes
  <1> DEFINE T == [tabs[v] EXCEPT !.closing = tabs[v].open]
  <1>2. T.finished = tabs[v].finished
    BY <1>1 DEF TabRec
  <1>3. tab' = tabs \/ tab' = [tabs EXCEPT ![v] = T]
    BY <1>1 DEF FinishRun
  <1> HIDE DEF T
  <1>4. \A u \in Tabs : tab'[u].finished = tabs[u].finished
    BY <1>2, <1>3
  <1> QED
    BY <1>4 DEF Grows

LEMMA AbortedGrows ==
    ASSUME Inv, NEW m \in Modes, NEW tabs \in MaybeAborted(m), NEW status,
           FinishRun(m, status, tabs), runs' = runs
    PROVE  Grows
  <1>1. PICK v \in Tabs : v = run[m].tab
    BY RunTypes DEF Inv
  <1>2. TypeOK /\ tabs \in [Tabs -> TabRec] /\ \A u \in Tabs : u # v => tabs[u] = tab[u]
    BY <1>1, AbortedIs DEF Inv
  <1>3. tabs[v].finished = tab[v].finished
    BY <1>1, <1>2 DEF MaybeAborted, TypeOK, TabRec
  <1>4. \A u \in Tabs : tabs[u].finished = tab[u].finished
    BY <1>2, <1>3
  <1> QED
    BY <1>2, <1>4, FinishGrows

LEMMA ReportGrows ==
    ASSUME Inv, NEW t \in Tabs, Report(t)
    PROVE  Grows
  <1>1. TypeOK /\ Active(t) /\ runs' = runs /\ tab[t] \in TabRec /\ Flow(t).mode \in Modes
    BY TabTypes DEF Inv, Report, At
  <1>2. ASSUME NEW answered \in BOOLEAN
        PROVE  /\ Reported(t, answered) \in [Tabs -> TabRec]
               /\ \A u \in Tabs : Reported(t, answered)[u].finished
                                     \subseteq tab[u].finished \cup {Flow(u).n}
    <2> DEFINE D == tab[t].finished \cup {Flow(t).n}
               U == [tab[t] EXCEPT !.flow = NoFlow, !.finished = D]
               T == IF WatchedAfter(t, answered) THEN StartWatch(U, FALSE) ELSE U
    <2>1. U.finished = D /\ StartWatch(U, FALSE).finished = D
      BY <1>1 DEF TabRec, StartWatch
    <2>2. Reported(t, answered) = [tab EXCEPT ![t] = T]
      BY DEF Reported
    <2>3. T.finished = D
      BY <2>1
    <2>4. PICK V \in TabRec : Reported(t, answered) = [tab EXCEPT ![t] = V]
      BY <1>1, ReportedIs
    <2> HIDE DEF T
    <2> QED
      BY <1>1, <2>2, <2>3, <2>4 DEF TypeOK, D
  <1>3. CASE \E answered \in BOOLEAN :
                FinishRun(Flow(t).mode, Flow(t).outcome, Reported(t, answered))
    BY <1>1, <1>2, <1>3, FinishGrows
  <1>4. CASE tab' = Reported(t, FALSE)
    BY <1>1, <1>2, <1>4 DEF Grows
  <1> QED
    BY <1>3, <1>4 DEF Report

LEMMA TabRemovedGrows ==
    ASSUME Inv, NEW t \in Tabs, TabRemoved(t)
    PROVE  Grows
  <1> DEFINE gone == [tab EXCEPT ![t] = Closed]
  <1>1. TypeOK /\ runs' = runs /\ "auto" \in Modes
    BY DEF Inv, TabRemoved, Modes
  <1>2. /\ gone \in [Tabs -> TabRec]
        /\ \A u \in Tabs : gone[u].finished \subseteq tab[u].finished \cup {Flow(u).n}
    BY <1>1, ClosedIs DEF TypeOK, Closed
  <1>3. FinishRun("auto", "needs_input", gone) \/ tab' = gone
    BY DEF TabRemoved
  <1> HIDE DEF gone
  <1> QED
    BY <1>1, <1>2, <1>3, FinishGrows DEF Grows

LEMMA HelloGrows ==
    ASSUME Inv, NEW t \in Tabs, Hello(t)
    PROVE  Grows
  <1> DEFINE r == [tab[t] EXCEPT !.greeted = TRUE]
             job == Job(CHOOSE m \in RunsIn(t) : TRUE, r.page)
             W == StartWatch(r, TRUE)
  <1>1. /\ TypeOK /\ runs' = runs /\ tab[t] \in TabRec
        /\ tab' \in {[tab EXCEPT ![t] = StartFlow(r, job)], [tab EXCEPT ![t] = W],
                     [tab EXCEPT ![t] = r]}
    BY TabTypes DEF Inv, Hello, bounds
  <1>2. r \in TabRec /\ r.finished = tab[t].finished
    BY <1>1 DEF TabRec
  <1> HIDE DEF r, job
  <1>3. W.finished = r.finished
    BY <1>2 DEF StartWatch, TabRec
  <1> HIDE DEF W
  <1> QED
    BY <1>1, <1>2, <1>3, StartFlowGrows, GrowsIs

LEMMA SiteAnswersGrows ==
    ASSUME Inv, NEW t \in Tabs, SiteAnswers(t)
    PROVE  Grows
  <1>1. PICK page \in Pages :
           LET r == [tab[t] EXCEPT !.pressed = "no", !.page = page, !.back = (page = "errors")] IN
           tab' \in {[tab EXCEPT ![t] = r], [tab EXCEPT ![t] = Document(r, page)]}
    BY DEF SiteAnswers, Taken, Pages
  <1> DEFINE r == [tab[t] EXCEPT !.pressed = "no", !.page = page, !.back = (page = "errors")]
  <1>2. TypeOK /\ tab[t] \in TabRec /\ runs' = runs
    BY TabTypes DEF Inv, SiteAnswers, bounds
  <1>3. r.finished = tab[t].finished
    BY <1>2 DEF TabRec
  <1>4. tab' = [tab EXCEPT ![t] = r] \/ tab' = [tab EXCEPT ![t] = Document(r, page)]
    BY <1>1
  <1> HIDE DEF r
  <1>5. CASE tab' = [tab EXCEPT ![t] = r]
    BY <1>2, <1>3, <1>5, GrowsIs
  <1>6. CASE tab' = [tab EXCEPT ![t] = Document(r, page)]
    BY <1>2, <1>6, DocumentGrows
  <1> QED
    BY <1>4, <1>5, <1>6

LEMMA ReloadGrows ==
    ASSUME Inv, NEW t \in Tabs, Reload(t)
    PROVE  Grows
  <1> DEFINE page == IF tab[t].page = "errors" THEN "form" ELSE tab[t].page
             T == [Document(tab[t], page) EXCEPT !.pressed = tab[t].pressed]
  <1>1. TypeOK /\ runs' = runs /\ tab' = [tab EXCEPT ![t] = T]
    BY DEF Inv, Reload
  <1>2. T.finished = {}
    BY DEF Document, Closed
  <1> HIDE DEF T
  <1> QED
    BY <1>1, <1>2, GrowsIs

LEMMA FlowGrows ==
    ASSUME Inv, NEW t \in Tabs, FlowStep(t)
    PROVE  Grows
  <1>1. TypeOK /\ tab[t] \in TabRec
    BY TabTypes DEF Inv
  <1>2. CASE Aborts(t) \/ FillStep(t)
    <2>1. runs' = runs /\ \E f : Continue(t, f)
      BY <1>2 DEF Aborts, FillStep, bounds
    <2> QED
      BY <1>1, <2>1, ContinueGrows
  <1>3. CASE Locate(t) \/ ReadStep(t) \/ Next_(t) \/ StorePress(t) \/ CorrectAndResubmit(t)
             \/ VerifyStage(t)
    <2>1. \E r, f : Progress(t, r, f)
      BY <1>3 DEF Locate, ReadStep, Next_, StorePress, CorrectAndResubmit, VerifyStage
    <2> QED
      BY <1>1, <2>1, ProgressGrows
  <1>4. CASE FindForm(t) \/ AskServer(t) \/ StepMoved(t) \/ SubmitStage(t) \/ WatchOutcome(t)
             \/ AfterSubmitNavigation(t) \/ WatchCode(t)
    <2>1. \E fs : Locally(t, fs)
      BY <1>4 DEF FindForm, AskServer, StepMoved, SubmitStage, WatchOutcome,
                  AfterSubmitNavigation, WatchCode
    <2> QED
      BY <1>1, <2>1, LocallyGrows
  <1>5. CASE StepStuck(t)
    <2>1. (\E r, f : Progress(t, r, f)) \/ \E fs : Locally(t, fs)
      BY <1>5 DEF StepStuck
    <2> QED
      BY <1>1, <2>1, ProgressGrows, LocallyGrows
  <1>6. CASE Hop(t)
    <2>1. runs' = runs /\ (tab' = tab \/ \E f : Continue(t, f))
      BY <1>6 DEF Hop
    <2> QED
      BY <1>1, <2>1, ContinueGrows, StillGrows
  <1>7. CASE Goto(t)
    <2>1. runs' = runs /\ \E page : tab' = [tab EXCEPT ![t] = Document(tab[t], page)]
      BY <1>7 DEF Goto, bounds
    <2> QED
      BY <1>1, <2>1, DocumentGrows
  <1>8. CASE ClickNext(t)
    <2>1. /\ runs' = runs
          /\ \/ \E f : Continue(t, f)
             \/ tab' = [tab EXCEPT ![t] = Document(tab[t], "form")]
      BY <1>8 DEF ClickNext, bounds
    <2> QED
      BY <1>1, <2>1, ContinueGrows, DocumentGrows
  <1>9. CASE PressSubmit(t)
    <2> DEFINE page == IF tab[t].page = "errors" THEN "form" ELSE tab[t].page
               T == [tab[t] EXCEPT !.flow.pc = "watch", !.pressed = "flow", !.back = FALSE,
                                   !.page = page]
    <2>1. T.finished = tab[t].finished
      BY <1>1 DEF TabRec
    <2>2. runs' = runs /\ tab' = [tab EXCEPT ![t] = T]
      BY <1>1, <1>9 DEF PressSubmit, TypeOK, bounds
    <2> HIDE DEF T
    <2> QED
      BY <1>1, <2>1, <2>2, GrowsIs
  <1>10. CASE PollCodes(t)
    <2> DEFINE T == [tab[t] EXCEPT !.flow.pc = "codeWatch", !.pressed = "code"]
    <2>1. T.finished = tab[t].finished
      BY <1>1 DEF TabRec
    <2>2. runs' = runs /\ (tab' = [tab EXCEPT ![t] = T] \/ \E f : Continue(t, f))
      BY <1>1, <1>10 DEF PollCodes, TypeOK, bounds
    <2> HIDE DEF T
    <2> QED
      BY <1>1, <2>1, <2>2, GrowsIs, ContinueGrows
  <1>11. CASE Report(t)
    BY <1>11, ReportGrows
  <1> QED
    BY <1>2, <1>3, <1>4, <1>5, <1>6, <1>7, <1>8, <1>9, <1>10, <1>11 DEF FlowStep

LEMMA TabGrows ==
    ASSUME Inv, NEW t \in Tabs, TabStep(t)
    PROVE  Grows
  <1>1. TypeOK /\ tab[t] \in TabRec
    BY TabTypes DEF Inv
  <1>2. CASE FlowStep(t) \/ Hello(t) \/ TabRemoved(t) \/ SiteAnswers(t) \/ Reload(t)
    BY <1>2, FlowGrows, HelloGrows, TabRemovedGrows, SiteAnswersGrows, ReloadGrows
  <1>3. CASE HelloLost(t) \/ WatchConfirmed(t)
    <2>1. \E T : /\ T.finished = tab[t].finished /\ tab' = [tab EXCEPT ![t] = T]
      BY <1>1, <1>3 DEF HelloLost, WatchConfirmed, TabRec
    <2>2. runs' = runs
      BY <1>3 DEF HelloLost, WatchConfirmed
    <2> QED
      BY <1>1, <2>1, <2>2, GrowsIs
  <1>4. CASE UserSubmits(t)
    <2> DEFINE T == [tab[t] EXCEPT !.pressed = "user", !.back = FALSE, !.armed = tab[t].watching]
    <2>1. T.finished = tab[t].finished
      BY <1>1 DEF TabRec
    <2>2. runs' = runs /\ tab' = [tab EXCEPT ![t] = T]
      BY <1>1, <1>4 DEF UserSubmits, TypeOK
    <2> HIDE DEF T
    <2> QED
      BY <1>1, <2>1, <2>2, GrowsIs
  <1>5. CASE BeginApplication(t)
    <2>1. /\ runs' = runs + 1
          /\ \E page : tab' = [tab EXCEPT ![t] = Document(Closed, page)]
      BY <1>5 DEF BeginApplication, NewRun
    <2> QED
      BY <1>1, <2>1, DocumentGrows
  <1>6. CASE OpenPacket(t)
    <2> DEFINE T == [Document(Closed, "form") EXCEPT !.greeted = TRUE]
    <2>1. T.finished = {}
      BY DEF Document, Closed
    <2>2. runs' = runs /\ (tab' = tab \/ tab' = [tab EXCEPT ![t] = T])
      BY <1>6 DEF OpenPacket
    <2> HIDE DEF T
    <2> QED
      BY <1>1, <2>1, <2>2, GrowsIs, StillGrows
  <1>7. CASE StartManualFill(t)
    <2>1. \/ tab' = tab /\ runs' = runs
          \/ runs' = runs + 1 /\ \E job : tab' = [tab EXCEPT ![t] = StartFlow(tab[t], job)]
      BY <1>7 DEF StartManualFill, NewRun
    <2> QED
      BY <1>1, <2>1, StartFlowGrows, StillGrows
  <1> QED
    BY <1>2, <1>3, <1>4, <1>5, <1>6, <1>7 DEF TabStep

LEMMA NextGrows ==
    ASSUME Inv, Next
    PROVE  Grows
  <1>1. TypeOK
    BY DEF Inv
  <1>2. ASSUME NEW m \in Modes, Kick(m)
        PROVE  Grows
    <2>1. PICK t \in Tabs : t = run[m].tab
      BY <1>1, RunTypes
    <2>2. runs' = runs /\ \E job : tab' = [tab EXCEPT ![t] = StartFlow(tab[t], job)]
      BY <1>2, <2>1 DEF Kick, bounds
    <2> QED
      BY <1>1, <2>2, TabTypes, StartFlowGrows
  <1>3. ASSUME NEW m \in Modes, DeadlinePasses(m)
        PROVE  Grows
    BY <1>3, AbortedGrows DEF DeadlinePasses, bounds
  <1>4. CASE StopCurrent
    BY <1>4, AbortedGrows DEF StopCurrent, Modes
  <1>5. CASE UserRetries
    BY <1>5, StillGrows DEF UserRetries
  <1> QED
    BY <1>2, <1>3, <1>4, <1>5, TabGrows DEF Next

LEMMA FinishedKeeps ==
    ASSUME Inv, FinishedInv, Next
    PROVE  FinishedInv'
  <1>1. Grows /\ TypeOK
    BY NextGrows DEF Inv
  <1>2. ASSUME NEW u \in Tabs, NEW n \in tab'[u].finished
        PROVE  n <= runs'
    <2>1. n \in tab[u].finished \/ n = Flow(u).n
      BY <1>1, <1>2 DEF Grows
    <2>2. n \in 0..MaxRuns /\ n <= runs /\ runs \in 0..MaxRuns
      BY <1>1, <2>1, TabTypes DEF FinishedInv, Inv, ShapeInv, NumbersInv, TypeOK, TabRec
    <2> QED
      BY <1>1, <2>2, BoundsAssumption DEF Grows, BoundsAssumption
  <1> QED
    BY <1>2 DEF FinishedInv

-----------------------------------------------------------------------------
(* Together.                                                                 *)

LEMMA AbortsStep ==
    ASSUME Inv, NEW t \in Tabs, Aborts(t)
    PROVE  Inv'
  <1>1. Active(t) /\ Continue(t, NoFlow) /\ NothingMoves
    BY DEF Aborts, NothingMoves
  <1> QED
    BY <1>1, QuitKeeps

LEMMA InitHolds == Init => Inv /\ FinishedInv
  <1> SUFFICES ASSUME Init
               PROVE  Inv /\ FinishedInv
    OBVIOUS
  <1>1. /\ server = "ready" /\ watches = {} /\ packet = {} /\ accepted = 0
        /\ \A m \in Modes : run[m] = NoRun
        /\ \A t \in Tabs : tab[t] = Closed /\ Flow(t) = NoFlow
        /\ \A n \in 1..MaxRuns : past[n] = NoPast
        /\ runs = 0
    BY ClosedIs DEF Init, Flow
  <1>2. NoPast \in PastRec /\ NoPast.presses = 0 /\ NoPast.fixes = 0 /\ NoPast.hops = 0
    BY DEF NoPast, PastRec
  <1>3. "auto" \in Modes /\ "manual" \in Modes
    BY DEF Modes
  <1>4. TypeOK
    BY <1>2, NoRunIs, ClosedIs, BoundsAssumption DEF Init, TypeOK, BoundsAssumption
  <1>5. ShapeInv
    BY <1>1, <1>2, <1>3, NoRunIs, NoFlowIs, ClosedIs
    DEF ShapeInv, NumbersInv, PlacesInv, FlowsInv, Active
  <1>6. FitInv
    BY <1>1, NoRunIs, NoFlowIs DEF FitInv, RunsFit, FlowFits, Active
  <1>7. RunLimits
    BY <1>1, <1>2, BoundsAssumption DEF RunLimits, BoundsAssumption
  <1>8. UntakenInv
    BY <1>1, NoFlowIs, ClosedIs DEF UntakenInv, SaysUntaken
  <1>9. OnceInv
    BY <1>1, <1>3, NoRunIs, NoFlowIs, ClosedIs DEF OnceInv, Quiet, Pressing, Active
  <1>10. FinishedInv
    BY <1>1 DEF FinishedInv, Closed
  <1> QED
    BY <1>4, <1>5, <1>6, <1>7, <1>8, <1>9, <1>10 DEF Inv, CleanInv

LEMMA FlowStepHolds ==
    ASSUME Inv, NEW t \in Tabs, FlowStep(t)
    PROVE  Inv'
  BY AbortsStep, LocateStep, FindFormStep, HopStep, GotoStep, ReadStepStep, AskServerStep,
     FillStepStep, NextStep, ClickNextStep, StepMovedStep, StepStuckStep, SubmitStageStep,
     StorePressStep, PressSubmitStep, WatchOutcomeStep, CorrectAndResubmitStep,
     AfterSubmitNavigationStep, VerifyStageStep, PollCodesStep, WatchCodeStep, ReportStep
  DEF FlowStep

LEMMA TabStepHolds ==
    ASSUME Inv, FinishedInv, NEW t \in Tabs, TabStep(t)
    PROVE  Inv'
  BY FlowStepHolds, HelloStep, HelloLostStep, WatchConfirmedStep, TabRemovedStep,
     BeginApplicationStep, OpenPacketStep, StartManualFillStep, SiteAnswersStep, ReloadStep,
     UserSubmitsStep
  DEF TabStep

LEMMA NextHolds ==
    ASSUME Inv, FinishedInv, Next
    PROVE  Inv' /\ FinishedInv'
  <1>1. Inv'
    BY TabStepHolds, KickStep, DeadlinePassesStep, StopCurrentStep, UserRetriesStep DEF Next
  <1> QED
    BY <1>1, FinishedKeeps

LEMMA StutterHolds ==
    ASSUME Inv, FinishedInv, UNCHANGED vars
    PROVE  Inv' /\ FinishedInv'
  <1>1. TypeOK /\ TypeOK'
    BY DEF Inv, TypeOK, vars
  <1>2. PICK t \in Tabs : TRUE
    BY BoundsAssumption DEF BoundsAssumption
  <1>3. /\ tab[t] \in TabRec /\ tab' = [tab EXCEPT ![t] = tab[t]]
        /\ SameView(tab[t], tab[t]) /\ tab[t].flow = Flow(t)
    BY <1>1, SameTab DEF vars
  <1>4. /\ TabMoves(t) /\ RunsFit(t)' /\ FlowFits(t)' /\ Flow(t)' = Flow(t)
    BY <1>3, LookFits DEF vars
  <1>5. PlaceStays(t)
    BY DEF PlaceStays, Inv, ShapeInv, PlacesInv, Active, Flow, vars
  <1>6. Flow(t).n \in 1..MaxRuns => PastFit(past'[Flow(t).n])
    BY DEF Inv, RunLimits, PastFit, vars
  <1>7. accepted' = 0 => accepted = 0 /\ SaysUntaken(t)' /\ server' # "submitted"
    BY <1>4 DEF Inv, UntakenInv, SaysUntaken, vars
  <1>8. Clean' => OnceInv'
    <2>1. Clean' => Clean
      BY DEF Clean, vars
    <2>2. ASSUME OnceInv
          PROVE  OnceHere(t)
      BY <1>4, <2>2 DEF OnceHere, OnceInv, OpenRun, Quiet, Pressing, Active, vars
    <2> QED
      BY <1>1, <1>4, <2>1, <2>2, OnceStays DEF Inv, CleanInv, vars
  <1>9. Inv'
    BY <1>1, <1>4, <1>5, <1>6, <1>7, <1>8, MoveKeeps
  <1>10. FinishedInv'
    BY DEF FinishedInv, vars
  <1> QED
    BY <1>9, <1>10

\* The inductive invariant.
LEMMA Inductive == Spec => [](Inv /\ FinishedInv)
  <1>1. Inv /\ FinishedInv /\ [Next]_vars => (Inv /\ FinishedInv)'
    BY NextHolds, StutterHolds
  <1> QED
    BY <1>1, InitHolds, PTL DEF Spec

\* Whatever happens to its pages, a run stays within its limits.
THEOREM RunsAreLimited == Spec => []RunLimits
  <1>1. Inv => RunLimits
    BY DEF Inv
  <1> QED
    BY <1>1, Inductive, PTL

\* With the user out of the way and no progress lost, the site gets the
\* application once.
THEOREM AcceptedOnlyOnce == Spec => []AcceptedOnce
  <1>1. Inv => AcceptedOnce
    <2> SUFFICES ASSUME Inv, accepted > 1, byHand = 0, \A n \in 1..MaxRuns : ~past[n].unsaved
                 PROVE  FALSE
      BY DEF AcceptedOnce, Inv, TypeOK
    <2>1. OnceInv
      BY DEF Inv, CleanInv, Clean
    <2> QED
      BY <2>1 DEF OnceInv, Inv, TypeOK
  <1> QED
    BY <1>1, Inductive, PTL

\* What the server calls submitted the site has taken.
THEOREM SubmittedIsTrue == Spec => []SubmittedWasAccepted
  <1>1. Inv => SubmittedWasAccepted
    BY DEF Inv, UntakenInv, SubmittedWasAccepted, TypeOK
  <1> QED
    BY <1>1, Inductive, PTL

\* The records and counters keep their types.
THEOREM FormTypeCorrect == Spec => []TypeOK
  <1>1. Inv => TypeOK
    BY DEF Inv
  <1> QED
    BY <1>1, Inductive, PTL

\* A submitted form is submitted again by its run only after it came back with
\* errors.
THEOREM PressesOnErrors == Spec => PressedAgainOnErrors
  <1>1. ASSUME Inv, NEW t \in Tabs, PressSubmit(t)
        PROVE  \/ past[Flow(t).n].presses = 0
               \/ tab[t].back
               \/ past[Flow(t).n].unsaved
    <2>1. Active(t) /\ Flow(t).pc = "click"
      BY <1>1 DEF PressSubmit, At
    <2>2. LooseFit(Flow(t), tab[t], past[Flow(t).n])
      BY <1>1, <2>1, Here
    <2> QED
      BY <2>1, <2>2 DEF LooseFit
  <1> DEFINE Good == \A t \in Tabs : PressSubmit(t) =>
                        \/ past[Flow(t).n].presses = 0
                        \/ tab[t].back
                        \/ past[Flow(t).n].unsaved
  <1>2. Inv /\ [Next]_vars => [Good]_vars
    BY <1>1
  <1>3. Spec => [][Good]_vars
    BY <1>2, Inductive, PTL DEF Spec
  <1> QED
    BY <1>3 DEF PressedAgainOnErrors

-----------------------------------------------------------------------------
(* A run that is given up.                                                   *)

\* Run m ends, by nobody's hand, as handed back or failed.
GivenUp(m) ==
    /\ run[m].n # 0 /\ run'[m].n = 0 /\ byHand' = byHand
    /\ server = "in_progress" /\ server' \in {"ready", "failed"}

Unsent(m) ==
    \/ past[run[m].n].presses = 0
    \/ tab[run[m].tab].back
    \/ past[run[m].n].unsaved

LEMMA EarlyUnsent ==
    ASSUME Inv, run["auto"].n # 0, past[run["auto"].n].unsaved \/ run["auto"].phase \in Early
    PROVE  Unsent("auto")
  <1>1. PICK t \in Tabs : run["auto"].tab = t
    BY RunTypes DEF Inv, Modes
  <1>2. RunFit("auto", run["auto"], tab[t], past[run["auto"].n])
    BY <1>1, Here DEF Modes
  <1> QED
    BY <1>1, <1>2 DEF RunFit, Unsent

LEMMA FinishGivesUp ==
    ASSUME Inv, NEW k \in Modes, NEW status \in Outcomes, NEW tabs, FinishRun(k, status, tabs),
           NEW m \in Modes, GivenUp(m)
    PROVE  m = k /\ k = "auto" /\ status \in {"released", "failed"}
  <1>1. m = k
    BY DEF FinishRun, GivenUp, Inv, TypeOK
  <1>2. k = "auto" \/ status = "needs_input"
    BY DEF FinishRun, GivenUp
  <1>3. Record(status)
    BY <1>2 DEF FinishRun
  <1>4. status \in {"released", "failed"}
    BY <1>3 DEF Record, Accepts, GivenUp, Outcomes
  <1> QED
    BY <1>1, <1>2, <1>4

LEMMA FlowGivesUp ==
    ASSUME Inv, NEW t \in Tabs, FlowStep(t), NEW m \in Modes, GivenUp(m)
    PROVE  Unsent(m)
  <1>1. server' # server
    BY DEF GivenUp
  <1>2. Report(t)
    BY <1>1 DEF FlowStep, Aborts, Locate, FindForm, Hop, Goto, ReadStep, AskServer, FillStep,
                Next_, ClickNext, StepMoved, StepStuck, SubmitStage, StorePress, PressSubmit,
                WatchOutcome, CorrectAndResubmit, AfterSubmitNavigation, VerifyStage, PollCodes,
                WatchCode, Progress, Locally
  <1>3. Active(t) /\ Flow(t).pc = "report" /\ Flow(t) \in FlowRec
    BY <1>2, TabTypes DEF Report, At, Inv
  <1> DEFINE k == Flow(t).mode
             o == Flow(t).outcome
  <1>4. k \in Modes /\ o \in Outcomes
    BY <1>3 DEF FlowRec
  <1>5. Managed(Flow(t)) /\ \E tabs : FinishRun(k, o, tabs)
    BY <1>1, <1>2 DEF Report
  <1>6. m = k /\ k = "auto" /\ o \in {"released", "failed"}
    BY <1>4, <1>5, FinishGivesUp
  <1>7. /\ RunOf(t).n = Flow(t).n /\ RunOf(t) = run["auto"]
        /\ TiedFit(Flow(t), tab[t], RunOf(t), past[Flow(t).n])
    BY <1>3, <1>5, <1>6, Working DEF RunOf
  <1>8. past[run["auto"].n].unsaved \/ run["auto"].phase \in Early
    BY <1>3, <1>6, <1>7 DEF TiedFit
  <1> QED
    BY <1>6, <1>8, EarlyUnsent DEF GivenUp

LEMMA TabGivesUp ==
    ASSUME Inv, NEW t \in Tabs, TabStep(t), NEW m \in Modes, GivenUp(m)
    PROVE  Unsent(m)
  <1>1. server' # server /\ byHand' = byHand /\ TypeOK
    BY DEF GivenUp, Inv
  <1>2. ~(Hello(t) \/ HelloLost(t) \/ StartManualFill(t) \/ SiteAnswers(t) \/ Reload(t)
          \/ UserSubmits(t))
    <2>1. ~Hello(t) /\ ~HelloLost(t)
      BY <1>1 DEF Hello, HelloLost
    <2>2. ~StartManualFill(t) /\ ~SiteAnswers(t)
      <3>1. SiteAnswers(t) => UNCHANGED server
        BY Zenon DEF SiteAnswers
      <3>2. StartManualFill(t) => UNCHANGED server
        BY Zenon DEF StartManualFill
      <3> QED
        BY <1>1, <3>1, <3>2
    <2>3. ~Reload(t) /\ ~UserSubmits(t)
      BY <1>1 DEF Reload, UserSubmits
    <2> QED
      BY <2>1, <2>2, <2>3
  <1>3. ~BeginApplication(t) /\ ~WatchConfirmed(t)
    BY DEF GivenUp, BeginApplication, WatchConfirmed, Record
  <1>4. ~OpenPacket(t)
    BY <1>1 DEF OpenPacket, TypeOK
  <1>5. ~TabRemoved(t)
    <2> SUFFICES ASSUME TabRemoved(t)
                 PROVE  FALSE
      OBVIOUS
    <2>1. \E tabs : FinishRun("auto", "needs_input", tabs)
      BY <1>1 DEF TabRemoved
    <2> QED
      BY <2>1, FinishGivesUp DEF Modes, Outcomes
  <1> QED
    BY <1>2, <1>3, <1>4, <1>5, FlowGivesUp DEF TabStep

LEMMA NextGivesUp ==
    ASSUME Inv, Next, NEW m \in Modes, GivenUp(m)
    PROVE  Unsent(m)
  <1>1. server' # server /\ byHand' = byHand /\ TypeOK
    BY DEF GivenUp, Inv
  <1>2. ASSUME NEW k \in Modes, DeadlinePasses(k)
        PROVE  Unsent(m)
    <2>1. PICK status \in Outcomes : status = TimedOut(run[k].phase)
      BY DEF TimedOut, Outcomes
    <2>2. \E tabs : FinishRun(k, status, tabs)
      BY <1>2, <2>1 DEF DeadlinePasses
    <2>3. m = k /\ k = "auto" /\ status \in {"released", "failed"}
      BY <2>2, FinishGivesUp
    <2>4. run[k].phase \in Early
      BY <1>1, <2>1, <2>3, RunTypes DEF TimedOut, Phases, Early
    <2> QED
      BY <2>3, <2>4, EarlyUnsent DEF GivenUp
  <1>3. ASSUME NEW k \in Modes
        PROVE  ~Kick(k)
    BY <1>1 DEF Kick
  <1>4. ~StopCurrent /\ ~UserRetries
    BY <1>1 DEF StopCurrent, UserRetries, TypeOK
  <1> QED
    BY <1>2, <1>3, <1>4, TabGivesUp DEF Next

\* Unless the user stops it, a run is handed back or declared failed only if it
\* has pressed nothing, or the site has returned errors since.
THEOREM GivesUpUnsent == Spec => GivenUpUnsent
  <1> DEFINE Good == \A m \in Modes : GivenUp(m) => Unsent(m)
  <1>1. Inv /\ [Next]_vars => [Good]_vars
    BY NextGivesUp
  <1>2. Spec => [][Good]_vars
    BY <1>1, Inductive, PTL DEF Spec
  <1> QED
    BY <1>2 DEF GivenUpUnsent, GivenUp, Unsent
=============================================================================
