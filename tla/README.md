# Aethlara: specification, model checking and proofs

Aethlara finds jobs for a user, scores them, and applies to the ones the user
approves: a Go server (`src/server`) prepares applications and sends some by
email, a Chrome extension (`src/extension`) fills the rest in the user's
browser, and a web client (`src/client`) is where the user decides.  This
directory holds TLA+ models of the parts whose correctness depends on several
actors, the TLC runs that check them, and TLAPS proofs of the properties that
matter most.  `PROJECT.json` lists the runs, the mutants (a mutated definition
for every property, which TLC must refute), the lines each definition models,
the findings, the hazards and the theorems.

## 1. The system

| Part | State | Operations | Talks to |
|---|---|---|---|
| Applications (`agent/apply.go`, `coldemail.go`, `repo_leads.go`) | `job_leads.status`, `applications` | user decisions, preparation, emails, claims, reports | everything below |
| Runs (`agent/runner.go`, `repository.go`) | `agent_runs`, `agent_profiles.next_run_at`, a semaphore per process | scheduled and manual starts, sweep, finish, shutdown | starts the apply stage and discovery |
| Discovery (`agent/discovery.go`) | `job_leads` | fetch, de-duplicate, score, auto-approve | decides leads |
| Inbox (`agent/inbox.go`) | `agent_messages` | webhook, triage with AI, verification codes | confirms applications, moves the tracker |
| Job tracker (`job/`, client `useJobs.ts`, board and drawer) | `jobs.status`, the client's query cache | pipeline, status transitions, deletions | told by applications and inbox |
| Job pipeline (`job/service.go`, `CreateJobModal.tsx`) | `jobs`, the dialog's step | add a job: scrape, extract, tailor, PDF; poll | the AI, the tracker's list |
| Review page (`Review.tsx`, `useLeads.ts`) | hidden leads, undo stack, paged lists | decide, undo, load more | decides leads |
| Extension runner (`extension/src/background/runner.ts`) | session storage: tick, current run, watches, outbox | claim, open tab, deadline, report, restart | claims and reports |
| Form flow (`extension/src/content`) | the page, the flow's phase | find, fill, submit, correct, verify, watch | runner messages |
| Extension credential (`auth/devices.go`, `background/auth.ts`) | handshake tokens, device tokens, access token | exchange, rotate, revoke, sign out | every extension call |
| Sign-in (`auth/service.go`, client `api/client.ts`, `useAuth.ts`) | codes, refresh tokens, a cookie, each tab's memory | sign in, refresh, log out | every client call |
| Chat, resumes, settings, AI client, job sources, other pages | own tables, or none | single reads and writes, provider calls | |

### What is hard

* **No transactions, whole-row saves.**  A handler reads an application,
  decides, and issues statements one by one; `SaveApplication` writes every
  column back whatever happened to the row since.  Every pair of handlers races.
* **Batches.**  The run loads its queue once and works on copies for many
  minutes; the triage loop works on a list of messages.
* **Crashes and timeouts.**  A run dies with rows in `preparing`, an email
  leaves before its row is saved, a request is cut off between two statements,
  a mail is marked before it takes effect.
* **Leases and limits.**  The extension may vanish, answer after its lease, or
  answer twice; prepare attempts, claim attempts, the cold email cooldown.
* **Run rows and slots.**  One row per user, closed by a sweep that only knows
  its start time; a channel of places that every path has to give back.
* **Session storage.**  The service worker dies anywhere; a page that is
  submitted is replaced by one that knows nothing.
* **Tokens.**  Rotating tokens in storage that several contexts share, checked
  in one statement and changed in another; reuse is taken for theft.
* **Optimistic views.**  The dashboard shows changes before the server has
  them, over a query cache that refetches, cancels and invalidates; lists are
  paged by offset while decisions shift the offsets.
* **Two contexts.**  A request that adds a job has the client's context and the
  deadline of its AI calls; either may end between two writes, whose errors are
  ignored.
* **Delivery at least once.**  Resend posts a mail until it has one 200.

### What makes each part correct

* Applications: an employer is emailed once per decision; the extension only
  gets prepared applications; claims end; nothing is stuck; an address is
  cold-emailed once in the cooldown.
* Runs: places are neither lost nor taken twice nor jumped for; a row is
  closed; an enabled user stays in the schedule.
* Extension: one run at a time, one result per claim; results survive restarts.
* Form flow: an application is taken once; what may have been sent is not
  handed back.
* Tracker and review: what is shown settles on what is stored; a lead is neither
  hidden for good nor skipped.
* Pipeline: what is reported as created is complete; no answer takes over a form.
* Credentials: a race never looks like theft; a good credential is kept.
* Inbox: every mail is stored and triaged, once; the tracker is not behind it.

## 2. Modules

| Module | Models | Built on |
|---|---|---|
| `ApplicationStore` | the statements of `repo_leads.go` on `job_leads` and `applications` | |
| `Applications` | every handler over them: user, run, extension, inbox, clock, faults | `ApplicationStore` |
| `RunSlots` | what a process promises about its places for runs (abstract) | |
| `RunScheduler` | slots, run rows, scheduler loops and profiles over several processes | instantiates `RunSlots` |
| `ExtensionRunner` | the extension's service worker against the server's claims | |
| `FormFlow` | one application in its tab: flow, run record, site | |
| `DeviceAuth` | the extension's device credential against the server | |
| `WebSession` | the dashboard's tabs, their refreshes and codes, against the server | |
| `JobStatus` | statuses of a job, transitions, the shortest way between two | |
| `JobTracker` | the status of jobs at the server and in the query cache | `JobStatus` |
| `LeadReview` | the review page against decisions and autopilot | |
| `JobPipeline` | adding a job by hand: the dialog and the request behind it | |
| `InboxTriage` | posts of mail, triage, and what mail does to the tracker | `JobStatus` |
| `MC...` | instances for TLC | the module of that name |
| `Applications_proofs`, `ExtensionRunner_proofs`, `RunScheduler_proofs`, `FormFlow_proofs`, `DeviceAuth_proofs`, `WebSession_proofs` | TLAPS proofs | the module of that name |
| `JobStatus_proofs` | TLAPS proofs about the two modules that move a job | `JobTracker`, `InboxTriage` |
| `Dashboard_proofs` | TLAPS proofs about two pages of the dashboard | `LeadReview`, `JobPipeline` |

The parts meet at `applications.status` and `jobs.status`.  Each module states
its neighbours' writes in the coarse form in which it can notice them:
`ExtensionRunner` and `FormFlow` know of the server what a claim and a report do
(`Accepts`, `Recorded`, the guards of `ClaimNext` and `ReportResult`),
`LeadReview` the autopilot's writes to leads, `JobTracker` and `InboxTriage` one
another's moves of a job.  `JobStatus` is shared.

### Applications

*State.*  `lead`, `applyEmail`, `app` are columns of the two tables, indexed by
lead (a lead has at most one application, `idx_applications_lead`).  A row keeps
its id, status, channel, whether it has a job, its attempts, whether its lease
is live, expired or NULL, and whether it was submitted in the last 24 hours.
`phase`, `batch`, `cur`, `cold`, `settle`, `mem` are the locals of `applyQueued`
and `sendColdEmails`: `mem[l]` is the copy of a row that the run works on.
`todo[a]` is the list of statements the handler of actor `a` has still to issue.

*Steps.*  A handler's reads and its decision are one step, which leaves its
writes in `todo`; `Exec` performs one of them.  Between two writes every other
actor may step.  So `Approve` is `SetLeadStatus` then `QueueApplication`,
`CancelApplication` is a whole-row save of the row it read and then
`SetLeadStatus`, and so on.  `ClaimBrowserApplication` is a single SQL statement
and a single step.

*Several things are deliberately coarse.*
- The AI, the posting fetcher, the mail provider and the contact finder answer
  anything: `PrepareFails`, `PrepareLater`, `PrepareByColdEmail`,
  `PrepareWithoutKey`, `PrepareTailored` are the outcomes the code tells apart.
- A run is cut short by its timeout or by the process dying; a single failing
  statement in the middle of a run that then goes on is not modelled, but for
  one: a cold email whose lead could not be recorded in the tracker is saved
  without a job (`Emailed`).
- A handler that fails stops (`Interrupt`).  A dismissal that cannot read its
  lead's application does not: it dismisses the lead and leaves the application
  as it is (`DismissUnseen`).
- The horizon is the 14-day cooldown: a cold email never gets older than it.
- One run at a time per user, which is what `RequeueInterrupted` assumes.
- Auto-approval in discovery issues the writes of `Approve`; it has no action of
  its own.  One round of `ClaimNext`'s loop is one action.
- `MatchConfirmation` is the read `triageOne` makes before its AI call, and
  `Confirmed` the re-read and the writes of `applyMailOutcome`.
- Soft-deleted jobs keep their row, so `job_id` stays set.

*History.*  `asked`, `streak`, `unrecorded`, `emails`, `coldSent` and `faults`
are only read by properties and bounds.

### RunScheduler and RunSlots

*State.*  `enabled` and `nextRun` are columns of `agent_profiles` (`nextRun`
against `NOW()`: NULL, due or later).  `run[r]` is a row of `agent_runs`
together with the goroutine that executes it: the row's status and age, the
goroutine's process, stage and age.  A record is reused once its row is closed
and its goroutine gone.  `used[i]` and `queue[i]` are the channel `runSem` of a
process: places taken, and goroutines blocked on it in order (Go hands a place
to the longest waiting sender).  `sched[i]` is where the scheduler loop stands.

*Steps.*  The loop's statements are steps of their own: sweep, take a place,
claim a profile, insert the row.  `StartManualRun` inserts the row and starts the
goroutine, which takes a place or queues in a step of its own (`TakesOrWaits`),
so that other runs, the loop or a shutdown come in between.  `FinishRun` writes the row; `Returns`, after the digest, gives
the place back.  `Shutdown` ends the loop's context, after which its statements
fail; `Exit` (all done, or the 30 seconds are over) and `Crash` end every
goroutine of the process and leave the rows.

*Refinement.*  `RunSlots` says what all this comes to: in each process at most
`Slots` runs are inside, counting the place its loop may hold; a run that finds
no place waits, and a place given up goes to who has waited longest, nobody
overtakes.  `RunScheduler` instantiates it as `Places`: inside is `Executing`,
the loop's place `HeldByLoop`, the waiting line `queue`.  The counter `used` is
not part of the mapping, so the channel's arithmetic is what the refinement is
about.

*Time* is counted in ticks; a row is swept when older than `RunTimeout + Grace`.
A run returns within `Grace` of its timeout, since every call it makes takes the
run's context and `finish` has 15 seconds: this is assumed, in `Tick`.  Rounds
of `dispatchDue` are shorter than `run_interval_hours` (`IntervalPasses`).

*Coarse.*  One profile update at a time per user; what a run does is
`Applications`, so a run ends as completed or failed as it likes; of the
statements the database may refuse only `FinishRun` fails.  A run that checks
its context and writes its status is one step.

### ExtensionRunner

*State.*  `tick`, `current`, `manual`, `watches` and `outbox` are `RunnerState`
in session storage (the outbox by application, since a report replaces the one
before it).  `server[a]` is the application's status as the server has it.
`adv` is where `advance()` stands - the flag `advancing` makes it one activity -
and `send[a][k]` is a `sendPending(a)` called by activity `k`: by `advance`, at
the end of a run, or by a confirmed watch.  These, and `opened` (packets that
`startManualFill` has read), are lost when the worker stops.

*Steps.*  A step runs from one `await` on a request to the next; the writes to
session storage in between are taken with it.  `Claim` is the server leasing a
row, `BeginApplication`, `NoFormToOpen` and `HandBack` what its answer leads to,
`ClaimAnswerLost` its loss.  `Post` is the server acting on a report, `Settle`
the answer (or its loss) coming back and the outbox entry being looked up by
application again.  `FinishRun` is `finishRun`, called by `RunEnds` (the page's
result, a page that does not load, the deadline), `TabClosed`, `StopCurrent`,
`Recover` and `OpenFails`; the set `finishing` is its first guard.  When its
report is sent it goes on to `advance()` (`SendEnds`).  `Dies` stops the worker
anywhere, `IdleStops` when it has nothing to do, and `WakeUp` is `initRunner`.

*Coarse.*  A run is an application and whether it has a tab; its phase and the
messages that serve a form are left out (`FormFlow`).  The checks at the head of
the loop that end the tick are one action, `AdvanceReturns`.  `initRunner`'s
flush is the one `advance()` begins with; a user's sign-out is `StopCurrent` and
then `SignedOut`.  `checkDeadlines` and `recover` handle one run per step, so a
list of runs that got stale while an earlier one was finished is not seen.

*History.*  `orphans` are the claims the extension may have lost sight of,
`known` marks a report the server has answered, `begun` counts per tick.

### FormFlow

*State.*  `run[m]` is the record the background keeps of the autopilot's or a
manual run: its tab, phase, attempts, corrective passes, hops.  `tab[t]` is a
tab: the page (what the detectors of `detect.ts` make of it), its document's
flow with a `pc`, the runs this document has reported, its watch.  `accepted`
counts how often the site took the application; `past[n]` what run `n` has done
over all its documents.

*Steps.*  A call to the background takes effect there in one step and leaves the
flow waiting; `SiteAnswers` is the page after a press, in the same document or
in a new one; `Document` is what a new one starts from, `Hello` its first call.
The deadline, a closed tab and a stop end the run at any time, and the document
works on until its next `checkAbort`.  A form on an origin that was not admitted
is a page `other`, on which nothing is pressed or corrected (`flow.ts:537`).

*Coarse.*  Which step of a form comes next and whether it is one too many
(`MAX_STEPS`) is left open.  The outbox and the worker's restarts are in
`ExtensionRunner`: a report arrives here.  How fields are found and filled is
left out.  `unsaved` marks a run whose progress call was lost, which `flow.ts:133`
ignores: such a run is excused by `RunLimits` and `AcceptedOnce`, and so is
what a user does by hand by `AcceptedOnce`.

### DeviceAuth

*State.*  `ext`, `devices` are the server's tables; tokens are numbered as they
are issued, and a device is used when it gets one, so that the device with the
higher `cur` is the one used last (`UsedAfter`); `stored`, `access` and `connect` the extension's storage; `lock` the web
lock; `refresh[c]` the refresh in flight of the worker or of the panel; `calls`,
`exchange`, `signout` what the clients' functions have got to; `requests` the
refreshes on their way or being handled by the server.

*Steps.*  The cap is applied in a statement after the insert, which may fail
(`RevokeExcess`, `RevokeExcessFails`).  The server's look-up and its conditional update are separate steps, as
are the two writes of `persist`.  A context may end anywhere (`Dies`), an answer
be lost, a query fail; a request whose context ended is still handled.  Reads of
storage under the lock are one step with what follows.

*Assumptions.*  Web Locks exist (without them the code refreshes unlocked).
`GraceLapses` only while no request with the previous token is under way: a
request lasts 20 seconds at most and the grace two minutes.  Requests that nobody waits for and that are
alike are merged.  Rate limits are left out: a refused call is one made later.
The model starts with a connected extension and with one that is not.

### WebSession

*State.*  `rt`, `valid`, `codes` at the server; `cookie` shared by all tabs;
`page`, `mem`, `jobs`, `refreshing` of each tab, where `jobs` are its requests
with their place in the interceptor (sent, refused, queued, refreshing,
renewed, ...).  A pair of tokens issued together is one number.

*Steps.*  `ReadToken`, `RevokeToken` and `IssuePair` are the three statements
of `Refresh`; `FindCode`, `CountAttempt` and `CompareCode` those of `VerifyOTP`,
where counting an attempt and locking the code are one step.  A reload or a closed tab orphans its refresh and cancels its
sign-in.

*What the properties remember.*  `shownBy` says which pages presented a token.
A reload makes of its page nobody in particular, so that its orphan and its
successor count as two.  A log-out that names a token counts as two pages of its
own: the server revokes it whoever else has it under way.

*Left out.*  The expiry and clean-up of refresh tokens; a 429 is a delay; one
user; `refreshTokenFn` is not called by anything.  Codes lapse at any time.

### JobStatus and JobTracker

`JobStatus` has the table of transitions and `TransitionPath`: the code's
breadth-first search is stated as what it computes, the shortest chain.

*State.*  `rows` is the table; `req` the mutations in flight with the snapshots
their roll-back needs; `cache[q]` a query of react-query: data, whether it is
invalid, its fetch and what a cancelled fetch reverts to.

*Steps.*  A mutation: `onMutate` (cancel fetches, snapshot, edit) is one step;
the server reads the row (`CheckTransition`) and writes it (`WriteStatus`) in
two; the answer, or its loss, runs `onError` and `onSettled`.  `BeginAdvanceStatus`
and `AdvanceStatusStep` are the autopilot's and the mailbox's `AdvanceStatus`.

*Assumptions.*  The semantics of react-query 5 are external and stated in the
definitions that say so.  One dashboard, a list of all jobs without filters, no
garbage collection of queries.  `behind` excuses what a client cannot know:
writes of others, and an invalidation that meets a fetch it does not restart.
The pause that `Jobs.tsx:57-71` makes before a search is left out.

### LeadReview

*State.*  `lead` as the server has it; `tab`, `hiddenIn`, `undoStack`, `req` are
the page; `list[t]` the infinite query of a tab, with its pages (the set of
rows of each) and its fetch, `awaiting` the tabs whose `loadMore` waits for a refetch.

*Steps.*  A decision hides its leads, the server handles them one by one
(`DecideLead`; `DecideLeadFails`, a failure before or between its statements;
`DismissUnseen`, a dismissal that cannot read the application and is answered as
done), the answer shows again what failed; an undo sends its steps in turn.  A refetch reads its pages one
after another, each from the server as it is then.

*Assumptions.*  react-query's infinite queries are external: a refetch
restarts a fetch in flight unless it is the first load, a silent cancel joins
it, `refetch` and `fetchNextPage` resolve also when they fail.  After an `await`
the code acts on the tab then open.  One page of the dashboard, no search, no
filters, no detail pane; one decision of one lead is one server step (its
statements interleave in `Applications`); a page's rows and its total are one
read; all leads but one are new at the start.

*Excuses*, each history: `excused` (the autopilot moved the lead since, or two
decisions of it overlapped), `shifted` (a lead left the tab during a fetch, or
the refresh failed), `joined` (the lead came to the tab since), `cut` (a decision
stopped between its statements), `unseen` (dismissed without a look at its
application, by a late scoring or by a dismissal whose look-up failed).

### InboxTriage

*State.*  `row` is `agent_messages` with its status, attempts and the status its
outcome moves a job to; `event[e]` whether Resend has had its 200, `hook[e][d]`
the messages a handler of a post has still to store; `work[i]` the triage loop
of a process: its list, and where it is with the first message of it.

*Steps.*  `InsertMessage` stores one message of a post; the loop lists, asks
the AI and marks (`SetMessageTriage`, one step with the AI's answer), then goes
through `AdvanceStatus` (`BeginAdvance`, `AdvanceStep`) and alerts.  Processes
end and start anywhere; the job is moved by users and runs in a read and a
write, or deleted.

*Coarse.*  A round may start at any time (the kick of the webhook and the
minute's ticker are one).  A job exists from the start; an application without
one is like no match.  Who has a key for the AI is constant.  A confirmation's
effect on the application is in `Applications`.  Read flags, listings and the
list of verification codes are left out.

*Excuses.*  `cut`: a process ended or a query failed between the mark and the
move.  `crossed`: someone wrote the job who had looked at it before another did.

### JobPipeline

*State.*  `modal[m]` is the dialog of a tab: its step, the job it was told of,
whether it polls.  `post[p]` is a request from the click to the arrival of its
answer: the stage its handler has reached, who waits for it, whether the
client went away (`cancelled`), whether the deadline of the AI calls is over
(`late`).  `job[p]` is the row it inserts.

*Steps.*  One per statement: each writes under one of the two contexts and
carries on whatever became of it (`Update`: done, refused because its context
has ended, failed of its own).  `Expire` and the dialog's `LoseConnection` and
`LeavePage` end the contexts at any time.  `Delete` is the user in the job list.

*Coarse.*  Reads of a request are one step with the statement after them; GET
polls are steps only when they find the row done.  The archive of the raw input
writes no row.  The 24 hours of the duplicate check do not pass.  `faulty` marks
a request one of whose statements failed of its own: `SavedWhenTold` excuses it.

## 3. Runs

| Run | Instance | Shows |
|---|---|---|
| `faults` | one lead, one request slot, two decisions, one fault, fairness | `HandedOutIsPrepared`, `ClaimsCanExpire`, `AbandonedClaimsAreBounded`, `EmailsNeedAsking`; `PreparingEnds`, `ClaimsEnd` |
| `leads` | two leads under one address, one request slot | `ColdEmailCooldown`, `NothingLeftPreparing` |
| `schedule` | one user, one place, a waiting line of two, two manual runs, three crashes, shutdowns, failed finishes or profile updates, fairness | `PlacesInOrder` (the refinement), `SweepSparesRuns`, `QueuedRunsStart`, `EnabledUsersRun` |
| `worker` | two applications, a tick of two, one loss, restart or sign-out, one thing done by hand, fairness | `OneAtATime`, `BegunOncePerTick`, `ClaimsAccounted`, `TickEnds`, `OutboxDrains` |
| `flow_resume` | one tab, two runs, one call lost or page reloaded, one act of the user | `RunLimits`, `AcceptedOnce`, `SubmittedWasAccepted`, `PressedAgainOnErrors`, `GivenUpUnsent` |
| `devices` | two contexts, one handshake exchanged twice, a cap of one, one fault | `TheftOnlyAfterLoss`, `ForgetsOnlyDead`, `DevicesCapped` |
| `session` | two tabs, a query each, an expiry, a fault, a code | `OneRefresherServesAll`, `AlarmsExplained`, `GuessesBounded` |
| `session_logout` | one tab | a sentence of the documentation the code does not keep (section 5) |
| `board` | one job, two mutations in flight, one `AdvanceStatus`, one fault | `AppliedDated`, `ViewsSettle` |
| `review` | two leads on pages of one, two decisions or undos, one change by the autopilot or one fault | `NothingLost`, `NoLeadSkipped`, `QueueExplained` |
| `inbox` | three messages of two mails, one process, one incident, fairness | `MailStored`, `TriageEnds`, `OutcomeKept`, `AlertedOnce` |
| `add` | one dialog, one request; deadlines, lost connections, pages left, deletions, two failing statements, fairness | `SavedWhenTold`, `FormNotTakenOver`, `ProcessingEnds` |

Every module states its type invariant.  The runs do not check them, since all
of them are proved; TLC checks one by adding it to the cfg of a run.

### Bounds

*Applications.*  `MaxAsks` bounds the decisions to apply per lead, `MaxAttempts`
the attempts of a row that is still claimed, `MaxFaults` the handlers and runs
cut short.  One request besides the run is enough for a stale save to meet
another write, because a save depends on one earlier read; two leads under one
address are enough for a group of a cold email and for a batch that ends early;
limits of one or two let every budget be used up and exceeded.
`MaxPrepareAttempts` and `MaxClaimAttempts` are 3 and 5 in the code and 1 or 2
here, since what matters is the comparison at the limit.  `MailOn` is false in
`faults`: an installation without the inbound webhook, which keeps it small; the
inbox is in `leads`.

*Scheduler.*  `Runs` bounds the rows and goroutines alive: one row per user is
running, and one more record per manual run that is swept while it queues is
enough for no start to wait for a record.  One slot makes runs compete.  Two
manual runs (`MaxClicks`) and three records make a line of two: the second run
queues once the row of the first, which still waits, was swept.  The line does
not know users, so one is enough for its order; with a second user and as many
records the temporal properties take TLC hours instead of minutes.
`MaxIncidents` bounds profile updates, shutdowns, crashes and failed finishes
together.  Timeouts of one tick are enough: a tick can fall between any two
steps, and the sweep compares sums of two of them.  The run has one process; the
proofs cover any number of users, processes, places and runs, and the order of
the line among them.

*Extension.*  `MaxFaults` bounds lost requests or answers, restarts and
sign-outs together, `MaxByHand` what users do (retry, manual fill, submitting in
a watched tab), `MaxTicks` the ticks.  Two applications are enough for one claim
to follow another in a tick, and for one to come back; one fault falls between
any two steps.  `TICK_LIMIT` is 2 instead of 3, a delivery has 1 try instead of
3, and a report is given up after 1 failed delivery instead of 10: a report that
waits for a session or a worker drains under fairness.  The proofs cover any
number of faults, ticks, tries and attempts.

*Form flow.*  Two runs, so that an application is worked again after a run was
given up; one tab, since a run never leaves its tab; one lost call or reload and
one act of the user are enough for a document to resume from a phase that is too
old, and for a user to submit beside the flow.  `MAX_HOPS` is 1 instead of 2.  The proofs cover
any number of tabs, runs and losses, and any bound on hops.

*Credentials.*  Three tokens allow a rotation, its replay and one more rotation;
one fault is what the code's grace is for.  `devices` has one API call, of the
panel; the worker refreshes for its sign-out.  In `session` two tabs race with one
cookie, `MaxLoads` lets each be open once or one be reloaded; a code takes two
attempts instead of five.

*Tracker and review.*  Two mutations in flight and one fault: a roll-back needs
a second change under it to go wrong.  Two leads on pages of one are the
smallest list whose offsets can shift under a loaded page.  `MaxSurprises` counts
what happens behind the page: a lead the autopilot or the browser changes, a
failed statement, a failed look-up.

*Inbox.*  The two mails have three messages, two of them for the user with an
application: a post with something left to store, and two outcomes of one job.
An attempt limit of 2 instead of 3 and batches of 2 instead of 25 make a message
fail twice and a list be left over.  One incident at a time: two would add
excused behaviours only.  `AlertedOnce` counts by process: a second
one may work on a list that overlaps, so it says once each.  No mail is
spoofed in the run.

*Pipeline.*  One request: a dialog hears one request at a time, and earlier ones
matter to it only as rows that make its URL a duplicate, which `Listed` stands
for.  Two statements fail of their own, so that a lost status can be followed by
another.  The proofs cover any dialogs and requests.

### Fairness

*Applications* (`faults`).  Runs keep going and keep being started (the
scheduler's ticker) and a handler's statements are executed: weak fairness.
Leases run out: weak fairness of the clock.  The extension polls: strong
fairness of `ClaimNext` for a lead, because another request may hold the only
slot each time, though not for ever.  Nothing is assumed of the user, of
reports, of faults or of the other requests.

*Scheduler* (`schedule`).  Loops, executions, clocks and exits go on and a dead
process is restarted: weak fairness.  A due profile is claimed: strong fairness,
because `ClaimDueProfile` takes the one that has been due longest and no profile
is passed over for ever.  Intervals end although rounds of dispatch come in
between: strong fairness.  Nothing is assumed of manual starts, updates,
shutdowns and crashes.

*Extension* (`worker`).  Requests are answered or time out (`fetch` has a
timeout), so `advance()` and the senders go on; a run, also one by hand, ends by
its deadline, which an alarm backs; the watchdog recovers; an idle worker is
stopped by Chrome within a minute and woken by the next event, for instance the
content script of the next page.  All weak fairness.  Nothing is assumed of
alarms for ticks, of users or of faults.

*Inbox* (`inbox`).  Resend posts again while it has no 200, handlers and loops
go on, an ended process is started: weak fairness.  Nothing is assumed of the
AI's answers, of users or of incidents, which the bound makes finite.

*Pipeline* (`add`).  Handlers go on, since every call they make has a
deadline; an answer that was given arrives or its connection breaks; an open
page polls: weak fairness.  Nothing is assumed of users, deadlines or failures.

The other runs check safety, where fairness plays no part.

## 4. Proofs

`Applications_proofs` proves, for any set of leads that is finite, any
requests, addresses and limits (`ActorsAssumption`, `LeadsAssumption`,
`LimitsAssumption`):

| Theorem | States |
|---|---|
| `Inductive` | `Spec => []IInv` |
| `TypeCorrect` | `Spec => []TypeOK` |
| `HandedOutPrepared` | the extension only gets applications with a job, on the browser channel |
| `ClaimsExpire` | an application in progress has a lease |
| `AbandonedClaimsBounded` | at most `MaxClaimAttempts` hand-outs without a write in between |

None of these is inductive: the rows that handlers hold are written back later,
over anything.  `IInv` says that **every** row in the table, in `todo` and in
`mem` is fit to be stored at any moment (`FitRow`: a row that may be handed out
has its job and is on the browser channel; a row in progress has a lease), that
no pending save writes `in_progress` (only the claim statement does), and that
the copies of a run are never in a state that may be handed out.  Then a stale
save can destroy another handler's work, but cannot make an unfit row.  The
proof has a lemma per statement and per action, and the temporal theorems follow
by PTL.

`ExtensionRunner_proofs` proves, for any applications, limits and bounds
(`RunnerAssumption`):

| Theorem | States |
|---|---|
| `RunsDoNotOverlap` | `Spec => OneAtATime` |
| `ClaimsAreAccounted` | `Spec => []ClaimsAccounted` |
| `BeginsOnce` | `Spec => []BegunOncePerTick` |
| `RunnerTypeCorrect` | `Spec => []TypeOK` |

`OneAtATime` needs that no run appears while a claim is on its way:
`advance()` looked for one before it asked the server and does not look again.
`IInv` says so, with two facts the types leave out: a run without an application
is no run, and whoever sends has a try left.  `ClaimsAccounted` is not inductive
either, since it lets `advance()` vouch for an application it is about to drop;
`HeldInv` names who holds a claim at each moment: `advance()` until the answer to
the claim is there, then the run, then a report the server has not answered.  It
breaks at one place only, where the answer to one report removes a newer one, and
`orphans` records exactly that.  For `BeginsOnce`: whatever a tick of `advance()`
has begun is in the set it has seen, and it begins nothing from that set.

Of the emails of an application and the stages of a run, `Applications_proofs`
proves, for the same constants:

| Theorem | States |
|---|---|
| `EmailsInductive` | `Spec => []EInv` |
| `EmailsAreAsked` | `Spec => []EmailsNeedAsking` |
| `CooldownKept` | `Spec => []ColdEmailCooldown` |
| `StagesEndClean` | `Spec => []NothingLeftPreparing` |

An email is sent first and saved afterwards, by a run whose copies are old by
then.  `CreditInv` therefore counts for each lead: the emails it has got, what the
run holds and may still send, and each due row the run does not hold come to no
more than was asked for, plus one per handler or run cut short.  A
row that was not due becomes due by a decision of the user's only, which `asked`
counts; a requeued one was due before.
`ColdInv` says the same of addresses: a cold email is on record in its row, or it
is among the copies the run is about to save, or a stale write took it away.
`PreparingInv` says that a row in `preparing` is one that the run still has in
hand, so that nothing is left of it when the run ends.  What these rest on is
stated apart: what a handler's pending save may contain (`SavesInv`,
`HandlersInv`), where copies are at each step of the run (`ShapeInv`), and that a
row that does not exist is in nobody's hands (`NoRowInv`).

`FormFlow_proofs` proves, for any tabs (at least one) and any `MaxHops`, runs,
losses and acts of the user (`BoundsAssumption`):

| Theorem | States |
|---|---|
| `RunsAreLimited` | `Spec => []RunLimits` |
| `PressesOnErrors` | `Spec => PressedAgainOnErrors` |
| `GivesUpUnsent` | `Spec => GivenUpUnsent` |
| `AcceptedOnlyOnce` | `Spec => []AcceptedOnce` |
| `SubmittedIsTrue` | `Spec => []SubmittedWasAccepted` |
| `FormTypeCorrect` | `Spec => []TypeOK` |

What a run may still do is spread over the document that works on it, the
record in the background and the page, and any of the three may be gone at the
next step.  `FitInv` ties them: what has been done (`past`) is covered by the
record (`RunFit`: stored before it is done, so a new document that starts from
the record cannot repeat it), and the flow by both (`LooseFit` for any flow,
`TiedFit` for one whose run goes on: a flow past the press works on a run stored
as `submitting` or `verifying`, and counts what the record counts).  A run that lost a call that
stores its progress is excused from the clauses on presses and corrections, and
not from those on hops and on what it may submit.
`ShapeInv` says which flow works on which run: one tab for one number, and a run
of the autopilot shares no tab with a fill by hand.  A fill by hand starts a flow unless its
document holds the run to be finished, hence `FinishedInv`: only numbers that
were given are finished.  For `AcceptedOnlyOnce`, `OnceInv` holds while the user
has done nothing and no progress is lost: at most one tab is not quiet, the one
of the run that is in progress; nothing is pressed, about to be, or given back
to the queue once the site has accepted.  `UntakenInv` says the same of the word
"submitted": no page, flow or record says it before the site has accepted.
`MoveKeeps` is the frame: a step of one tab leaves the other tabs fit, and each of
the actions then has a lemma about its own tab.

`JobStatus_proofs` proves of `InboxTriage`, for any processes (a finite set),
mails, users and incidents:

| Theorem | States |
|---|---|
| `InboxTypeCorrect` | `Spec => [](TypeOK /\ WorkInv)` |
| `AlertsOnce` | `Spec => []AlertedOnce` |
| `OutcomesKept` | `Spec => []OutcomeKept` |

`AlertsOnce`: an open message has no mark and no alert, and a loop that still
holds a message has not alerted about it (`CountInv`); an alert is made
by a loop that lets go of the message.  `OutcomesKept`: a mail marked as dealt with
is excused, or a loop is still on its way to the outcome, or the job is not behind
it (`KeptInv`).  No allowed transition makes a job fall behind an outcome
(`BehindStays`), and a loop walks the shortest way from the status it saw
(`MoveInv`, `PathLeads`); `Reach`, `WaysAre` and `ReachHasWay` compute the graph of
`JobStatus` once for all of them.

Of `JobTracker` it proves, for any jobs, mutations in flight, agents and bounds
(`TrackerAssumption`):

| Theorem | States |
|---|---|
| `DatesAreKept` | `TrackerSpec => []AppliedDated` |
| `ShownIsStored` | `TrackerSpec => []ViewsSettle` |
| `TrackerTypeCorrect` | `TrackerSpec => []TrackerTypeOK` |

The server decides whether a move sets the date on a row read earlier, and so
does `AdvanceStatus` for a whole way.  `DatedInv` says that each such decision is
still right when it is carried out: by then the row has its date, or the write
that is due is the one to "applied" that sets it (`Dates`).  It holds because
dates are never taken away, and because every move out of "not applied", a first
step of a way included, is to "applied".

`ViewsSettle` speaks of a client that waits for no answer.  Its strengthening
`ViewInv` speaks of each query apart, at any time: one that no mutation in flight
touches shows what the server has, or is invalid, or is known to be behind, and a
fetch that nothing overtook brings what the server has (`Sound`).  A
mutation touches the list and the detail of its job; the lemmas about
`Cancelled`, `Invalidated`, `SetData` and `Mounted` are those of the query cache,
and each step of the server has one that says which queries it leaves `Sound`.

`RunScheduler_proofs` proves, for any processes, users,
runs (a finite set), slots and timeouts:

| Theorem | States |
|---|---|
| `TypeCorrect` | `Spec => []TypeOK`; `used` stays within the slots |
| `SlotsAlwaysAccounted` | a place is held by one execution or by the loop, and goroutines wait only while all are taken |
| `SweepAlwaysSpares` | the sweep closes the row of a run in progress only if that run queued for its place |
| `SchedulerImplementsRunSlots` | `Spec => Places!Spec` |

The sweep compares the age of a row, a run ends by the age of its goroutine.
The invariant ties the two: they are equal unless the run queued, a run in
progress is no older than its timeout and the grace, and a row is swept beyond
them.  Slots are counted by the cardinality of `Executing(i)`: each step adds
or removes one element of a finite set, and the queue holds distinct runs of its
own process that execute nothing, so that handing a place over adds exactly its
head.  The refinement uses that accounting: a place is free in `used` if and
only if it is free in the abstract state, and each concrete action is the
abstract one its comment names, or a stutter.

`DeviceAuth_proofs` proves, for any calls, handshakes, exchanges, tokens, cap and
faults (`AuthAssumption`):

| Theorem | States |
|---|---|
| `NoFalseTheft` | `Spec => []TheftOnlyAfterLoss` |
| `CapHolds` | `Spec => []DevicesCapped` |
| `ForgetsDead` | `Spec => ForgetsOnlyDead` |
| `AuthTyped` | `Spec => []TypeOK` |

The server takes a request for theft when its token was replaced and the grace
is over.  `AuthInv` says where an old token can still be.  A token belongs to one
device, as its token or the one before (`TokensInv`).  The lock has one holder
(`LockInv`); while that waits for an answer, its request carries the stored
token, unless the credential was forgotten meanwhile (`RequestsInv`,
`StoredInv`).  A token that was minted and is not stored yet is known to the one
side that has to store it (`SecretInv`): no request carries it.  From these,
`TheftInv`: if the extension stores the token before the last, the context it was
answered to is about to store the last, or it died or lost the answer
(`unseen`); and a request that carries an old token is within the grace or of such
a device.  The first clause is where the lock and the order of the two writes of
`persist` are used.  `GoneInv` says of a context about to forget the credential
that the device is revoked or the database failed.  Most steps mint nothing,
store nothing and post nothing; the lemmas `Quiet` and `Calm` cover what they
leave alone, and the others have a lemma per action and part.

The cap is an SQL statement of its own after the insert.  For `CapHolds` it is
shown that what it keeps has at most `DeviceCap` members: among the live devices
outside `Excess` take the one used longest ago; all the others were used after
it, so there are fewer than `DeviceCap` of them.  A device that is created and
not counted yet adds one, until its own statement runs, and for good if that
fails (`RevokeExcessFails`).

`Dashboard_proofs` proves of `JobPipeline`, for any dialogs, requests, URLs and faults
(`PipelineAssumption`):

| Theorem | States |
|---|---|
| `CreatedIsComplete` | `Spec => []SavedWhenTold` |
| `FormStays` | `Spec => FormNotTakenOver` |
| `PipelineTypeCorrect` | `Spec => []TypeOK` |

`IInv` ties three things: what a request that is not faulty has left in its row
at each stage (`Serves`), that a dialog waits for one request at most and shows
nothing else meanwhile (`Awaited`), and that what it shows of a job is said of a
row whose request is over (`Shown`).  A deadline that cuts off the write of the
extraction also keeps the tailoring from succeeding, which is why no finished
job lacks it.  The lemmas `UpdateServes` and `GoesServes` are stated once for
the three outcomes of a statement; each stage then has a lemma of its own.

Of `LeadReview` it proves, for any number of leads, page size, requests in flight
and bounds (`ReviewAssumption`):

| Theorem | States |
|---|---|
| `NothingStaysHidden` | `ReviewSpec => []NothingLost` |
| `ListsAreWhole` | `ReviewSpec => []NoLeadSkipped` |
| `QueueFollowsLeads` | `ReviewSpec => []QueueExplained` |
| `ReviewTyped` | `ReviewSpec => []ReviewTypeOK` |

`HiddenInv`: a hidden lead that nothing excuses has at most one request on it, a
decision that takes it out of the tab it is hidden in, and for as long as that
has not happened the lead is among those still to be decided or those that
failed and will be shown again.  `Covers` says what a list loaded by offset shows: with `n` pages, every lead of
the tab whose place is within the first `n` pages (`UpTo`), and with the last
page, every lead.  A decision that takes a lead out moves those after it up by
one place (`Rank`), into a page already read; that is why it marks the list
`dirty` and `loadMore` reads it again first.  While the list is dirty nothing is
claimed of its offsets.  Leads that come into a tab are in `joined`, and a lead
that leaves during a fetch sets `shifted`.  `QueueExplained` is inductive as it
stands, given the shapes of leads and requests.

`WebSession_proofs` proves, for any tabs, queries, tokens, codes, limits and
bounds (`SessionAssumption`):

| Theorem | States |
|---|---|
| `OneRequestRefreshes` | `Spec => []OneRefresherServesAll` |
| `OnePageIsNoTheft` | `Spec => []AlarmsExplained` |
| `GuessesAreFew` | `Spec => []GuessesBounded` |
| `SessionTypeCorrect` | `Spec => []TypeOK` |

`Inv` has one part for each question.  `TabInv`: which requests a page can have
at all (`PageFits`), and that a request refreshes if and only if `refreshing`
names it.  `AwaitInv`: a refresh that is answered is awaited by one request.
`CodeInv`: the guesses made at a code and the attempts that are counted and not
yet compared come to no more than its attempts, and to fewer than the limit;
without the second summand the bound is not inductive.  `HandInv`: an answer
that is not stored yet is a token no other request and no cookie has.  `TheftInv`
says of the time before the first alarm that a token nobody presented is not
revoked, that one a single page presented has one request for it, which revoked
it (`TokenFits`), and that the page which presented the token of the cookie is
waiting for the answer (`ShowFits`): so it cannot present it again, and a revoked
token that is read was presented by two.  A log-out had to be counted among
those: with three page loads, which the run's bound does not reach, the one page's
orphaned refresh and another's log-out meet at the same token.

Every invariant and every action property of a passing run is stated by one of
these theorems, and so is the refinement of `RunSlots`.  Only model-checked is
liveness, which is out of the prover's reach, as is `ENABLED`: `PreparingEnds`,
`ClaimsEnd`, `QueuedRunsStart`, `EnabledUsersRun`, `TickEnds`, `OutboxDrains`,
`MailStored`, `TriageEnds` and `ProcessingEnds`.  `LogoutRevokes` is what a
document says and TLC refutes.

## 5. What the documentation says and the code does not do

One has a run that reports the counterexample (`expect: violation`) and an
entry in `findings` with the quoted line.  `LogoutRevokes`: a log-out that meets
an expired access token refreshes first, and revokes the refresh token from its
own body, which the rotation has replaced; the session the browser had lives on.

Others were met while modelling.  They are reachable in the modules and have no
run of their own:

* `job/service.go:178`: "Please try again" (`job/handler.go:357`) after a timeout
  is answered DUPLICATE_JOB for 24 hours, because the row of the request that
  timed out stays; and two requests at once pass the check for duplicates
  together, with no constraint behind it.
* `job/service.go:338`: a job whose page is closed does not "continue processing
  in the background" (`CreateJobModal.tsx:657`): `UpdateJobFields` and the upload
  are under the request's context, so it gets no title, company or PDF.
* `job/service.go:566`: a misaligned job "must not appear in the user's list"; its
  deletion runs under the deadline of the AI calls, its error ignored.
* `CreateJobModal.tsx:131`: "You can close this modal" while the job is processed
  is not so, and a row that will never be found done is polled until the page is
  left (`Unpollable`).
* `apply.go:242`: a cancel after the run loaded its batch is undone by
  `prepareOne`'s first save.
* `apply.go:68`: a dismissal ignores the error of its look-up.  If that fails,
  "cancelling a queued application" (`apply.go:35`) is left out, and the lead is
  dismissed and answered as such while its application stays queued and will be
  sent, or is being submitted, which line 69 means to refuse (`DismissUnseen` in
  `LeadReview` and `Applications`).
* `repo_leads.go:388`: `SaveApplication` writes the row whatever its status, so
  a handler that read it before it was submitted takes it back, though
  `server/docs.md:951` says submitted is "Done".
* `apply.go:139`: an application that waits for the user is not counted in the
  daily limit.
* `runner.go:74`: the sweep closes the row of a manual run that queued for its
  slot, and a second run of the user works beside it.
* `extension/.../runner.ts:430`: the answer to one report removes the newer
  report of the same application from the outbox; `runner.ts:448`: a released
  report sent again gives up a claim made since; `runner.ts:154`: a run that is
  ended while its document works leaves a watched tab that nobody watches.
* `auth/service.go:345`: two exchanges of one handshake both succeed;
  `auth/devices.go:174`: a failed query is answered as a revoked device;
  `auth/devices.go:162`: a failure to apply the cap is logged only, and the user
  keeps one device more until the next exchange.
* `inbox.go:271`: a crash after the mark loses the mail's outcome, which
  `server/docs.md:856` counts on.  A code mail whose triage failed three times
  or was skipped is still pending nowhere; `inbox.go:449` speaks of mail not yet
  triaged only.  With several processes a message may be asked about and alerted
  about once by each.
* `Review.tsx:309-314`: a refresh of `loadMore` that failed goes on to the next
  page with the old offsets and may skip a lead; a decision made while a page is
  loading clears `dirty` too early; the continuation acts on the tab then open.
  An undone dismissal of an approval leaves the lead to be reviewed, not
  approved; a bulk request that fails after its first chunk shows decided leads
  again; approving again does not repair an approved lead that has no
  application (`apply.go:51`).
* `useJobs.ts:183`: a failed deletion restores a snapshot that may be older than
  another move; a move on the board followed at once by the drawer of that job
  reads its detail before the move is written.
* `agent/runner.go:503-533`: a job added by address is looked up by ILIKE, while
  leads are keyed by the normalised address (`server/docs.md:1163`).

## 6. Not modelled, and why

* *Discovery* beyond its writes to leads, *resumes*, *chat*,
  the *AI client*: calls to providers whose answers are arbitrary, and rows
  written once with what they made.
* *Settings, users, analytics, mailbox*: single statements.
* *Rate limits*: what is refused is asked for again; the callers' modules take
  a refusal as a delay or a failure.
* *Field detection and filling* (`scanner.ts`, `filler.ts`, `combobox.ts`,
  `text.ts`): heuristics over the DOM of arbitrary sites; `FormFlow` takes what
  they find and whether they succeed as given.
* *The pages of the client and of the side panel*: they render server state.
  The four whose own state matters (sign-in, tracker, review, adding a job) are
  modelled.

What would come next: an abstract claim and report protocol that
`ExtensionRunner` and `Applications` both implement; discovery with its
statements one by one; liveness of `FormFlow`, whose instance is too large for
it now.
