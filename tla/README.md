# OpenClaw Startup HQ in TLA+

OpenClaw Startup HQ turns a founder's outcome into merged work: an objective is
decomposed into a graph of build tasks, every task passes a pipeline of agents
(product, architect, builder, reviewer, qa, security, release), and sweeps,
reconcilers and a dashboard keep the whole moving when agents stall, processes
die or seats run out of credit. This directory holds TLA+ modules for the parts
whose correctness is about order and interleaving, the TLC runs that check them
on small instances, and TLAPS proofs of what matters most for every instance.

Contents: [the system](#the-system), [the modules](#the-modules),
[the runs](#the-runs), [the proofs](#the-proofs),
[where code and documentation disagree](#where-code-and-documentation-disagree),
[what is not modelled](#what-is-not-modelled), [the plan](#the-plan).

## The system

Several processes work on one host: the **dashboard** server (boot recovery,
timers, the founder's console), runner scripts (`scripts/openclaw-factory.mjs`,
`scripts/factory-objective.mjs`), the **intent worker** (`scripts/hq-intents.mjs`)
and the **wakeup worker** (`scripts/factory-wakeup.mjs`). They share no memory.
They meet in the state store (one SQLite row per task or objective, each change
a transaction with a command id; a JSON file beside it is an export written after
the commit), in files (result files of agents, the wakeup queue, lease
directories), and in a remote blob store (the founder's intents). Inside one
process JavaScript interleaves only at `await`.

| Component | State | Operations | What makes it correct |
| --- | --- | --- | --- |
| Task engine (`factory/lib/task-workflow.mjs`, `openclaw-protocol.mjs`) | the task document: status, current stage, stage results, blocker, outstanding dispatch, dispatch history, recovery incident, verified commit, approval | prepare, mark running, ingest, fail, block, resume, resolve, approve, crash | the outstanding dispatch matches the engine; the pipeline is worked in order; repair is anchored and bounded; what is released is what was reviewed; a block has an owner |
| Stage runner and fan-out (`openclaw-runner.mjs`) | per process: where it is, the dispatch it works on, the members of a review group; result files; yielded markers | run to terminal, one stage, concurrent review group, yield to a delegate, bounded wait | only the engine's steps on the document, a verdict belongs to the build it judges, a task left alone ends |
| Auto-retry sweep (`hq/auto-retry.mjs`) | retries per task, the tasks of this sweep | resume an infrastructure block, drop an orphaned dispatch, run | bounded, free for seat pauses, never a second runner |
| Objective (`objective/*.mjs`, `hq/objective-reconciler.mjs`, founder's retry/answer/cancel) | graph of nodes, status, stamp of the driving process | run, resume, launch, settle, integrate, reconcile at boot and every ten minutes, retry, answer, cancel | built on work that passed, one run per node, runs end, orphans are taken up, cancel is final |
| Task lease (`leases/task-lease.mjs`) | a directory and a file per task | acquire, retire an expired one, renew, release, force | one owner |
| Wakeup queue and worker (`wakeups/*.mjs`, `hq/rewake-throttle.mjs`) | one JSON file behind a lock directory | enqueue, claim, defer, finish, run one stage under the lease | no wakeup worked on twice, attempts are failures, everything queued is settled |
| Founder intents (`control-plane/api`, `hq/intent-worker.mjs`, `scripts/hq-intents.mjs`) | blobs: pending, claimed, result | enqueue, claim, execute, report | an instruction is executed at most once and answered |
| Delivery (`hq/github-publish.mjs`, `hq/merge-reconciler.mjs`, the integration and publish parts of `objective/orchestrator.mjs`) | the publish record of each task, the integration branch and its merge log, the sweep under way; pull requests on GitHub | publish, record, integrate, republish, sweep: merge-ready to merged or complete | settled on what GitHub says, integration from branches that are reviewable or were skipped, a merge is noticed |
| State store (`store/*.mjs`) | per file: row, revisions, events table, command ledger, JSON file | import on first touch, mutate, replay, read, quarantine, export | one log per file, a command once, reads whole |
| Overnight queue (`dashboard/backend/lib/overnightQueue.mjs`) | items, run status, owner's pid; per process the child | add, remove, start, stop, run the next item, reconcile a dead runner | an item is run once and settled truthfully, the night ends |
| Founder's desk (`dashboard/backend/lib/founderControlPlane.mjs`) | one control file: threads, question, jobs, pause; calls in progress | open, post, reply, ask, answer, start a request, pause, restart | a reply shown as coming is coming, one job per request |
| Founder's console (the same file, `buildFounderOverview`, `buildFounderInbox`) | none, it reads tasks and objectives | decisions, inbox, work recovering by itself | what stopped is somebody's, one party's only |
| Mirror (`scripts/hq-publish.mjs`, `control-plane/api`, `control-plane/public/app.js`) | the publisher's memory, stored documents, the page and its session | build, decide, post, store, poll, draw | a page that polls ends up showing the company as it is |
| The rest: authority and evidence, learning, deployment, outbox, budgets, sessions | see PROJECT.json | | mostly functions of stored data |

**How they interact.** `runObjective` creates a task for every ready node and
calls `runToTerminal` on it; the runner drives the engine one transaction at a
time and calls agents in between, for up to an hour each; the sweep, the
founder's retry and answers, and the objective reconciler revive tasks and nodes
and then start runners of their own; the wakeup worker runs one stage under a
lease; the merge reconciler closes tasks whose pull request was merged; the
overnight queue starts objectives as child processes. All of them write the same
task documents and objective rows, through the state store; the console and the
mirror show the founder what is in them.

**What is hard.** An agent call lasts an hour, and anything may happen to the
task meanwhile. Runners die and their agents live on. A dispatch id is
recomputed from history, so history must never make two of them equal. Four
routes lead back to the builder and each must invalidate what was judged before.
Three budgets (verdicts, infrastructure failures, repair attempts) hand a
failing stage to each other. Sweeps decide from ages and stamps whether work is
orphaned. Decisions are read before an await and acted upon after it. Two
processes rewrite one control file without a lock. GitHub answers late, posts land
late, and the store's own steps may be cut anywhere. PROJECT.json
lists these hazards at the lines where they bite, with the properties that would
catch them, or the reason why none does.

## The modules

`TaskWorkflow` is the abstract specification of a task; `StageRunner` refines
it, `TaskConsole` reads it. `Objective` uses the task as it looks from outside;
`ObjectiveConsole` reads it, `Delivery` takes up where its nodes and its
integration are finished. `AtomicStore` is the abstract specification of a state
file and `StateStore` implements it. `WakeupWorker` and `TaskLeaseHistory` extend `TaskLease`. `IntentQueue`,
`OvernightQueue`, `FounderDesk` and `Mirror` stand alone. `MC*` modules hold the
values TLC is given, `*Proofs` modules the theorems: `TaskWorkflowProofs` those of the
engine and the console, `StageRunnerProofs`, which extends it, those of the runner,
`ServicesProofs` those of the delivery and of the night, the others those of the module
they are named after. `MCStoredState` and `MCServices`
hold three parts each that share no state: a variable `part` chooses one at the start
and only that one moves, so a run explores the sum of the parts and never their
product. They extend the parts' modules, so each property is the one its module states and
a theorem proves; a part at rest does not change and keeps its properties as it is.
`MCWakeupWorker` has two parts in the same way, the workers and the lease alone; only the
second keeps the history that `OneOwnerUnlessStrayed` asks for (in the first `strayed` is
true from the start).

### TaskWorkflow

One action per command, since each command is one transaction. `task` is the
document; `head` is the worktree's HEAD, `started` the ids whose `running:<id>`
key is in the store's ledger, and `built` a history variable (HEAD at the
builder's last pass).

| Action | Code |
| --- | --- |
| `PrepareDispatch`, `MarkDispatchRunning` | `prepareNextDispatch`, `markDispatchRunning`: the fresh id (`DispatchId`), the refusal of a spent one, the ledger's replay |
| `IngestStage` | `ingestResult` on a stage: `completeStage`, the freeze of the verified commit, the release gate, closing of the dispatch, routing back or opening a repair, in that order |
| `IngestInfraFailure` | the result the fan-out writes for a member whose call failed |
| `IngestRecovery` | `ingestResult` on a diagnose or verify phase: `recordRecoveryResult` |
| `FailDispatch`, `BlockDispatch` | no usable result; a control-flow failure parked for the founder |
| `RunnerCrash` | `recordRunnerCrash`: anything thrown out of a runner |
| `FounderResume`, `ResolveFounderDecision`, `RecordFounderApproval` | `resumeState` behind its three callers |
| `SweepBlocked`, `SweepOrphan`, `RecoverOrphanNode` | `hq/auto-retry.mjs`, and `recoverTask` of an objective |
| `NewCommit` | an agent, or anybody, commits to the worktree |

Failure text is abstracted to the classes the engine's regular expressions tell
apart (`Cause`): infrastructure, the factory itself, merge conflict, other. A
stage result keeps its verdict and the commit its manifest is bound to. `Outcome`
is what an agent reports; `End` is how a dispatch entered the history, which is
what the budgets count.

### StageRunner

`run[r]` is a process's place in `runToTerminal`, the review fan-out or
`runOneStage`; one step of it is what the code does between two points where
another process can act: a transaction, a file operation, a call that returns.
`results` are result files (with the commit they were written against, a history
field), `agents` the dispatches some live agent works on, `yieldedIds` and
`yieldedGroup` the markers left for delegates. `Kill` is process death at any
step, agents surviving it; `Throw` is an exception nothing in the runner catches.
`StartRun`, `FounderRetry`, `SweepRun` and `ObjectiveRecovers` are the four ways a
runner comes to a task. The module's promise is `ImplementsWorkflow`: its
specification implies `TaskWorkflow`'s, under the identity mapping of `task`,
`head`, `started` and `built`.

### Objective

A *driver* is one call of `runObjective`, in the dashboard or elsewhere. `pc`
follows `driveObjective`, `flight[d][n]` the run of one node inside it. JavaScript
runs to the next await undisturbed: `Turn` and `Clear` state that a driver in a
synchronous section excludes the others of its process, `boot` and `MidSweep`
that the reconciler at boot and the sequential auto-retry sweep hold the
dashboard as they do. A node's task is reduced to what a run leaves behind
(`TaskOutcome`): merge-ready, a decision, a hard block, an infrastructure block,
or still active with a delegate. `stale` marks tasks nobody wrote for 90 minutes;
`runner` is the stamp, which reads `gone` once its process is dead. `Kill` is a death
anywhere; `ReconcileCutShort` and `RetryCutShort` are deaths inside
`resumeObjectiveNodes`, which writes a part's task, then the part, and at last what
waited for it: any number of parts are done, one may have its task written only.

### TaskLease, TaskLeaseHistory and WakeupWorker

Acquire is four file operations by a process that sees others' operations in
between: read, rename of an expired directory, `mkdir`, write of `lease.json`;
renew, release and an operator's force (`ForceReads`, `ForceRemoves`) are two each.
`Lapses` says which early ends exist (expiry, force). `TaskLeaseHistory` adds one history
variable: `strayed` says that an operation acted on a lease other than the one it was
decided on. `Strays` lists the four ways: a claimant retires a lease that has not expired
(`RetiresAnother`), one that lost its lease removes or rewrites its successor's
(`HitsAnother`), of two processes with one run one gives the lease back (`LeavesPartner`),
an operator removes another than was read (`ForcesAnother`). `WakeupWorker` adds the queue file: a lock directory, a read, a
rename. `seen[p]` is the copy a process will write back. `Busy` is the lock's
refusal, which the worker meets at four different places with four different
consequences. The throttle is its verdict (`Check`), with the one promise the
properties need: after a cooldown a held wakeup is allowed (`CooledDown`).

### IntentQueue

Three sets of blobs (`pending`, `claimed`, `results`); `call[c]` is a request that
claims, one blob operation a step: `List`, then for each entry `Find`, `Read`,
`Put`, `DeletePending`, and `Answer`. The worker asks (`Request`), may time out and
ask again while the handler goes on (`GiveUp`), runs what it was given one after the
other (`Execute`) and reports (`Send`, `PutResult`, `DeleteClaimed`). `Fails` is an
operation of the blob store that fails, after or before it took effect where the
code cannot tell; `HandlerDies` the platform's end of a request; `Kill` the worker's.
`order` is a history variable: the instructions in the order they were run.

### StateStore and AtomicStore

`call[p]` is where process `p` is in `mutateTransactionalState` or
`readTransactionalState`; each statement or transaction on the database and each
operation on the file is a step. A document is its events, the count of events
windowed away and whether it is failed; a command adds one event of its own name.

| Action | Code |
| --- | --- |
| `TouchRow`, `TouchDamaged`, `TouchNothing`, `TouchFile`, `ImportLegacy`, `ImportDamaged` | `ensureImported` and `importLegacyState`: the first touch of a file that predates the database |
| `Replay`, `HitCeiling`, `Abort`, `NoChange`, `Commit`, `TransactDamaged` | the branches of `mutateEntity`'s transaction: the ledger's answer, the failure freeze at the size ceiling, a stale revision, nothing to write, the write with its window and projection, quarantine |
| `Peek`, `Export` | the re-read after the commit and the JSON file written from it |
| `StartRead`, `Rehydrate`, `Finish` | a read: the row, then the events table |
| `WriteBack` | a caller that took such a read, decided outside and calls `writeState()` |
| `Crash`, `Fill`, `Damage` | death between two steps, the ceiling passed, a row that stops parsing |

`History` is what a reader is to be shown: the document with its windowed part taken
from the table, without the ceiling's own mark. `ImplementsAtomicStore` says that under
this mapping every step of every process appends one new command to one log, marks it
unreadable, or changes nothing. It is the assumption under which `TaskWorkflow`,
`Objective` and `OvernightQueue` take a mutation as one step. `NoEventTwice` is the
promise that `Outsiders` (processes that use `WriteBack`) break.

### OvernightQueue

`at[p]` is where process `p` is in `add`, `remove`, `start`, `stop` or `runNext`; each
store mutation and each read a decision is taken on is a step. `Call` is the
reconciliation every operation begins with (`Alive`: its own pid by `rootInFlight`,
another's by the operating system). The commands of an item have fixed ids, so a
second process replays them: `started` and `said` are the ledger's answers. `spawned`
and `earned` are history: how often a child was spawned, and which ended well.

### FounderDesk

A process reads the control file, decides and writes it whole; read and write are two
steps (`act[p]` is the new file in hand), because the other process may write in
between. `stale` marks a copy that was overtaken, `clobbered` that such a copy was
written. `runs` are the calls to agents and planners that outlive the write.
`OpenThread`, `DeleteThread`, `PostTurn`, `ReplyTo`; `Ask`, `Record`, `Take`, `Answer`;
`StartRequest`, `Planned`, `JobEnds`, `AgeOut`; `TogglePause`; `Boot` and `Die` are
the operations.

### TaskConsole and ObjectiveConsole

Read-only projections: `InboxKinds`, `AutoRecovering` and `InInbox` are the founder's
overview and inbox, `Revivable` and `SweepTakes` what the auto-retry sweep takes. They
add no state; the properties relate them in every state of the engine and of the
objective.

### Delivery

`run[t]` is a task's runner from its release stage on: `Release`, `Publish`,
`RecordPublish`, `Settle`; for the integration also `Integrate`, with what it merged
in memory. A runner may be thrown at any of these points (`Die`, `LateThrow`), a
publish that failed is tried again (`Republish`) and a stopped node is resumed
(`Resume`). `Publish` may be `skipped` in any project: a refused capability, whatever else
throws, publishing switched off, a default branch and a worktree without an origin give a
result that names no repository, and `Published` (`classifyNodePublish`) lets it pass. `sweep` is `reconcileMergedTasks`: `Visit` reads a task, `Answer` is
GitHub's, now or after much has changed, or none; `Apply` is the transaction, which
reads the status again. `Decide` is the founder on GitHub. The stages before release
are one step: their order is `TaskWorkflow`'s and `Objective`'s matter.

### Mirror

A document is the version of what it was built from. The publisher's memory of what
it sent, its heartbeat, posts that fail, time out and land later (`late`) or never,
a publisher that dies and forgets; the page's screens, timer, and loads under way,
each drawn when it arrives, whatever happened since; sessions that expire.

## The runs

Every run finishes within a few minutes with two TLC workers. Deadlock checking
is off where stopping is right: a task that is merge-ready or waits for the
founder has no step of its own left, and the bounds below stop the rest.

| Run | Question | Instance |
| --- | --- | --- |
| `stored_state` | Do crashes, resumes, decisions, approvals, sweeps and foreign commits, in any order, keep the document consistent, repair bounded, ids fresh, the approval respected, the released tree the reviewed one, and every stop in one party's hands? Does the founder's desk keep its promises under two processes and restarts? Is the store one log? | task: high-risk, 4 stages (architect, builder, qa, release), 4 dispatches, 1 foreign commit; desk: dashboard and worker, 2 threads of which 1 is kept, 2 turns, 2 jobs, 3 starts of a process; store: two processes, one repeatable and one fresh command, window 1, a file absent, garbled, of 1 or 2 events, ceiling and damage |
| `runner_steady` | Does a fan-out whose first member rejects ever let an old verdict pass the new build? | 5 stages with reviewer and qa as a group, one start, delegates, a commit by somebody else, 6 dispatches: one rejected round and the next to its end |
| `runner_implements` | Is every step of every process a step of the engine? | two runners, two starts, the review group, kills, throws, delegates, 3 dispatches |
| `runner_unattended` | Does a task nobody attends end, whoever dies, and on budgets alone? | one runner slot, 3 stages, one automatic retry; 20 dispatches are never used up (`SpendIsBounded`) |
| `runner_stale_verdict` | *(violated)* The question of `runner_steady`, with kills and a second start | the same group, no delegates |
| `wakeup_queue` | Is each wakeup in one pair of hands, are attempts failures, is everything queued settled? Can two processes own a task when every operation hits the lease it was decided on? | two workers, two wakeups of one task, two attempts, expiry, force, kills; for the second question two processes that call the lease's operations in any order, each for either of two runs |
| `intents_answered` | Is an instruction of the founder run at most once and in order, is none forgotten, and does each get its answer or an end the code accepts? | two claim requests at once, one worker, 3 instructions, a request lists 2, 2 may be pending before a post is refused, one fault of any kind but a failing delete of a pending blob |
| `objective_run` | Is work built on work that passed, does no node run twice, does every run return, is what a restart left taken up, and is a part that stopped in the inbox or in the sweep's or the reconciler's hands? | two chained nodes and the integration, two calls in the dashboard, two founder commands, one retry, one periodic resume, one death, also inside a recovery, every outcome of a task |
| `objective_cancel_undone` | *(violated)* Is a cancelled objective left cancelled? | one node |
| `services` | Is each item of the night run once and settled truthfully, does the night end? Is work settled on evidence, integrated from branches that are reviewable or were skipped, and its merge noticed? Does the page catch up? | night: one process with 2 items and 3 incarnations, or two processes with 1 item and 2; delivery: one node and the integration, with or without a repository, one sweep that dies; mirror: one task, one publisher, one change, one fault, two loads at once |
| `store_event_doubled` | *(violated)* Is a reader shown every event once? | two processes, the worker one that reads and then calls `writeState()`, 3 commands, window 2 |
| `delivery_log_lost` | *(violated)* Does the merge log of a finished integration name what is in it? | two nodes |

### Bounds

- `MaxDispatches` and `MaxCommits` bound a task's history. In `stored_state` four
  dispatches reach the builder twice or the release once, and every action fires;
  the budgets (2 verdicts, 2 infrastructure failures, 1 at a gate, 1 repair per
  incident, 3 per task, 2 seat pauses, 1 automatic retry) are small enough for the repair ceiling to be
  reached within them. In `runner_unattended` the bound is above what the
  budgets allow, so the liveness checked there does not come from it.
- `MaxStarts` bounds the runs somebody starts; the sweep's are bounded by the
  code's own `max`. Two starts are two runners at once, or a runner and its
  successor.
- In `objective_run`, `MaxStarts` counts runs, retries, answers and cancels
  together: two of them are a run and one thing that interferes with it, and the
  reconciler and the auto-retry sweep come on top. Two nodes in a row have a
  dependency, a waiting dependent, and an integration. A join of three nodes was
  explored for the safety properties as well.
- In `intents_answered`, one more entry is listed than faults can leave unreadable
  or stranded (`ListLimit` above `MaxFaults`): an entry nobody can read stays at the
  head of the list, and a list full of them would hold up the rest. The code's
  numbers are 20 a request and 200 pending.
- The desk of `stored_state` is followed until the first lost update of the control
  file: what a clobbered file holds is arbitrary, and the properties except it. Two
  threads of which one is kept make the trimming happen; two jobs are a request and
  its duplicate; three starts are two processes and one restart. A behaviour uses one
  of threads, questions and jobs: they meet in the file only, which each of them writes
  together with the pause.
- The store of `stored_state` has a window of one event, so the second event of any
  document is windowed away; two processes and two commands are a replay, a race and
  a first touch by both. Files of one and two events are as long as the window and
  longer.
- In `services`, two processes that share the night can both spawn a child for one
  item; a second item and a restart between two items need one process only. One node
  and the integration are the smallest objective with a delivery through another
  task's pull request; what two nodes add is in `delivery_log_lost`. One fault and one
  change of the mirror let a late post overtake, or be overtaken by, the one that
  follows it.
- Two wakeups, two workers and two attempts are a retry, a dead letter and a
  worker that comes between.
- The lease is asked about in a part of `wakeup_queue` of its own (`MCWakeupWorker`):
  the workers' order of calls is one of many, and none of them renews or forces. Two
  processes are one whose lease lapsed and one that wants it next, or two claimants of
  an expired one; two runs let them share a run or not. Each of the four ways in `Strays`, and each
  half of `HitsAnother`, is needed: without it TLC finds two owners that are not
  accounted for.
- One death in `objective_run` may fall anywhere, and what it leaves is then swept,
  retried, answered and driven. With two deaths the run takes twice as long and shows
  the same.

### Fairness

- `UnattendedSpec` (`runner_unattended`): runners take their steps, agents write
  or die within the hour, and the sweep runs every three minutes. Kills have no
  fairness and are not bounded either; they are paid for by the sweep's retries.
- `WorkerSpec`: every worker is invoked again and again (a scheduler runs the
  script), and deferrals come due.
- `IntentQueue`'s `Fairness`: a request handler and a report run to their end unless
  the platform ends them, the worker polls every 30 seconds and works its batch
  off. Nothing is assumed of the founder, and a worker may be killed again and again.
- `Objective`'s `Fairness`: drivers proceed, tasks end, 90 minutes pass, the
  reconciler comes at boot and every ten minutes, the auto-retry sweep goes on to
  its end. Nothing is assumed of the founder.
- `NightFairness`: a process that is up finishes the call it is in, and a child ends
  (strongly fair: a process may die and start another). Nobody is assumed to start,
  stop or restart anything.
- `DeliveryFairness`: while a task waits for its merge, sweeps follow one another (a
  timer of the dashboard) and go on to their end, and GitHub does not fail to answer
  about one pull request for ever (strongly fair: it may fail many times). Nothing is
  assumed of runners or of the founder.
- `MirrorFairness`: while somebody looks, the publisher is restarted when it dies (a
  service manager runs it); its requests are answered or time out, the heartbeat comes
  due; a page whose timer runs loads, and its loads return or fail (`request`
  aborts them after its timeout). Faults are bounded, since a mirror that never gets through
  shows nothing new.

## The proofs

TLAPS proves the following for every value of the constants that satisfies the
modules' named assumptions (`StagesAssumption`: something precedes the builder, the
builder its reviews, and the release is last) and the hypotheses in the last column: any
pipeline, any graph of nodes, any budgets, any number of processes, requests, wakeups,
commands and items.

| Theorem | Says | Hypotheses |
| --- | --- | --- |
| `TaskWorkflowProofs`: `TypeCorrect`, `DispatchAlwaysMatches`, `PipelineAlwaysInOrder`, `RecoveryAlwaysAnchored`, `BuildAlwaysAuthorized`, `BlockAlwaysHasOwner`, `AlwaysSomebodys` | the invariants of `stored_state`: the dispatch is of the engine's work, the order of the stages, the anchor of a repair, the approval gate, the owner of a block, inbox or sweep but not both | |
| `RepairIsBounded`, `IdsAreFresh` | the counts: repairs of an incident and of a task; no id twice, none spent | |
| `SeatPausesAreFree`, `ReleasesAreReviewed` | action properties: a pause costs nothing; what is released is what was built and reviewed | the second: `HeadReadable` |
| `StageRunnerProofs`: `RunnerImplementsWorkflow` | `RunnerSpec => ImplementsWorkflow`: each step of each process is a step of the engine or leaves the task alone | |
| `RunnersKeepDispatchMatched`, `RunnersKeepPipelineInOrder`, `RunnersKeepEnginePromises` | so what is proved of the engine holds of the processes | |
| `LeftAloneSpendsAtMost`, `SpendAlwaysBounded` | a task the founder does not touch gets at most `SpendBudget` dispatches; so a larger bound of the model is never reached | the second: `MaxDispatches > SpendBudget` |
| `VerdictsAlwaysFresh` | a gate's pass comes from an agent that finished after the build it judges, under `SteadySpec` (no kills, no throws) | `Runner = {R}`, `GroupInOrder` |
| `IntentQueueProofs`: `IntentTypeCorrect`, `NothingEverForgotten` | types; an accepted instruction is always in the store | |
| `RunsOnce`, `RunsInOrder` | no instruction is run twice; they are run in the order of posting while no fault has occurred | `OneWorker`; the first: `DeletesWork` |
| `WakeupWorkerProofs`: `AlwaysOneWorkerPerWakeup`, `AttemptsAlwaysFailures` | a wakeup is in one pair of hands, an attempt is a failure; lapses and kills included | |
| `LeaseTypeCorrect`, `LeaseIsExclusiveUnlessStrayed` | types; with expiry, force and deaths, a task has one owner as long as no operation has hit a lease it was not decided on | |
| `ServicesProofs`: `AlwaysSettledOnEvidence`, `AlwaysReviewableOrSkipped` | settled on what GitHub says; when the integration starts each node has a pull request or its publication was skipped | the second: `IntegIsNoNode` |
| `AlwaysHonestItems` | items are settled truthfully, spawned once by each process, none left running alone | `NightBounds` |
| `StateStoreProofs`: `StoreIsAtomic`, `AlwaysReadsAreWhole` | the store implements one atomic log; a read is a prefix of it that has everything counted | `Outsiders = {}`, `Window` positive, `Named`, `FromBefore` |
| `FounderDeskProofs`: `AlwaysRepliesAreComing`, `AlwaysOneJobPerRequest` | short of a lost update, a reply shown as coming is coming and a request has one job | jobs are numbered |
| `ObjectiveProofs`: `AlwaysBuiltOnDone`, `AlwaysStoppedHasCause`, `AlwaysOneRunPerNode`, `DoneIsKept`, `AlwaysStopsAreSomebodys` | built on work that passed; stops have causes and owners; one run per node; done stays done | `AllInDashboard` |

**The engine.** None of the invariants is inductive alone. `IInv` is `Core(task)`,
`Owned(task)` and the types of `head` and `built`. `Core` is what holds of the
document at every point *inside* a command as well: its type, the order of the
pipeline, the anchor of an open repair, the approval gate, where a blocked task is
parked and for whom it waits. `Owned` is what is only restored when the command
closes its dispatch: the outstanding dispatch belongs to an active task, to its
current stage and to the open phase. A command is a composition of operators
(complete the stage, freeze, route back or open a repair, close the dispatch), so
there is one lemma per operator, which says what it needs of the document and that
it returns `Core`, and one lemma per action, which composes them and adds `Owned`.
The lemmas `...Fields` list what an operator leaves as it was; they are what keeps
the proof of an action from expanding everything at once. `DispatchIdTyped` rests on
`SuffixExists`: finitely many spent ids leave a free suffix, so the loop that looks
for one ends.

For the counts, the owners and the pauses the fourteen actions are too many, and they are
alike. `StepShaped` shows once that every step has one of four shapes: it *prepares*
a dispatch, *marks* it, *closes* it (appends one record and moves the open repair at most)
or *revives* the task (drops what was out and clears the blocker). Each later invariant is
then shown to survive four shapes. `CalmInv` adds that a task that is not blocked has no
blocker and that a pause asks nobody. `BoundedInv` bounds the attempts of every incident and
knows that none is of an incident yet to come, without which a new one could start
above its budget. `IdsInv` is what makes an id computed from history fresh: every recorded
id carries a number no larger than the count it was made from (`Dated`), and an outstanding
one is the next (`OutIsNext`). `FrozenInv`, that the frozen commit is the one the builder
last left, needs `HeadReadable`: `assertReleaseReady` skips the comparison when HEAD cannot
be read, and the claim is false there (see below).

**The runner.** The refinement mapping is the identity on `task`, `head`, `started`
and `built`; a step of a process is either one engine command or moves only files,
agents and places. The engine's invariants and action properties then hold of
`RunnerSpec` by citing the refinement. The model's bound on starts does not appear in
the argument.

**What a task spends.** The engine's counters do not bound a task one by one: the
sweep's retries start afresh at every pass of a stage, pauses in a row at every end that
is not one, and a rejection or a repair sends the task back over stages it had passed.
`Cost` weighs what is left so that whatever fills one budget again has used up a heavier
one. Heaviest is `Tries`, the rejections and faults the four gates have left and the
repairs, with the two steps each has; then the stages still ahead (`Away`); then the
sweep's retries; lightest the pauses in a row (`SeatSlack`). A dispatch that ends lowers
`Cost` by one at least, whatever it ended in, and no other step raises it, so
`Len(task.dispatches) + Cost(task)` never grows (`SpendInv`); `SpendBudget` is what that
sum begins with. It is a bound and no estimate: on the instance of `runner_unattended`
it is 171, and the run shows that 20 are never spent.

**What a verdict judges.** `VerdictsAreFresh` compares a result file's commit with the
builder's last pass when the file is consumed, and by then nothing says where the file
came from. `FreshInv` says it all the way. A file, or an agent that may still write one,
matters only while its gate's id is not on the record (`Live`); since ids are fresh,
what was recorded is spent. `FileInv` keeps every live file at or after the build. When
the builder passes, that would be false at once if a live file lay about. So `PlaceInv`
says for each place of the runner whose ids may be live: those that are out or were
yielded while it is on its own (`Free`, `Works`), the members of the fan-out while it
waits (`Fanned`), the members left to apply, in the order of the pipeline and from the
current stage on (`Applies`), or those it is putting away (`Discards`). `GroupInv` ties
a yielded fan-out to the one that would be started now. With one runner these are all
the places there are, hence `Runner = {R}`: of several at once nothing is proved. Nor
may it be killed: that leaves a fan-out half applied (`runner_stale_verdict`).
`GroupInOrder` says that the gates of the group follow each other in the pipeline, as
those of `DEFAULT_CONCURRENT_GROUPS` (`openclaw-runner.mjs:44`) and
`factory.config.json:45` do; the code does not check it of a configured group, and with
the group reviewer, security, qa TLC finds a verdict on an older build.

**The lease and the wakeups.** The claim about the lease is made where it matters, with
leases that expire under their owners, operators and deaths. As it stands it is false
there (two claimants of one expired lease), so `TaskLeaseHistory` says when: only after
`strayed`. `LeaseInv`
says what holds before: `LeaseShape`, what is on disk and where processes are, and
`Exclusive`, that whoever is about to write `lease.json` (`Writers`) made the directory
that is there and is alone, and that every owner's run is in it, unexpired. The steps
that break `Exclusive` are the ones `Strays` names; each other step keeps it. `QueueInv` does
without the lease: what a worker in the lock has read is the queue as it is, and a claimed
wakeup has failed less often than its maximum.

**The intents.** `ForgetInv` adds to the claim the order of every move: at the delete
of a pending blob its claim, or its result, has been written; at the delete of a
claim its result has. `OnceInv` says that what a request has in hand and what a
worker was given was accepted, has not been run and is no longer pending; no two
hold the same. `DeletesWork` is not a convenience: without it the claim is false.
`OrderInv` adds the order: whatever is claimable comes after what any request that
still answers a waiting worker has in hand, and that after what was run. After a fault it
is false, and so is the order, which is why `InOrder` speaks of behaviours without one.

**Objectives.** No lock keeps two runs of an objective from one node. What does is that a
call reads the ready list and launches from it in one turn of its process (`Listed`,
`OneTurn`), that a node in flight reads `running` to everybody else and is in one flight
(`Flights`), and that the reconciler, which may take a running node back, stays away while
the objective carries a living process's stamp (`Stamped`). `Grounded` and `Topped` are
the graph's side: whatever was ever launched stands on nodes that are done. `Links` ties a
part's record to its task. The hypothesis `AllInDashboard` is the last of the three at
work: the stamp names one process, a second process that drives the same objective
(`orchestrator.mjs:755`, listed as a hazard) overwrites it, and with it go
`OneRunPerNode` and `StoppedHasCause`.

**The store.** `Counts(d, t)` says what a document `d` knows of the events table `t`: how many of its
events it has counted, and that the events it still holds whole are those. The row
counts all of them and a copy read earlier a prefix; so the history that readers
are shown is the table as soon as there is a revision (`HistoryIsTable`). `CallOK` says it
of every document a call has in hand, by its place. The mapping to `AtomicStore` is then
checked action by action. `Outsiders = {}` excludes the callers that hand a rehydrated
document to `writeState()`: with them the refinement is false, as `store_event_doubled`
shows. `Named` and `FromBefore` say that events of a file from before the database are
not named like a command's, and that the ceiling did not exist when it was written.

**The desk.** The control file has no lock. The invariant says of the file, and with the
same words of every write that is pending and not overtaken, that each job in flight is
one and that each conversation shown as running has its call. A write that was overtaken makes
`clobbered` true and ends the claim.

**The delivery.** `Evidence` follows a fact from GitHub to the status it ends in: what a run
or record says of an empty branch, what the sweep has heard, which branches a merge log may
name. `Order` ties a node's place to the status of its task and the place of its runner.

**The night.** That an item is spawned at most once by each process is a count: a spawn that is
still owed is owed from the moment the item was chosen, and it is chosen only before
anybody started it. `Counted` bounds spawned and owed together by the number of
processes. `AloneInv` ties each place of a lone process's call, its child and its flag to
the owner of the queue. `NightBounds` says that the bounds are numbers and each set of
processes is finite.

**Only model-checked.** Liveness under fairness, `ENABLED` and induction over data are out
of the prover's reach, so `UnattendedEnds`, `EveryWakeupIsSettled`, `EveryIntentSettles`,
`RunsEnd`, `OrphansAreTaken`, `NightEnds`, `MergesAreNoticed` and `PageCatchesUp` are
checked on the instances above. Every safety property of a passing run, invariant or action
property, is also a theorem. The properties of runs that expect a violation are false.

## Where code and documentation disagree

Four disagreements have a run whose counterexample shows them, and an entry under
"findings" with the lines:

- `runner_stale_verdict`: a process that dies after the first member's rejection
  leaves the other members' result files, and the next round takes them for verdicts
  on the new build (`openclaw-runner.mjs:656`).
- `objective_cancel_undone`: a cancel during the integration is overwritten
  (`orchestrator.mjs:883`).
- `store_event_doubled`: a document that was read with its whole history and handed to
  `writeState()` still counts the windowed part as dropped, and the projection inserts
  it again (`sqlite-state.mjs:60`; the callers are listed in the finding).
- `delivery_log_lost`: an integration that runs again after its builder stage replaces
  its merge log by an empty one (`orchestrator.mjs:375`), and the sweep that settles
  nodes by that log never does (`merge-reconciler.mjs:172`).

The others were met while modelling. Where a module is named the model contains them,
and the properties that are checked are the ones that hold in spite of them; the rest
lies in detail the models leave out.

The engine, the runner, leases, wakeups and intents:

- A crash deletes the outstanding dispatch without a record (`openclaw-runner.mjs:513`),
  so its id is computed again, against `openclaw-protocol.mjs:193` ("A dispatch id must
  be unique for the life of the task."); the sweep keeps the dropped one for that reason
  (`hq/auto-retry.mjs:169`). `NextIdIsFresh` speaks of the recorded ones.
- `writeState()` replaces the row by a document that was read before; what another
  process committed in between is undone. `recordKnowledgeInjection`
  (`learning/handoff-inject.mjs:111`) does it after every prepared dispatch and accepts
  the window in its comment.
- A result with deferred decisions completes its stage as a pass and is still counted
  as a verdict against it (`openclaw-protocol.mjs:463`; `task-workflow.mjs:417` says a
  success must not be charged). `VerdictCount` counts it.
- An unreadable HEAD leaves the commit of the earlier build frozen, and the release
  gate skips the comparison (`openclaw-protocol.mjs:461`; `:363` says the gate reports
  it). The runs keep `HeadReadable = TRUE`.
- Two claimants that have both read an expired lease both own the task: the second
  renames away what the first was just granted (`task-lease.mjs:86`). The tests say
  "100 contenders produce exactly one owner" and "expired owner can be atomically
  replaced" (`factory/test/task-lease.test.mjs:10`, `:25`). It is `RetiresAnother`, the
  first of the four ways of `Strays`.
- Nothing renews the lease of a worker while it runs a stage: the heartbeat is handed
  out (`wakeups/worker.mjs:37`) and `runOneStage` takes none. After 60 seconds a second
  worker may run the task beside the first (`Expire` before `RunEnds`), against
  `PAPERCLIP_FINAL_COMPARISON.md:60`, which lists "Two runners could drive one task" as
  a gap that is closed.
- A process that dies between `mkdir` and the write of `lease.json` leaves a lease
  nobody can ever take (`task-lease.mjs:21`, against
  `docs/software-factory/PAPERCLIP_WAKEUP_WORKER.md:23`).
- A failure that cannot be recorded because the queue is busy leaves its wakeup
  claimed for ever (`wakeups/worker.mjs:42`), as does a worker killed after its claim
  (`wakeups/queue.mjs:45`, against `PAPERCLIP_WAKEUP_PROTOCOL.md:13`);
  `EveryWakeupIsSettled` names both. A wakeup that is queued again before its lease is
  released lets three workers act on one task (`worker.mjs:36`, `:46`).
- A yielded dispatch whose delegate never answers is dropped by nobody but the sweep
  (`hq/auto-retry.mjs:123`); a runner may come to the task before it.
- Two processes may work on one dispatch: the claim is a replayable command
  (`openclaw-runner.mjs:145`; the comment at `:117` says it is never claimed twice).
- An intent whose pending blob could not be deleted is claimed again once its report
  has removed the claim (`control-plane/api/_lib/queue.mjs:183`; the comment at `:191`
  says never a double execution). Two workers may also meet on one: the first one's
  report removes the claim the second is about to write. `hq-intents.mjs` is
  configured as one process.

Objectives and delivery (`Objective`, `Delivery`):

- A publication refused or thrown before the repository is named counts as skipped. The
  comment at `orchestrator.mjs:189` says: "A build node may proceed without a PR only when
  GitHub publication is not configured for the project. Once a real target is resolved,
  the node must have a reviewable PR URL before integration can start." But
  `classifyNodePublish` (`:194`) returns `skipped` for every result without `ownerRepo`:
  the refusals at `github-publish.mjs:150`, `:178`, `:183` and `:194` (the last one after
  the target was resolved) carry none, and `publishAndRecord` turns whatever throws into
  a result with nothing but a reason (`openclaw-runner.mjs:313`). In a project that has a
  repository such a node reaches its gate and the integration starts without its pull
  request. `Publish` and `Published` have this, so `ReviewableOrSkipped` claims what is
  left: no node's publication is owing, empty, failed or lost when the integration starts.
- The sweep reports a node's success in the objective's JSON file
  (`hq/auto-retry.mjs:58`; its comment at `:36` says it reconciles the objective), which
  is the export of the row and is read by nobody who matters: a node whose task the
  sweep finished stays blocked and is in no list. `StopsAreSomebodys`, which otherwise
  holds at every moment, driven or not, excepts it.
- A late throw of a second runner spares merge-ready, verified and complete tasks but not
  merged ones (`openclaw-runner.mjs:496`; its comment says that a task that finished is
  never re-opened by one): a task the sweep has settled becomes blocked (`LateThrow`), and
  with its current stage cleared by the release it has none to resume at.
- A build node with no changes is blocked by the orchestrator for want of a pull request
  while the sweep settles its task as complete; a node whose task is merged or complete
  is recorded as failed when it runs again; a node whose task reached merge-ready before
  its runner died is not resumable. `Delivery` has all three and nothing says otherwise.

The store and the night (`StateStore`, `OvernightQueue`):

- After a quarantine the row is gone and its revisions stay, so every re-import
  conflicts on revision 1 and the file's last export is never taken up again, against
  `docs/software-factory/TRANSACTIONAL_STATE_STORE.md:76`. A first import that meets a
  damaged row rolls the quarantine back with its own transaction
  (`sqlite-state.mjs:624`). `AtomicStore` calls such a store unreadable.
- The ceiling's own event is in the document and never in the events table; the export
  may be an older revision written last.
- Two processes may spawn a child each for one item: the start of the item is replayed
  to the second (`overnightQueue.mjs:150`, against `hq-intents.mjs:179`, "stops a second
  runner starting"). `ItemsAreHonest` bounds it by the number of processes. A mutation
  that throws inside `runNext` leaves `rootInFlight` set, and the process then counts its
  own night as alive until it is restarted; the model has no failing mutation.

The desk, the console and the mirror (`FounderDesk`, `TaskConsole`,
`ObjectiveConsole`, `Mirror`):

- The control file is rewritten whole by two processes without a lock: an answer, a
  thread or a job may be lost (`clobbered`). The dashboard's boot answers again a
  question the worker is answering.
- A failure of the planner after the decomposition leaves its job `decomposing`, and
  the request is refused as a duplicate for six hours.
- A task that is active, orphaned and out of retries is shown as recovering by itself
  (`founderControlPlane.mjs:1253`), which nobody does; a seat pause is not shown once the
  retries are spent, though the sweep still resumes it. A part that waits for a publish
  decision has a task, so the scan that names that case (`:1442`) passes over it
  (`:1451`). A node left running by a dead driver, with a decision on its task, ages into
  history, though attention is to stay active (`:927`). Dismissing a question hides the
  next one of the same task and stage.
- A detail document overtaken by an older post is not posted again until the task
  changes; a load under way at sign-out draws the mirror with its polling stopped, so
  `PageCatchesUp` speaks of a page whose timer runs (`app.js:450`: "never let a number
  read as live when it is not"). A publisher that runs once beside the loop may leave
  an older snapshot until the next heartbeat.

## What is not modelled

PROJECT.json lists the components without a module and why. Within the modelled ones:

- the manual command line (`scripts/factory-task.mjs` completes stages without a
  dispatch; `openclaw-factory next` and `ingest` skip `markDispatchRunning`), the
  route, seat and attestation annotations of a dispatch, legacy evidence policies, a
  founder's rejection of a build and the re-keying of a pending approval;
- a rejected call whose agent lives on in the gateway, and an approval recorded while
  a runner is alive (`TaskWorkflow` has the approval, `StageRunner` does not);
- in `Objective`: escalations of infrastructure failures, the job record and lock of a
  reconciliation, an integration skipped by hand, the founder-key preflight (a run may
  fail); what the merge reconciler does to a node's task behind its back is in
  `Delivery`;
- `OrphansAreTaken` speaks of restarts of the dashboard; a node whose task exists
  while its path was never recorded (`task-initializer.mjs:33`) and objectives driven
  by the intent worker's process are outside: with two processes `StoppedHasCause` and
  `OneRunPerNode` do not hold, which is why `ProcessOf` puts the drivers of
  `objective_run` in one;
- in `Delivery`: which tree is committed and pushed (`github-publish.mjs:119` commits
  whatever lies in the worktree), credentials, how the capability of a publication is
  decided (a refusal is a skipped publication);
- in `FounderDesk`: the trimming of questions and jobs to the last hundred
  (`founderControlPlane.mjs:1603`, `:1666`), so `OneJobPerRequest` speaks of jobs that are
  still in the file; `Boot` writes once what the dashboard writes in two turns of read and
  write, the questions taken up and the threads failed (`server.mjs:1905`), so what the
  worker may do between the two is not seen; proposals (checked to be open, handled, then settled, so that two
  acceptances may both be handled), archive and dismiss lists, project records;
- in `Mirror`: the panels, redaction, the task view of the page and the intents it posts;
- in the console: cards, ages, the objectives view, the timeline and search.

Whole components: the **connector outbox** and **`runDeployment`** have no caller in the
repository besides tests, so the order of their calls is not this code's. The **inbox
executor** is a sequential script run by hand; one thing a reader should know of it:
`doneKeys` counts a rejected request's copy in `done/`, so the same request submitted
again once its base exists is dropped as a duplicate. **Authority, evidence, cost,
quotas, sessions, permissions, intake, routing, telemetry, learning, reports** are
functions of stored data or of a model's answer, or append-only logs. **Agent profiles,
process supervision and most of the dashboard's pages** are I/O around single files.
This is also why the map covers the share of the repository that it does: most of its
lines render, format, validate or report.

## The plan

The components whose correctness is about order are modelled, and their safety
properties are proved. What remains, the most valuable first:

1. Proposals in `FounderDesk`, and the page's task view and intents in `Mirror`.
2. `Objective` with drivers in two processes, and the properties that survive there.
3. The runner with a founder's approval recorded while it is alive.
