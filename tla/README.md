# Verification of the durable core of Knight Code

Knight Code is a coding agent: a command line, desktop and web front end over an
agent loop, model providers, tools, extensions and a durable store of
conversations and running work. This directory holds TLA+ models of the part that
everything else stands on, the durable core (`packages/durable`): the Session, its
task scheduler, the tasks that run a conversation, and a storage backend; the TLC
configurations that check them on small instances; and TLAPS proofs about the
Session, the scheduler and the tasks of a conversation.

- `GroupCommit.tla`: the mutation line and the writer of a Session.
  `SerialSession.tla`: the Session it implements, one job at a time.
- `MCGroupCommit.tla`, `GroupCommit*.cfg`: its instances.
- `GroupCommitSafetyProofs.tla`, `GroupCommitStorageProofs.tla`,
  `GroupCommitSerialProofs.tla`: its theorems, each module on top of the one before.
- `TaskScheduler.tla`: the tasks of a Harness, on top of a Session.
- `MCTaskScheduler.tla`, `Sched*.cfg`: its instances.
- `TaskSchedulerProofs.tla`: its theorems.
- `JsonlStorage.tla`: the storage backend in files. `StorageContract.tla`: what a
  backend promises, which it implements.
- `MCJsonlStorage.tla`, `Jsonl.cfg`: its instance.
- `ConversationRuns.tla`: submissions, inbox, generations, tool calls and
  compactions of a conversation, on top of the scheduler. `InputContract.tla`: what
  a conversation promises for its inputs, which it implements.
- `MCConversationRuns.tla`, `Conv*.cfg`: its instances.
- `ConversationRunsProofs.tla`, `ConversationContextProofs.tla`,
  `ConversationInputsProofs.tla`, `ConversationRoundsProofs.tla`: its theorems, each
  module on top of the one before.
- `PROJECT.json`: the components, the runs, the source lines behind each
  definition, the hazards and the findings.

Run a configuration with `tlc -workers 2 -config SchedWaits.cfg MCTaskScheduler`
and the proofs of a module with `tlapm TaskSchedulerProofs.tla`. Those about
conversations take about ten minutes each from nothing; each of the others a few.

## 1. Inventory

Everything runs in JavaScript: one thread, one continuation at a time, and
interleaving at each `await`. "Concurrent" below means that.

| Component | State | Operations | What is hard | What makes it correct |
|---|---|---|---|---|
| Session line and writer (`durable/src/session/session.ts`, `writer.ts`) | the line of jobs, admitted parts, the storage call in flight, gates, held changes, outcomes, failure, close | `commit`, `readOnLine`, `commitInternal`, deferred commits, the hold timer, `fail`, `close` | the line goes on while commits before it are neither durable nor published; failure at any point of a batch | reads as if serial, publication in order, a resolved commit is durable, no success after a failure's boundary, everybody is answered |
| Transactions (`transaction.ts`) | staged records and document deltas of one callback | reads, writes, `takeHeld`, owner checks | sequential within one callback | what a commit stores includes what it was derived from |
| Record cache, tails, forks | cached records and documents, tails per conversation | load, adopt, evict, fork | a cache miss and a hit must read the same | coherence with Storage |
| Task scheduler (`harness/scheduler.ts`) | durable task records; in memory the candidates of passes, invocations, the timer, idle waiters | open, resume, create, abort, wait, sleep, complete, reconcile, reserve, close | wakeups that arrive during passes, cascades of aborts, held outcomes, crashes between two commits, timers | no lost wakeup, abort bottom-up, a task ends after its work, no wait cycle, recovery derives what was owed |
| Generation and tool tasks (`generation.ts`, `tool.ts`, `live.ts`) | phases of a model run as checkpoints, the run and its slots in `knightcode.live` | prepare, request, classify, retry, poll, run tools, finish, abort | a crash, an abort or a fault in each phase, deferred responses, partials, sequential rounds | one owner per run, each call has one result, no unsafe tool runs twice, requests are bounded, runs end |
| Inbox and submissions (`inbox.ts`, `submissions.ts`) | queued inputs per conversation | submit, place at a boundary, withdraw | an input that races with the end of the run that would take it; resets among queued inputs | no input is lost, placed twice, overtaken or cut off by a reset |
| Compaction (`compaction.ts`, `context.ts`) | head markers and summaries | select a cut, summarise, place | the head moves while the run goes on | the active range never grows back, nor changes under a request being prepared |
| Storage backends (memory, JSONL, SQLite, IndexedDB, Durable Objects) | batches; for JSONL a log of markers and a file per document and live task | `commit` with receipts, reads, reclamation, recovery, `close` | torn files, a refusal or a crash between two files of a batch, power loss | the contract in `StorageContract`, on which `GroupCommit` relies |
| Agent loop (`packages/agent`) | messages, queues of steering and follow-up | prompt, turn, parallel tool calls, abort | abort and steering during parallel calls | each tool call gets a result, queues drain in order |
| App server and protocol | threads, pending approvals and dialogs, clients | requests, notifications, answers | two clients answer one approval; a thread unloads while a request arrives | one answer wins, every request is answered |
| Chord (host, documents, store, jobs, link, remote, sync) | live objects, documents, replicas, calls over a link | reload, call, revoke, delta, reconnect | revocation under a call in flight, a link that closes at any moment | no call is left pending, replicas converge to the server's order |
| Remote environment and daemon | framed requests with windows | open, data, credit, close | flow control at its limit, silence timeouts | no frame beyond the window, every request ends |
| Remote relay | rooms, presence, mirrors | join, replay, reconnect | a reconnect during replay | a mirror sees a prefix of the log |
| Command line sessions | session files and their lock | open, append, fork | two processes on one file | one writer at a time |
| Providers, MCP, code mode, UI libraries, schema, telemetry, applications | connections, rendering | translation, I/O | external protocols | not a matter for a model checker |

How they interact: a front end talks to the app server or runs a Harness in
process; a Harness drives one Session; its scheduler, its inbox and its tasks
change state only through commits on the Session line, and learn of published
commits through the Session's observers. Task code (generation, tools) runs in an
invocation and commits through the runtime of its scheduler. A Session stores
through one Storage backend. Chord objects expose Sessions, documents and jobs to
surfaces and remote peers.

`PROJECT.json` lists every component with its sources and, under `hazards`, the
lines where this code can go wrong in ways a test hardly reaches, with the
properties that would notice.

## 2. GroupCommit

### State and actions

A job is a line index. `next`, `line` and `ran` are `#nextIndex`, `#current` and
the job `#tail` has reached; `todo`, `reading`, `waits` say how far the callback
of the job on the line has read and which gate it waits at, `hit` is `Job.hit`.
A part is the change a job admits to the writer: `queue` and `unpublished` are
`Writer.#queue` and `Writer.#unpublished`, `newest` is `#newest`, `open` the gates
that are open, and `call`, `flight`, `got`, `verdict`, `failing`, `doomed`,
`stopAt` are the local state of `#send()`. `mem`, `disk` and `holds` are what
memory shows, what Storage has and what is held in memory only. `outcome`,
`delivered`, `lastDelivered`, `outstanding`, `health`, `failAt`, `ownOutcomes`,
`admission` and `closed` are the fields of the same purpose in `SessionImpl`.

A value of a key is the index of the newest commit whose change it includes, so
that "stale" and "lost" are comparisons of numbers; contents are left out.

| Code | Actions |
|---|---|
| `commit()`, `commitInternal()`, `readOnLine()` | `Enqueue` |
| `#enqueue()`, `#maintain()`, `#onLine()`: the next job, room for one more outcome, upkeep's barrier | `Start` |
| `touch()` and the gates of a read | `Touch`, `Read`, `PassGate` |
| `#runCommit()`: health checks, throw, a failing read, settlement, `Writer.admit()` | `RefuseOnLine`, `Throw`, `ReadFails`, `Return` with `Admit`, `Content` |
| the hold timer, `#storeHolds()` | `TimerFires`, `StoreHolds`, `StoredHolds` |
| `close()` | `Close`, `QueueClose`, `CloseStorage` |
| `fail()` from elsewhere | `FailElsewhere` |
| `Writer.#pump()`, `#send()` | `Pump`, `StorageCommit`, `AfterCommit`, `Publish`, `SettlePart`, `EndCall`, `FailCall` |
| `#fence`, `#delivered()`, `#poisoned()` | `Deliver`, `Fenced`, `Poisoned` |

`StorageCommit` is the contract of a backend as the writer uses it: a prefix of
the batches becomes durable, a prefix of those has a receipt, and the call
resolves or rejects, including the case of a backend that resolves without a
receipt it owed. An unrelated failure (`FailElsewhere`) may come between any two
steps; a macrotask between the publication of two parts makes that real.

`LastMicrotask` deserves a word. Between the end of a failing call and `fail()`
there is one microtask. A single continuation runs in it; the way of a commit
from its last read to its outcome, and of an outcome to its caller, takes several
microtasks, so neither can begin and end inside. `Return` and `Deliver` therefore
wait for that microtask to pass, and every other step may fall into it.

### Properties

`ResolvedIsDurable`, `PublishedInOrder`, `FailureBoundary`, `DeliveredInOrder` (no
outcome overtakes an earlier one), `DerivedIsDurable` (a crash never leaves a stored
commit built on a change that is gone), `CleanCloseStoresAll`; under fairness
`EveryJobDelivered` and `CloseEnds`, which also fail when the count of jobs without
an outcome leaks.

`ImplementsSerial` is the refinement of `SerialSession`. There a job reads and
later makes one step, at which all it read must be current; steps of commits come
in line order, and a caller hears of a success only after the step. The mapping:
a job's step is made (`InPlace`) when it is published, or for a job without
writes when it has its value; answers are `delivered`, and the Session is down
when it failed. The overlap of storage calls, gates, holds, partial batches and
failures are all steps or stutters of that.

### Runs

| Run | Instance | Question |
|---|---|---|
| `overlap` | 2 keys; a blind write, a commit that reads what that writes and writes the other key, an exempt look, a deferred change; up to 3 jobs and the close, `MaxOutstanding` 2 | do overlapping storage, holds, failures and closes keep outcomes, order, reads and durability right, and do they implement a serial Session? |
| `progress` | a commit and a deferred change on one key, `MaxOutstanding` 1 | does everybody get an answer, and does a close end? is the inductive invariant of the proofs an invariant? |

Why the bounds are enough: a defect of order needs one commit in flight, one
queued behind it and one job that reads what they wrote, which is three jobs; the
fourth index is the close, or with no close, three jobs remain since a client's
job leaves room for it. `MaxOutstanding` 2 is reached with one job on the line and
one without an outcome, and 1 is the tightest back-pressure a line can have.

Fairness (`FairSpec`): the event loop runs every continuation that is ready
(`OnLine`, `Writing`, `QueueClose`, `Deliver`), which includes that commit
callbacks return and storage calls settle, as the Session itself has to assume. No
fairness is asked of clients, the timer, failures or `close()`. The `progress` run
turns deadlock checking off: a Session that used up its line indices has nothing
left to do, and what must still happen is what its two properties say. Deadlock is
checked in `overlap`, with `Ended` for a Session that closed and answered
everyone.

### Proofs

For every set of keys, every set of jobs, every length of the line and every
`MaxOutstanding`:

| Theorem | Module | States |
|---|---|---|
| `TypeCorrect` | `GroupCommitSafetyProofs` | `Spec => []TypeOK`, with the bound on jobs without an outcome |
| `Inductive` | the same | `Spec => []IInv` |
| `BoundaryHolds`, `OrderHolds` | the same | `FailureBoundary`, `PublishedInOrder` |
| `DeliveryInOrder` | the same | `DeliveredInOrder`, an action property |
| `StorageHolds` | `GroupCommitStorageProofs` | `Spec => []StorageInv` |
| `ResolvedDurable`, `DerivedDurable`, `CleanClose` | the same | `ResolvedIsDurable`, `DerivedIsDurable`, `CleanCloseStoresAll` |
| `FullInvariant` | `GroupCommitSerialProofs` | `Spec => []FullInv` |
| `SerialRefinement` | the same | `Spec => ImplementsSerial`: the refinement, initial states and every step |

They assume only what `GroupCommit` assumes of its constants: that the two bounds
are positive, that jobs are jobs, and that a deferred job reads what it writes.

None of the invariants of the runs is inductive. `FullInv` is, in three layers, each
proved preserved on top of the one before.

`IInv`, the control. A failure of the call sets its boundary at a part in the middle
of the line, so one must know that nothing after an unsettled part was delivered;
that needs the fence, the fact that every part is settled or still with the writer,
and where the call is when it stops:

- `LineInv`: jobs run in order, one at a time; only a job that ran, or upkeep
  waiting on the line for its own part, has an outcome.
- `PartInv`: the admitted parts are the settled ones and the unsettled ones, and
  the two do not meet; what is in flight comes before what is queued; an error
  that escapes the boundary (`ownOutcomes`) is of a settled part and is no value.
- `CallInv`: what the writer's local state says in each phase of a call: what is
  given up, that a part stopped at is a part, that receipts are durable, and that
  in a healthy Session what is settled was published.
- `FenceInv`: nothing after an unsettled part was delivered, deliveries are
  closed downwards, and `lastDelivered` bounds them.

`StorageInv`, the values. A commit is durable with what it was derived from because
a part carries the held changes of the keys it touches, which is true only if no job
computes on a key that another one has not published:

- `GateInv`: a key is gated by the newest pending part that carries it, and what the
  job on the line has read is what memory shows.
- `StageInv`: which parts are queued, in flight, durable and published in each phase.
- `DiskInv`: the values that pending parts carry grow with the line, and Storage has
  the newest durable one.
- `MemInv`: Storage is never ahead of memory in a healthy Session, and behind it
  exactly for what is held; every value that a stored commit has seen is in Storage
  or in the commit itself.
- `UpkeepInv`: upkeep stores everything held, and the close is the last job.

`SerialInv`, the order. What memory shows is the newest commit in place; a pending
commit has seen just that, and nothing pending before it writes what it read; what
was put in place beyond a pending commit touched nothing of it. This is the claim
that gates make overlapping commits look serial, and with it each action is a step of
`SerialSession` or a stutter.

The proof that a step preserves an invariant has one lemma per action, and under each
the conjuncts the action disturbs. The `progress` run checks `FullInv` on an instance.

Only model-checked: `EveryJobDelivered` and `CloseEnds`, since liveness is out of the
prover's reach.

### Left out

Document observers and commit watchers, telemetry, when the cache evicts (any read
may miss instead), a document reloaded for its version, the internal commit of
`writeAtClose()` (the scheduler's `Join` stands for it), `Writer.#abandon()` (an
error in the writer's own code), tails and forks.

## 3. TaskScheduler

### State and actions

`status`, `mark`, `outcome`, `restarts`, `on` and `failFast` are the durable
record of each task: its state, its abort mark, its outcome (held while the state
is `completing`), how often it was cut off, and what it waits on. `convs` and
`queued` are the conversations and those with queued inputs. The rest is memory
and dies with the process: `runnable`, `finalizeChecks`, `failFastChecks` and
`abandoned` are the candidate sets of the same names, `cascade`, `reconcile` and
`dirty` are `#cascadePending`, `#reconcileScheduled` and `#dirty`, `timer` is the
set of sleeps the timer was armed for, `idleWait` the scopes with idle waiters,
`inv` where each invocation is, `moved` whether its phase made progress, `stale`
whether its definition was replaced. `up`, `enabled`, `stopped`, `lastEnd`,
`crashes`, `due` and `fits` are the process, the clock and the registry.

Each decision of the scheduler is one callback on the Session line that reads
published state only; `ImplementsSerial` of `GroupCommit` is what lets this module take
it as one step, with its publication and what `#observe()` derives from it.

| Code | Actions |
|---|---|
| creation of tasks and conversations, queued inputs | `Create`, `CreateConversation`, `Submit` |
| `abort()`, `abortConversation()`, `waitForIdle()` | `Abort`, `AbortConversation`, `WaitForIdle` |
| `#observe()`, `#track()`, `#release()`, `#settleIdle()`, `#kick()` | `Observe`, `SettleIdle`, `Kick` (part of each action) |
| `#reconcile()`, `#planMarks()`, `#finalize()` | `Reconcile` |
| `#reserve()`, `#planReservation()` | `Abandon`, `Reserve` |
| `#start()`, `#run()`, `#runAbort()`, `#step()`, `#rules()`, `#end()` | `Step`, `AbortStep`, `Returns`, `Throws` |
| the runtime's commit, `#gated()`, `#checkWait()`, `#waitCycle()` | `RuntimeCommit` and the four `Commit...` |
| `wake()`, `#armTimer()`, `#wakeDue()` | `WakeAt`, `Elapse`, `TimerFires` |
| a change of the registry | `Install` |
| `open()`, `resume()`, `#seal()`, `join()`, the death of the process | `Open`, `Resume`, `Close`, `Join`, `Crash` |

The ownership tree (`Up`) is a constant: which task or conversation is above
which never changes once created. `Abilities` names what task code and clients do
in an instance (checkpoint, throw, spawn work together with an outcome, abort,
close, change the registry, wait, submit, wait for idle, sleep), so that each run
spends its states on one question. It removes callers, never a path of the
scheduler that these callers reach.

### Properties

`WorkIsComing` (no lost wakeup), `ReconcileOwed` (what committed records imply is
never forgotten, across crashes), `RestartsBounded`, `WaitsAcyclic`,
`IdleWaitersBusy`, `SleepsTimed`; the action properties `OutcomeFinal`,
`EndsDrained`, `AbortBottomUp`; under fairness `CancelledEnds`.

### Runs

| Run | Tree | What happens | Question |
|---|---|---|---|
| `sched_recovery` | a task and its child | checkpoints, throws, work spawned with an outcome, aborts, closes, three crashes, restart limit 2, a child abandoned after a restart that limits itself | what survives, what is counted, and that work goes on |
| `sched_registry` | the same | definitions come and go, sleeps, late timers, aborts, work spawned with an outcome | hand-over, orphans, wakeups, an alarm for every sleep, tasks that end after their work |
| `sched_waits` | a task and two children | waits on any set, with and without failFast | cycles, wakeups, failures |
| `sched_nested` | a background task owns a conversation with a task in it | aborts, inputs, work spawned with an outcome, idle waiters, a crash | cascades through a conversation, where traversal stops, idle scopes |
| `sched_progress` | a task and its child | aborts, throws, waits, a crash | what is cancelled ends |

Why the bounds are enough: the scheduler's rules look at a task, the nearest
relevant one above it and the live ones below, so a task with a child, or with a
conversation and a task in that, has every relation they tell apart; a wait cycle
that is not a wait on itself needs two waiters, and a third task to be reached
through. Three crashes exceed a restart limit of 2 by one. `sched_waits` uses
symmetry between the two children, which differ in nothing and of which no
property or constant of that run speaks; it checks no liveness.

Fairness (`FairSpec`): the event loop runs the passes that are scheduled, timers
fire, time passes, and a handler returns, which the scheduler asks of task code
once its signal is aborted. Clients, the registry, `resume()`, crashes and `close()`
are not fair, and properties under fairness speak of a process that stays up
(`Stays`).

### Proofs

For every tree of tasks and conversations of any size, every restart limit, any number
of crashes and all of the abilities:

| Theorem | Module | States |
|---|---|---|
| `RecordsHold` | `TaskSchedulerProofs` | `Spec => []RecordInv` |
| `TypeCorrect`, `CrashLoopEnds`, `SleepsHaveAlarms`, `IdleSettled` | the same | `TypeOK`, `RestartsBounded`, `SleepsTimed`, `IdleWaitersBusy` |
| `OutcomesAreFinal`, `EndsAreDrained`, `AbortsBottomUp` | the same | the action properties `OutcomeFinal`, `EndsDrained`, `AbortBottomUp` |
| `SchedInvariant` | the same | `Spec => []SchedInv` |
| `NoLostWakeup`, `ReconcileComes` | the same | `WorkIsComing`, `ReconcileOwed` |
| `WaitsNeverCycle` | the same | `WaitsAcyclic` |

The assumptions are those of `TaskScheduler`: the parts of the tree are what they are
called (`TreeAssumption`), nothing is above itself (`AcyclicAssumption`; a parent
exists before what is created below it), and the restart limit is positive
(`LimitAssumption`). A walk up the tree (`WalkUp`) and a search of the wait-for graph
(`Reached`) are least closed sets, so that facts about all ancestors follow from one
closed set and need no induction.

The argument. `RecordInv` is inductive by itself: besides types it says that a
running task has room for one more restart (`RunningBelowLimit`), without which a
crash would exceed the limit. `WorkIsComing` and `ReconcileOwed` are not: that a task
is in the candidate set when its last obstacle goes away needs `CandidatesKnown` (a
task held back only by its definition or by a cancelled owner stayed a candidate), and
that a failed wait is marked needs `FailFastOwed` (the wait itself is among those to
check). Lemmas about `Observe` and `Kick` say once what a published commit adds to
the candidates and passes, per kind of change to the records, and each action cites
the one for its kind. The wait-for graph adds a wait's edges and, with a held
outcome, the edges to the work below a task; `WaitsAcyclic` is proved together with
`Rooted` (what exists is below what exists): a task is on no cycle exactly if some
closed set without it contains all it waits for (`Settles`), and each action gives such
a set for every task. The run `sched_waits` checks `SchedInv`, of which
`WorkIsComing`, `ReconcileOwed` and `WaitsAcyclic` are parts, on an instance.

Only model-checked: `CancelledEnds`, which is liveness.

### Left out

The ownership indexes, their loading along a chain and their sweeping and pinning
(caches of a tree that is constant here), the rerun of a decision region when a
record it read is pending (each decision is a step), retained contexts, the host's
own `onWake` in place of the timer, the detail of migrations between definitions
(`fits` says whether one can take the task), the `settleOutcome` hook, memos,
a checkpoint committed again unchanged, tasks created in the commit of a wait,
`waitForTask()`, Sessions opened read-only, and the microtask between a kick and
its pass.

## 4. JsonlStorage

### State and actions

`disk` is the lines of each file: `main.jsonl` holds one marker per commit, and a
sidecar per document and per live task holds the records that markers refer to by
sequence and ordinal. `memory`, `current` and `live` are the `MemoryStorage` the
backend reads from and its two sets; `phase`, `sent`, `todo`, `plan` and `temp` are
where a call, a reclamation or a recovery is between two awaits. A step is one file
operation. The content of a write is the number of its commit attempt, so that
stale content and a sequence used twice show. `survive` is, per file, the set of
contents a power loss may leave. `acked`, `deferred`, `faults` and `outages` are
ghosts.

| Code | Actions |
|---|---|
| `commit()`: `prepareCommit()`, `encodeCommit()`, `planReclamations()` | `Commit` with `Refused`, `Applied`, `Records`, `planReclamations`, `Kept` |
| `append()`: sidecars, flush, markers, receipts; `poison()` | `AppendSidecar`, `FlushSidecar`, `AppendMarkers`, `AppendFails`, `FlushFails` |
| `reclaimSidecars()`, `replaceSidecar()` | `Authorize`, `RemoveSidecar`, `WriteTemp`, `FlushTemp`, `RenameTemp`, and their failures |
| `open()`, `readLines()`, `recover()` | `Open`, `TruncateTorn`, `Replay`, `TruncateTail`, then the reclamation actions |
| `close()`, the process, the machine | `Close`, `Crash`, `PowerLoss` |

What is assumed of a file system: an append adds its bytes in order and may be torn
at any of them, a rename is atomic, a flush makes a file and its directory entry
durable, and a power loss may undo any truncation, removal, rename or append that
was not flushed. Nothing is promised after a power loss without the `fsync` option.
With it, acknowledged commits at the end of the log may still be lost, since a
marker is flushed only before a reclamation; `packages/durable/docs/spec.md` says
so, and the contract therefore lets a power loss shorten the log to a prefix. That a
flush covers the directory entry is the file system's part: the code flushes the file
only (`packages/durable/src/env/node.ts:1058`).

### Properties and run

`NeverCorrupt`: no crash, failure or power loss leaves files that the next open
refuses. `NothingNeedless`: a healthy backend keeps no record that nothing can read
any more, unless a reclamation failed. `KeepsContract` is the refinement of
`StorageContract`: the stored log is the markers, its last ones stored without a
receipt when a call fails; a read sees exactly the stored commits or waits; recovery
finds what those commits left.

The run `jsonl` has a current-only document, a document with history and a task,
with calls of one and two batches that create, change, rebase, retire and end them,
4 commits and 2 faults. That is enough for a replacement planned by one batch and
disturbed by the next, a sequence reused after a lost tail, and a power loss after a
recovery, which need two commits around one fault and a second fault to notice.

Nothing about this module is proved: `NeverCorrupt` and `NothingNeedless` speak of what
a replay of every prefix of every file yields, and `KeepsContract` of what it leaves
behind. Those are folds over logs, whose meaning for all inputs needs an induction over
data and an invariant that relates each file to each marker.

### Left out

`document.copy`, identifiers, addresses and version checks, scans, the encoding of a
line. The Session's rule that a terminal task is written no more is a guard of
`Commit`.

## 5. ConversationRuns

### State and actions

`conv` is what storage holds of a conversation: `subs` the submissions, `inbox`
the queued items, `entries` the transcript, `run` the live run, `gens`, `slots` and
`comps` the task records of generations, of the calls of the current round and of
compactions with where they are, `partial` the streamed part of a response, and
`failure` the inputs of the last failed run. `fly` and `seen`
belong to an invocation and die with it, as does a partial in memory; `sent`, `ran`
and `lost` are counted for the properties. `jobs` are the deferred responses that a
provider works on.

A step is one commit, which `GroupCommit` and `JsonlStorage` make atomic and
durable, or a stretch of task code between two. Of the scheduler only its promises
appear, which `TaskScheduler` is about: due tasks are invoked (`Reserve`), commits
of a marked run are refused (`InPhase`), an abort handler starts when the task owns
no live work, a mark reaches owned tasks in a later commit (`Cascade`), and a task
that was running when its host stopped is ready again (`Stopped`).

A host stops in two ways. A crash counts a restart for what was running, and loses a
partial that only memory held. A close counts none: `join()` writes the tasks it
stopped back as `pending`, keeping the count they had, and what progress was held is
stored. So a phase that reads its restarts takes the crash's path after a crash only: an
interrupted request is charged to the next attempt, while one that a close stopped is
sent again with the same attempt, after its partial is kept as an entry (`Request`). Both
are one step with the open that follows (`Reopens`), as nothing runs between.

| Code | Actions |
|---|---|
| `admitSubmission()`, `Submission.abort()` | `Submit` with `Rejected`, `Admit`; `AbortSubmission` |
| `prepareBoundary()`, `applyBoundary()`, `withdrawQueuedInputs()` | `ApplyBoundary`, `WithdrawQueuedInputs` (part of the actions) |
| `startRun()`, `handOver()`, `endRun()`, `endFailedRun()` | `StartRun`, `HandOver`, `EndRun`, `EndFailedRun` (part of the actions) |
| phase `prepare` | `PrepareReads`, `PrepareBlocks`, `PrepareCommits`, `PrepareFails`, `NoModel` |
| phases `request`, `poll`, `retry`; `classify()` | `Request`, `ShowPartial`, `StorePartial`, `Deferred`, `StartToolRound`, `Answer`, `Overflow`, `ModelError`, `Retry` |
| `interrupted()`, `endCutOff()`, `endAnsweredCutOff()` | `Interrupted`, `EndCutOff`, `EndAnsweredCutOff` |
| phases `tools`, `finish`, `drain` | `NextCall`, `FinishToolRound`, `Finish`, `AfterRunTaskEnds`, `Drain` |
| `ToolTask` | the `Tool...` actions |
| `CompactionTask`, `compact()` | `Compact`, the `Comp...` actions |
| `abort()` of a conversation, `abortTask()` of a generation, a call or a compaction | `AbortConversation`, `AbortTask`, `AbortWork`, `Cascade`, `Aborts` |
| `settleSchedulerOutcome()`: a phase or an abort handler threw, or a handler was cut off too often | `Faults`, `ToolFaults`, `CompFaults`, `SchedulerEnds` |
| the death of the process; `close()`, `join()`; `open()` | `Crash`, `Close` with `Reopens` |

Sizes, thresholds, hooks and policies that only depend on content are choices: any
legal cut may be selected, a context may or may not be above a threshold, a call may
be rejected, a tool may be safe to replay.

### Properties

- `InputsAccounted`: a submission's status says where it is, and it is there once.
- `RunOwned`: one live generation while busy, none while idle.
- `ContextCurrent`: what `prepare` read off the line is still the context when it
  commits.
- `ResetNeverCutsRun`, `HeadsMoveForward`: resets and summaries, however late they
  land.
- `RoundsAnswered`, `UnsafeRunsOnce`, `JobTracked`: what crashes, closes, aborts and
  faults may do to a round and to a deferred response.
- `RequestsCounted`: a generation sends one request, one for each retry, one for the
  context that a compaction made fit, and one more for each request that a close stopped
  (`resent` counts those). A crash adds none, which is what ends a request that kills its
  host. Each request leaves at most one assistant entry, however it was stopped.
- `KeepsInputs`, the refinement of `InputContract`: inputs of a mode are taken in
  turn, those of a run are settled together and alike, and settled is final. The
  mapping takes the status of each submission and the two queues.
- `InputsSettle`, under fairness: every input that a run took is settled (the n-th
  submission of a client, as long as it is placed, comes to be done or unanswered).

### Runs

| Run | Instance | Question |
|---|---|---|
| `conv_inbox` | up to 3 submissions of seven kinds, a round of one call that may terminate or hand off, continuations, 2 compactions, an abort, a crash or a close; three settings | where is every input, and what does the model see? |
| `conv_recovery` | one input; every kind of answer, rounds of two calls in parallel and in sequence, a compaction, two of crash, close, abort, abort of a task, of a call or of a compaction and fault, with restart limits 1 and 2 | what does recovery keep, repeat, charge and cancel, and does every run end? |

`conv_recovery` also checks `WholeInv`, the inductive invariant of the proofs, which
contains the type invariant, and `conv_inbox` its part about the inputs, `InputsInv`.

`MaxEvents` bounds submissions, rounds, compactions and troubles together by 4, so
that each may reach its own bound but not all at once. That is enough for the cases
the rules tell apart: an input in a run, one queued behind it and a reset or a
summary between them, plus one thing that goes wrong; and for two crashes in one
phase, which exceed a restart limit of 1 by one, two closes in one, which send a request
three times, and a crash after a close. Deadlock is not checked: a
conversation that answered everything waits for its clients, and what must still
happen is `InputsSettle`.

Fairness (`FairSpec`): the scheduler invokes due tasks, and phases, tools, their
abort handlers and summaries end (weak fairness of `Generation`, `Tool` and
`Compaction`), which is what `TaskScheduler` shows of cancelled tasks and what task
code has to grant. Responses are strongly fair (`Reply`): a provider may defer a
response again and again, but not forever. Nothing is asked of clients, troubles,
partials or the availability of a model.

### Proofs

For all drafts, settings, replies, controls and troubles, and every number of calls,
submissions, rounds, compactions and troubles:

| Theorem | Module | States |
|---|---|---|
| `ConversationInvariant` | `ConversationRunsProofs` | `Spec => []ConvInv` |
| `TypeCorrect`, `OneOwner`, `UnsafeOnce`, `JobsTracked`, `EachRequestOnce` | the same | `TypeOK`, `RunOwned`, `UnsafeRunsOnce`, `JobTracked`, `RequestsCounted` |
| `ContextInvariant` | `ConversationContextProofs` | `Spec => []ContextInv` |
| `PreparedIsCurrent`, `RangeMovesForward` | the same | `ContextCurrent`, and `HeadsMoveForward`, an action property |
| `InputsInvariant` | `ConversationInputsProofs` | `Spec => []InputsInv` |
| `NoResetCutsARun`, `InputsAreAccounted` | the same | `ResetNeverCutsRun`, `InputsAccounted` |
| `InputsRefinement` | the same | `Spec => KeepsInputs`: the refinement of `InputContract`, initial states and every step |
| `RoundsInvariant` | `ConversationRoundsProofs` | `Spec => []RoundsInv` |
| `CallsAreAnswered` | the same | `RoundsAnswered` |
| `WholeInvariant` | the same | `Spec => []WholeInv` |

The assumptions are that drafts, settings and controls are of their kinds, that there
is a setting, and that the bounds are natural numbers.

None of the properties is inductive. `WholeInv` is, in four layers, each proved
preserved on top of those before; each adds what a crash, an abort or a late step in
the middle of a phase would otherwise break.

`ConvInv`, the tasks:

- `SlotsOnce`: before its intent is durable, a tool has not run; so a restart in
  phase `call` may run it, and one in `execute` only if it is safe.
- `Flying`: what is in memory only belongs to a running, unmarked generation in the
  phase it is of; so a mark or a crash leaves nothing of it to be committed later.
- `Charged`: every request sent is paid for by an attempt, by the one compaction or by
  a close; while a request is still to be sent, one is paid for and not spent. So a close
  has to pay for the request it stops, and a crash need not: its restart count keeps the
  phase from sending. The bound on requests follows when the last attempt is charged.
- `SaidOnce`: a request that may still get its assistant entry has none yet, and a
  partial that is shown belongs to such a request of the run, in flight or stopped.
- `CallsKnown`: where there are slots, their answer stands in the transcript.

`ContextInv`, what the model sees:

- `HeadsKnown`: the head, and the cut of every summary still queued, are within the
  transcript; otherwise entries appended later would fall before it.
- `CompsKnown`: a live compaction that a generation waits for has that generation
  parked in `prepare`, and its cut is not before the active range. A summary is
  placed by such a compaction without asking whether it is stale, so this is what
  makes that right: nothing of the run can have moved the range meanwhile. A
  generation marked by an abort but not yet cleaned up still counts as parked.
- `RoundOpen`: slots belong to a round; so what a tool appends never falls into a
  context that is being read by `prepare`.

`InputsInv`, the inputs:

- `Accounted`: `SubsSound` (a placed or done input has its one entry, a request ID its
  one submission), `QueueSound` (the inbox is the queued submissions in order), `Holds`
  (the run's inputs are the placed submissions, each once). It is stated for any list
  of inputs "that a run has or is about to get", since between `ApplyBoundary` and
  `StartRun`, inside one commit, they belong to no run.
- `Uncut`: every reset stands before the run's inputs.
- `AnsweredHeld`: a run that answered and waits for its afterRun tasks has no inputs, so
  its end settles nobody twice.

`RoundsInv`, the rounds: in a round, some entry with calls is the last assistant entry,
has as many calls as there are slots, and lacks results exactly for the calls that are
lost or unsettled (`RoundAt`); outside of one, results are missing for lost calls only
(`Paired`). Whoever ends a round must therefore have settled every slot, which needs
`RoundIdle`: a generation that goes on has no live call; a crash between the last result
and the end of the round, an abort between two sequential calls and a tool that faults
all come back to it.

The actions are compositions of what the code's helpers do (`ApplyBoundary`, `EndRun`,
`HandOver`, `Settle`...). The proofs follow that. A relation says what a helper may do
to a conversation (`Framed`: entries grow by no assistant entry and no task changes;
`Ends`, `RunOver`, `Created`: a generation or the run ends, or one is created; `Eased`: tasks are
marked, cut off or counted only), one lemma per helper shows it, the relations compose,
and a few lemmas per layer (`WeakStep`, `MoveStep`, `EndStep`, `OpenStep`, `SlotStep`,
`CompStep` in the first) show that a step of that kind preserves the layer. Each action
is then of one kind.

The two folds over the inbox (`At`, which selects the items of a set, and
`PlaceWrites`) are recursive functions. That they are defined and typed, and what they
place and leave in the inbox, is proved from the induction lemma `Induct`, which is
derived for sets of natural numbers from well-foundedness (`Least`): it takes a set
where the library's rules take a predicate.

`Submit` takes summaries only with a cut within the transcript, as the entry a client
names must exist.

`InputsRefinement` rests on one more relation between a state and the next, `Turned`: at
most one submission arrives (`Entered`), and then every submission fares as the contract
lets it and both queues lose only items that were taken or settled, in their order
(`Turns`). Each helper is shown to turn its conversation so; that a settlement is the same
for all inputs of the run comes from `InputsInv`, by which those are the placed
submissions. `ContractStep` maps `Turned` to a step of the contract.

Only model-checked: `InputsSettle`, which is liveness.

### Left out

System entries and the rendering of prompts, `LiveRun.first`, edits of the context,
answers cut off at their length with calls that are not run, nested tool calls and
tool progress, usage, texts shown to a client (retries, compaction failures), tools
added by a round. Settings are fixed in a behaviour. An orphaned task takes the path
of a faulted one. `cancelDeferred()` reaches the provider, and is one step with its
commit. A hook that supplies a summary is a selection followed by its placement. A
poll or a backoff woken too early sleeps again without a step. A run that is marked for
abort counts as ready for its abort handler at once; in the code it stays `running` while
it ends and waits for owned work, and a host that dies then, or closes without an
invocation of it (section 7), counts a restart for the handler. That only brings the
handler's limit closer, which more crashes bring as well. A close whose last write fails
leaves its tasks as a crash does.

## 6. How the parts fit

```
ConversationRuns  ==> InputContract        what a client of a conversation relies on
   | promises of the scheduler (reservation, marks, restarts)
TaskScheduler
   | each decision is one step
GroupCommit       ==> SerialSession        what a caller of a Session relies on
   | StorageCommit
JsonlStorage      ==> StorageContract      what a Session relies on
```

`==>` is a refinement that TLC checks; those of `SerialSession` and `InputContract` are
also proved. The vertical lines are the assumptions a module makes of the one below, by
the definitions named; they are argued, not checked by a composed run, whose states
would be the product of two modules that are each at the limit of what is checked in
minutes.

## 7. What was found

- `sched_close` (`CloseLeavesNoneRunning`): **a close can leave a task `running`.** A run that sees its abort
  mark ends without a write; until the work below is gone and an abort invocation
  is reserved, its record is `running` and it has no invocation. `join()` writes
  back only the tasks of the invocations it stopped, so a close in between leaves
  the record `running`, and the next open counts a restart. The documentation says
  that only a process that died, was evicted or was reset leaves such records
  (`packages/durable/docs/spec.md:2532`).
- `sched_due_sleep` (`DueSleepRuns`): **a due sleep can stay asleep.** A reconcile pass without
  writes, such as the one that `waitForIdle()` schedules, recomputes the wake time
  and does not kick. Between the moment a sleep falls due and the timer's
  macrotask it finds no sleep that is not due and disarms the timer; no
  reservation pass follows. The task sleeps on until something else kicks the
  scheduler. The documentation says that a task resumes once the clock reaches its
  time (`packages/durable/docs/spec.md:2774`). The comment in the code covers the
  same race for reservation passes.

Everything else the runs state of the code holds.

## 8. Not modelled

Everything outside `packages/durable`, and in it the parts without concurrency of
their own. `PROJECT.json` gives the reason for each component; in short: providers,
MCP, code mode, rendering, telemetry and schemas translate or draw and keep little
state; the command line, the desktop application and the app server are mostly
wiring and user interface, of which approvals, dialogs and the loading of threads
would be worth a module; Chord's link, sync, documents and reload are a second
system of the size of this one; SQLite and IndexedDB bring their own atomicity. The
models cover the part of the repository in which a mistake loses a user's work, and
a small share of its lines.

## 9. Plan

Done: the four modules, their three abstract specifications, and the theorems about
`GroupCommit`, `TaskScheduler` and `ConversationRuns`, with two of the three refinements
(all of their safety properties). In this order from here:

1. `JsonlStorage`: type correctness, then `NeverCorrupt` by induction over the lines of a
   log, in the form that `Induct` gives it.
2. Decision regions: the keys a decision of the scheduler records, and that its
   rerun makes it a single step. This discharges what `TaskScheduler` assumes.
3. The app server's approvals and threads; the link, remote calls and sync of
   Chord; reload and revocation in the Chord host.
