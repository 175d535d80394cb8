# Aeitron in TLA+

Specifications of this repository's concurrent and crash-prone parts, checked
with TLC and, for the most important of them, proved with TLAPS.  Paths below are
relative to `src/aeitron/` unless they start with another directory of the
repository; `PROJECT.json` maps every definition to the lines it is translated
from, and lists the components, hazards, runs, findings and theorems.

Contents: [the system](#the-system), [the modules](#the-modules),
[what is checked](#what-is-checked), [bounds](#bounds), [fairness](#fairness),
[findings](#findings), [what is proved](#what-is-proved),
[observations](#observations), [not modelled](#not-modelled).

## The system

Aeitron is a FastAPI gateway over one SQLite (or Postgres) store, with background
workers.  An agent request becomes a *task graph* of ten tasks; worker pools claim
ready tasks under expiring leases and run their handlers concurrently.  Around it
are a code index with its own job queue, a training workspace that follows cluster
jobs, the pretraining loop those jobs run, a patch service, a native server and
the offline pipeline that crawls, reviews, calibrates, builds and promotes
datasets, and compares and qualifies models.

| Part | State it keeps | Operations | What is hard, and what makes it correct |
|---|---|---|---|
| Task graph runtime (`runtime/taskgraph.py`) | rows of `tasks`, `task_graphs` | create, advance, complete, fail, claim, cancel, report | several commits per call: dependencies before dependents; retry budget; terminal statuses agree with the rows |
| Worker pool (`runtime/engine.py`) | handlers in flight, cancellation event, leases | loop, execute, time out, renew, record output | stale executions: one execution's output per task; a run settles |
| Task tables (`db/local_store.py:603-897`) | SQLite rows | one transaction per call | a lease is held exactly while a row is running |
| Execution service (`runtime/execution.py`) and patches (`patches/`) | a staged copy, patch records, files | edit, test, apply, roll back, undo | retries and failed writes: what is applied was tested; files hold what patches recorded as applied wrote, but for failures of the repair itself |
| RAG index (`db/local_store.py:1323-1829`, `indexing/`) | index jobs, revisions, outbox, points | enqueue, claim, heartbeat, complete, fail, cancel, activate, deliver | lapsed leases and late workers: one active revision; a job's result is one worker's; every job settles |
| Training workspace (`training_workspace.py`) | jobs, attempts, events, checkpoints, bindings | create, ingest, cancel, resume, reconcile, archive, promote | clients, controller and workers change one row: versions; events once and in order; released checkpoints proven |
| Progress reporter (`shared/progress.py`) | queue, write-ahead log | emit, send, replay | lost answers: durable events arrive |
| Pretraining (`model_ops/pretrain_loop.py`, `data_loader.py`) | optimizer steps, checkpoints | step, validate, save, resume | death anywhere: the resumed run makes the same updates |
| Native serving (`model_ops/native_serving.py`) | slots, queue length | generate, stream | threads that cannot be stopped: no oversubscription |
| Data engine (`learning/data_engine.py`) | rows of `urls`, shards | claim, fetch, write, finish, fail | crash and restart: every page within its retry limit, accepted documents kept |
| Dataset authority (`learning/dataset_authority.py`) | review items, decisions | enqueue, claim, decide, adjudicate | leases and visibility: reviews are blind, verdicts final |
| Calibration (`learning/calibration_gate.py`) | stage decisions, datasets | run, finalize, build, promote | reads without a transaction: a passed decision can be replayed |
| Data pipeline (`learning/data_pipeline.py`) | lock file, stage files, ledger | run, resume | killed runs: a version is of one run |
| Experiment authority (`learning/ablation_runner.py`) | evidence, comparison, decision files | admit, run, decide, promote, verify | overlapping and dying commands: a promotion is on complete evidence |
| Qualification (`evaluation/qualification_campaign.py`) | campaign state, stage reports | run a stage | shared training directory: stages are earned in order |
| Quota and auth, collaboration, memory, tools, audits, deployment | | | see [not modelled](#not-modelled) |

The parts interact through the store and through files.  The gateway's endpoints
and a pool's loop call the same runtime, in one process on one event loop, in
several processes through the database.  Synchronous code is atomic with respect
to its own event loop (it contains no `await`) but not with respect to a thread or
another process, whose transactions come between any two commits, nor with respect
to a crash.  The command-line tools of the offline parts share nothing but
directories.

## The modules

| Module | What it is |
|---|---|
| `TaskStore` | the task tables and each SQL transaction on them |
| `TaskGraph` | `TaskGraphRuntime` and the gateway's endpoints; extends `TaskStore` |
| `WorkerPool` | `AgentWorkerPool` in the same process; extends `TaskGraph` |
| `TaskLifecycle` | the abstract promise: what a task may do from state to state |
| `AgentPatches` | a project's files, its patches, and the executions and users that stage, apply and take them back |
| `IndexJobs` | the index jobs of a project, its revisions, and `RAGIndexCoordinator` |
| `VectorSync` | the outbox of committed revisions and their synchronisation with Qdrant |
| `TrainingJobs` | a training job between clients, controller, scheduler and workers |
| `TrainingEvents` | its events, from the reporters' queues over Redis to the archive and the readers |
| `CheckpointPromotion` | its checkpoints: upload, commit, evaluation, promotion, the pointer |
| `TrainingAdmission` | the admission of jobs: idempotency, quota, milestones |
| `PretrainLoop` | the training itself: batches, validation, checkpoints, restart |
| `Serving` | the native server's line and slots |
| `Crawl` | the crawl frontier, the engines on it and their shards |
| `DataPipeline` | runs of the pipeline in one work directory |
| `DatasetReview` | the review of dataset records on both stores |
| `Calibration` | calibration stages on those reviews, datasets and promotion; extends `DatasetReview` |
| `Experiments` | one scientific experiment from evidence to a verified promotion |
| `QualificationLadder` | the stages of a qualification campaign |
| `MCWorkerPool`, `MCIndexJobs`, `MCVectorSync` | graphs, symmetry and revisions for TLC |
| `MCGateway`, `MCProcesses`, `MCServices`, `MCWorkspace` | several modules side by side, see below |
| `TaskGraphProofs` | proofs about the pool, for any number of processes |
| `SingleProcessProofs` | proofs about a single pool; extends `TaskGraphProofs` |
| `IndexProofs`, `IndexCommitProofs` | proofs about `IndexJobs` |
| `DeliveryProofs` | proofs about `VectorSync` and `TrainingEvents` |
| `WorkspaceProofs` | proofs about `TrainingJobs`, `TrainingAdmission`, `CheckpointPromotion`, `AgentPatches` |
| `LearningProofs` | proofs about `DatasetReview`, `Calibration`, `DataPipeline`, `Crawl`, `Experiments` |
| `ModelProofs` | proofs about `Serving`, `QualificationLadder`, `PretrainLoop` |

How state and steps correspond to the code:

**Task graphs.**  A variable of `TaskStore` is a column of `tasks` (`status`,
`attempt`, `owner`, `lapsed` for `lease_expires_at`, `cancelReq`, `output`), the
blackboard entry of a task (`board`) or `task_graphs.status` (`graph`).  `claims`
is a history variable.  The clock is the step `LeaseLapses`, possible whenever a
lease is held; outputs are who wrote them.  An operation of the runtime is the
sequence of its statements between commits.  `frame[p]` holds the statement
process `p` is about to execute and its local variables (the row it concerns, the
attempt it computed, the graph status it read, the list it is about to claim), so
that what is stale in the code is stale in the model.  A process executes one
operation at a time; other processes, lapsing leases and crashes come between any
two statements.  The pool's loop and its executions are `exec`, `expiring`, `on`
and `stop`; a handler ends by returning, raising, timing out or being stopped, and
what follows is one operation of the process.

**Patches.**  A file's content is which patch wrote it last.  A step is one write
of a file or one transaction of the patch table; the staged copy of an execution is
a function of its own, and a handler that timed out leaves its thread running.
A backup is what preview saw, with its author, so that a restore may bring another
patch's content back.  A write of an apply fails before its rename or in the fsync
after it; a restore of an undo or a rollback fails too, and so does the update of the
row: `leftover` is the history of the files in which one of these left what a patch
wrote, or to which a restore brought it back.

**Index jobs.**  `IndexJobs` has the columns of `rag_index_jobs`, the revisions
with the snapshot each was built from, the project's pointer and status, the lock
in Redis, and `frame[w]`: the job a worker executes and where it is in
`execute_claimed_index_job` and `index_project`.  Every transaction and every call
of Redis is a step.  The repository is a version that edits raise, a snapshot the
version it was read at.  A revision is named by the claim that builds it, since
`new_id()` gives every begin a name of its own and a claim begins at most once.
Retry delays are abstracted: any claimable row may be the first.  A lease may lapse
at any time, also under a worker that lives (its heartbeat came late).  So may the
lock: its TTL is twice the lease (at most an hour) and nothing extends it, while the
heartbeat extends the lease for as long as the indexing takes.  A member of `Calls` is
a call of `index_project` without a job and without the lock.  The history `unlocked`
has the claims that were indexed without it, all the way or from when it ran out.  A
transaction is atomic, as in Postgres.  `LocalStore` shares one connection between the
threads of a process, and heartbeat, complete and cancel commit on it without the
store's lock (`db/local_store.py:1668-1732`): on SQLite they may commit half of a
`commit_index_revision` of another thread (`:1437-1531`), which is not modelled.

**Vector synchronisation.**  A point's id is its chunk's, which contains the hash
of its content, so `points[c]` is the `revision_id` of the payload of chunk `c`'s
point.  Each call of the store and of Qdrant in `sync_project` is a step; the pages
of a scroll are one read; reads and writes of batches are taken in any order.
`deployed` says how many workers a behaviour has and whether they die.

**Training workspace.**  Four modules, since the code keeps the four protocols
apart; what one assumes of another is in its header.  A step is one transaction of
Postgres, one command of Redis or one call of the scheduler or the object store.
A frame holds the row as its actor read it.  Events are their rank and position; a
batch is what a reporter puts into one request, which outlives the reporter's wait
for it.

**Pretraining.**  A model is the sequence of its optimizer updates and an update the
set of the batches it was made of, so that `ResumeIsExact` compares what a run
computed and not where its counters stand.  Checkpoints are whole or torn and carry
the world they were saved by.

**Serving.**  A step is what happens between two awaits.  A request is in the line,
has a slot, is answered, or has left while its thread goes on; `generating` are the
threads.

**Offline parts.**  A file is known by who wrote it (a run, a stage, a text), a
digest is the text it was taken of, and a file that was opened and not yet written
is torn.  `DatasetReview` has the rows of the review tables; one operation is one
transaction.  `Calibration` reads them one by one as `finalize_stage` does.
`Crawl` has the frontier's rows, the shards of each process's directory and what
each crawler is doing between two calls of the store.

**Mutants.**  Definitions introduced by a comment "Mutant" are not part of the
specification: each is the plausible bug that shows that a property of a run can
fail.

**Side by side.**  Four MC modules extend several specifications that share no
state, choose one of them in the first state (`part`, from the constant `Parts`),
and leave the variables of the others as they are.  The state graph of such a run
is the disjoint union of the graphs of its parts: nothing is interleaved across
parts and nothing is lost, and a part is checked as if it had a run of its own.
Invariants of the other parts hold trivially in their initial state.  `Calibration`
is different: it extends `DatasetReview` and the two do interleave.

## What is checked

| Run | Instance | Properties |
|---|---|---|
| `gateway` | `tasks`: 1 process, chain of 2, 2 calls, 1 crash | `RetryBudget`, `CompletedGraphIsComplete`, `CompletedKeepsOutput` |
| | `review`: 2 items, 2 reviewers, 2 adjudicators, both stores | `ReviewsAreBlind`, `VerdictStands` |
| | `calibration`: 1 sampled item, 2 stages, 2 finalizations, 1 change of governance | `PassedStaysReplayable` |
| | `pipeline`: 2 runs, 1 kill | `VersionIsOfOneRun` |
| | `crawl`: 3 pages, a command run twice, a worker, a supervisor with 2 cycles | `FetchesWithinLimit` |
| | `serving`: 3 requests, 2 slots, a line of 2, 2 departures | `GenerationsDoNotOverlap` |
| | `campaign`: 2 stages of 3 validations, 1 death | `StagesAreEarned` |
| | `experiment`: 2 arms, 2 commands at a time, 1 death | `PromotionIsOnAdmittedEvidence` |
| `two_processes` | `tasks`: 2 pools, 1 task, 1 cancellation or 1 crash | `LeaseHeldIffRunning`, `CancelledNeverRuns`, `OutputMatchesBoard` |
| | `patches`: 2 files, 1 execution, 1 client, 2 patches, 1 failure of a write, a row, a task or a process, and a restore that fails in the undo of it | `TestedIsApplied`, `FilesMatchPatches` |
| `services` | `tasks`: 1 pool, diamond of 4, 1 crash, fair | `KeepsLifecycle` (the refinement), `RunSettles` |
| | `jobs`: 4 jobs (retries; failures; a resume; a notebook), fair | `JobEnds` |
| | `pretrain`: 4 plans, 2 deaths | `ResumeIsExact` |
| `workspace` | `jobs`: 4 jobs (both kinds of schedulers, which preempt and cancel; budgets of 1, 2, 3; 2 events; a crash), 2 requests | `VersionNamesState`, `OneHandlerPerEvent`, `OneWorkerTrains` |
| | `events`: 2 ranks, 3 events, 2 requests, 1 fault of five kinds | `StreamedOnce`, `ReadersMissNothing`, `LostOnlyByRefusal` |
| | `promotion`: 2 steps, 2 contents, 2 requests | `ReleasedIsProven`, `CheckpointIsImmutable` |
| | `admission`: 4 keys, 2 milestones, 2 requests, 1 resume | `QuotaOvershootBounded`, `MilestonesInOrder` |
| `index_jobs` | 2 jobs, 2 workers, lock, 1 edit; 1 death, failure of Redis or lock that runs out under its worker; 1 direct call | `ActiveIsWhole`, `IndexingMeansBuilding`, `CancelWins`, `SucceededByLastClaim`, `IndexMovesForward` |
| `index_settles` | 2 jobs, 2 workers, lock, no direct call, fair, nobody dies | `JobsSettle` |
| `vector` | 1 worker that may die or 2 that do not, up to 3 revisions, fair | `LabelsAreTrue`, `DeliveredIsSearchable`, `DeliveryIsFinal`, `EventsSettle` |
| `cancel_one_process` | 1 pool, chain, 1 cancellation through the gateway | violates `CancelIsFinal` |
| `crawl_shards` | the `crawl` part of `gateway` | violates `CrawledIsKept` |
| `training_replay` | the `events` part of `workspace`, batches of one | violates `ReplayIsSafe` |
| `training_completion` | the `jobs` part of `workspace` | violates `CompletionIsRecorded` |
| `ladder_baseline` | 2 stages of 2 validations | violates `ImprovementIsMeasured` |

What the properties say stands above each of them in its module.  Some are of
particular interest because nothing in the code states them and a test would hardly
find them broken:

* `PassedStaysReplayable`: `finalize_stage` reads the authority record by record
  while reviewers go on.  It is still replayable, because a record is only accepted
  once it is judged and a judged record never changes (`VerdictStands`).
* `ReviewsAreBlind`: Postgres's claim looks at no status.  What keeps it from handing
  out an item whose decisions are shown is that all of its slots are then taken.
* `ReadersMissNothing`: two gateways append concurrently; the archiver's cursor
  and a client's last id never pass an event that is still on its way.
* `ResumeIsExact`: an epoch may end within an optimizer step, and a checkpoint may
  have been saved by another world.
* `KeepsLifecycle`: `TaskLifecycle` says which changes of a task's status are
  allowed at all; a pool with its crashes, recoveries, timeouts and retries
  implements it.  It is the abstract specification of the pool.

`gateway` and `two_processes` check for deadlock (their parts that may stop are
allowed to stutter, a pool is not).  The other passing runs are of systems that stop
when their attempts, revisions or inputs are used up and set `CHECK_DEADLOCK FALSE`;
`index_settles`, `vector` and `services` say of theirs that they stop settled.

## Bounds

`MaxAttempts` is 2, the default of the schema: one retry and exhaustion both occur.  A
chain has a ready and a blocked task; the diamond has two tasks in one batch, one of
which may end while the other's lease lapses, and a join.  Two processes are enough for
one to be stale with respect to the other; two calls are a cancellation and a late
answer.  A behaviour of two processes has the cancellation or the crash; what the run
checks there is proved for every number of both.  `MaxPatchFaults` is 2, so that the
undo of a failed write may fail; a behaviour of patches has failures or patches that two
actors handle at once, not both.  `max_iterations = 100` is never reached by a pool on
its own: a graph of ten tasks with two attempts each has at most twenty batches.

Two index jobs of two attempts are four revisions: one committed, one superseded,
one failed, one building.  One edit makes two snapshots differ, which is what
`IndexMovesForward` is about.  `MCBound` stops a behaviour of `index_jobs` at three
claims, or at two where a failure or a direct call comes in, and lets it have one of
these, not both, but for a call that dies while it builds: each race of two of them
is there, and the proofs know no bound.  Revisions share some chunks and not others, so that
a synchronisation creates, relabels and deletes points; the third revision brings
back a chunk that the second one dropped.

Two requests at a time race each other; a third would race one of them in the same
way (the quota's bound is stated in their number).  A job of one attempt has the events
and the crash; jobs of two and of three attempts have at most one event and no crash,
and show the retries.  Events of two ranks interleave,
a queue of one overflows, chunks of one make the archiver's cursor move often.
Two steps of checkpoints are one before and one after `minimum_step`.  The plans of
`PretrainLoop` have epochs that end within steps, between them and never,
validations with and without saves, early stopping, and a world of one or two ranks.

Two reviewers, who may adjudicate too, are what a high-risk item needs; a second
item makes a claim sweep rows that are not its own.  Two stages are a calibration
and the one that binds its predecessor.  Three pages, two of one text, have a link
into the other and back.  Two runs and a kill are a run that finds the files of a
dead one.  Two stages of three validations have periodic saves that do and do not
fall on the best one.  Two arms and two commands are an admission beside a run.

Caps that only bound the exploration are the constants named `Max...` (calls,
crashes, edits, failures, faults, kills, deaths, departures, patches) and
`hiccups`, `events` and `resumes` of a job.  The `experiment` part has one evidence
directory, lets the files of one arm change, and the `calibration` part samples one
item and ignores the lapsing of submitted leases, which nothing reads.

## Fairness

`Fairness` of `WorkerPool` assumes that the event loop continues the code it has begun
and resumes coroutines that can run (asyncio's ready queue is FIFO), and that a handler
ends, at the latest by its registered timeout (`engine.py:274-301`).  It assumes nothing
of clients, crashes, the event or the clock.  In `IndexJobs` and `VectorSync` a worker
polls (`_run_worker` loops), goes on with what it executes and is restarted when it
ends; the lease of a job that nobody executes and a lock that nobody uses run out (one
that is in use may, and need not).  The lease of an outbox event runs out in any case,
since no heartbeat extends it.  Nothing obliges a job's kept lease to lapse, a client to
cancel, or a call to fail.  In `TrainingJobs` the controller's loop reconciles for ever
(`TrainingController`), a request that is served is served to its end, and the cluster
starts and ends what was submitted to it.  `MCServices` states the same weak fairness
with the part as a guard, so that it asks nothing of the other parts. All of it is weak
fairness; strong fairness is needed nowhere.

## Findings

* **Cancelling through the gateway does not stop handlers**
  (`cancel_one_process`), and their results overwrite the cancelled rows.
* **An event that Redis refuses is lost by its own replay** (`training_replay`).
  The sequence numbers are committed before the append; the replay of the log is
  answered that the events are known.
* **A notebook job that completes right after a checkpoint stays checkpointing**
  (`training_completion`): the transition to succeeded is not allowed from there
  and the event is skipped without an error.
* **A crawl that goes on deletes what it has crawled** (`crawl_shards`).  Every
  engine opens its shards with `overwrite=True`; the frontier never returns the
  pages again.
* **A later qualification stage is compared with itself** (`ladder_baseline`).  The
  recorded baseline is the file the stage's own training has replaced.

## What is proved

For every value of the constants, from the assumptions stated in the modules that
declare them; a theorem that needs more states it in its hypothesis.  In each case the
property is not inductive, and the text says what has to be added.  The invariants
were checked with TLC on the runs' instances before they were proved.

*Task graphs* (`TaskGraphProofs`: every graph, number of processes, calls and crashes):

* `TypeCorrect`: `PoolSpec => []PoolTypeOK`.  A statement about a row must have one;
  `TypeInv` adds `FramesNameTasks`.
* `LeasesMatchRunning` and `CancelledIsNotExecuted`: every step is at most one of
  the transactions of `TaskStore` (`NextTransaction`), and each transaction preserves
  the property.
* `OutputsAreFenced`: the step that stores an execution's outputs looks at no entry;
  `WriterFence` says that an execution about to complete has won its entry.

*One pool* (`SingleProcessProofs`: every graph, call and crash, with `Workers = {p}`;
what another process writes between two statements is outside these properties):

* `BudgetIsKept`: `RetryBudget` bounds claims and says nothing of attempts.
  `ClaimsCharged` says that every claim but the current one is charged to `attempt`, is
  about to be (between the two commits of `fail_task`), or was lost to a crash;
  `QueuedWithinBudget` and `FailureReadsBudget` say that a requeued row has budget left.
* `CompletionsKeepOutput`: `FailureOfOpenRow`, a failure that has committed the status
  and not yet the attempt is of a row that is not completed.
* `CompletionIsWhole`: between two statements a graph may be recorded completed over
  rows that are not.  `GraphCorrected` says that then a failure is on its way to correct
  it, `VerdictHolds` that a verdict that is on its way to be written still holds.
* `LifecycleIsKept`: `PoolSpec => KeepsLifecycle`, the refinement of `TaskLifecycle`,
  for a pool alone with its tables (`ApiOps = {}`; `cancel_one_process` shows that a
  cancellation through the gateway breaks it).  `LifeInv` says whose operation each
  statement is (`CallsOfPool`, `CallerOfLabel`), that a claim is of rows whose
  dependencies are completed (`ClaimIsReady`), that a handler whose task was cancelled
  has been stopped (`StopCovers`) and one whose task is done is about to end
  (`DoneIsEnding`).  `RowMove` lists what a step may do to a row, the executing set and
  the cancellations at once, and each of its cases is a step of the lifecycle.

*Index jobs* (`IndexProofs`, `IndexCommitProofs`: every set of jobs and workers, every
budget, number of failures):

* `TypeCorrect` needs that a worker that executes has a claim
  (`ClaimNamed`) and that heartbeats run only in the `try` block (`BeatingWorks`).
* `CancellationIsFinal` and `CompletionIsFenced`, from `SafeInv`: the worker a row
  names executes the row's last claim (`OwnerMadeLastClaim`), and a worker completes
  only what it committed (`CompletesCommitted`).  No lock is assumed.
* `SearchIsWhole` and `StatusIsTrue`, from `RevisionInv`: `OneBuilding` (the unique
  index) and what makes the begun revision new (`ClaimsDiffer`, `BegunByClaim`,
  `BeginsOnce`).  No lock is assumed.
* `IndexNeverGoesBack`, with no assumption on the lock or on how long indexing takes:
  `IndexMovesForward` is about the revisions that were built under the lock all the
  way (`WithoutLock` are the others).  `OrderInv`: of such a claim the worker still
  owns the lock, so there is one at a time (`OneLocked`); what it read is at least as
  young as what such claims have put into the index before; what it commits is what
  it read (`Ordered`).  What is built beside it, by a worker whose lock ran out or
  by a direct call, changes neither (`WorldFollows`).

*Vector synchronisation* (`DeliveryProofs`: any revisions, chunks and workers):

* `VectorTypes`, `LabelsStayTrue`, `DeliveriesStand`, from `LabelInv`: a worker
  synchronises a revision that was activated (`RevisionIsKnown`), the chunks it is
  about to write are of that revision (`KnowsItsChunks`), and only an event that is
  being delivered has an owner.
* `ActiveIsSearchable`: `DeliveredIsSearchable` asks for one worker at a time, which may
  lose its lease, fail and die.  `Progress` says how far it has come with the chunks of
  the active revision at each of its calls, `OneWorkerInv` that once that revision is
  delivered nothing is being done to the points.

*Training events* (`DeliveryProofs`: any ranks, events, requests and queue, any size of a
chunk):

* `StreamsOnce` and `OnlyRefusalLoses`, from `SenderInv`, which says where an event may
  be.  A reporter has emitted what it holds, holds it once, and what of it must be kept
  is held, with a request, or numbered (`ReporterInv`); it waits for one request, which has
  the events it sent or has numbered all of them (`Waits`), and no two wait for the
  same (`WaitDiffer`); an event the controller has numbered is about to be appended by
  one request, in the stream, refused, or died with its request (`RequestInv`,
  `StreamInv`).  While a log is replayed, what it holds is still to be sent,
  retained or numbered (`Replays`), so that writing it anew loses nothing.
* `ReadersMissNone`, from `ReadersInv`: ids increase along the stream, the archiver's
  chunk is exactly the entries that follow its cursor (`ChunkIsNext`).
* What `allocate` leaves of a request's events is a recursive function of them
  (`Unknown`).  `UnknownIs` and `UnknownEvents` say what it computes, by the least
  length at which it would not (`LeastOf`, from the well-foundedness of the naturals):
  the library's induction theorems need an operator argument, this form does not.

*Training jobs* (`WorkspaceProofs`: any jobs, requests at a time, events and attempts):

* `VersionsTellStates`: `VersionInv` says that a row that anyone has read is the job's or
  an older version of it, and that only the absent row has version 0.
* `EventsAreHandledOnce`: `HandInv` adds that the events a request has in hand have
  their sequences, which is why no other takes them into its hand.
* `WorkersAreBounded`: attempts are counted nowhere in the code but in the rows.
  `WorkersInv` says that each kind of scheduler has its own way to start a worker
  (`OneWayToStart`), that whoever is about to create an attempt is alone and the job has
  left the queue (`OneCreates`), that what the controller knows of the cluster is true
  of attempt 1 (`ControllerKnows`), that a second attempt follows a first that failed
  (`SecondAfterFirst`), and that no more are made than the budget says (`Budgeted`).

*Admission, checkpoints, patches* (`WorkspaceProofs`):

* `QuotaIsNearlyKept` and `MilestonesAreOrdered`, for any keys, requests and quota:
  `AdmissionInv`.  A request that read the quota is charged for the row it will insert
  (`AdmissionsCharged`); one that passed the predecessor check has a row before its own
  that unlocks the milestone, for good (`AdmissionIsDue`).
* `ReleasesAreProven` and `CheckpointsAreImmutable`, for any steps, contents,
  evaluations and requests: what a request checked when it began still holds when it
  goes on (`RequestIsChecked`), since committed checkpoints do not change.
* `AppliesWhatItTested`, for any files, executions and clients: `Staged` says at each
  statement of an attempt what its stage is made of, and that no late thread
  writes into it.
* `FilesTellPatches`: `Accounted` says that what a patch wrote is what its only
  writer has written, or will restore; `AccountInv` asks it of patches that no two
  actors handled and of processes that have not died, and for the files that are not
  in `leftover`.  A restore that fails, or that writes another patch's content, adds
  the files it leaves to that history and to nothing else.

*Dataset reviews and calibration* (`LearningProofs`: any items, reviewers and
adjudicators; both stores):

* `ReviewTypes`, `BlindReviews`, `VerdictsStand`: `ItemInv` says that the rows of an
  item have different reviewers and slots, that decisions are the submitted rows, that
  an item whose decisions are shown has a submitted row in every slot it requires, and
  that who was shown one was so only then.  Hence such an item has no free slot
  (`ClaimKeeps`) and no open row (`ShownIsDecided`), which is all that keeps a judged
  item from being claimed or decided on Postgres.
* `DecisionsReplay`, from that (`JudgedStay`): `CalibrationInv` says that what
  `finalize_stage` read of an item that was judged is still what the authority says
  (`Certain`).  The status is read first, so that the decisions and the adjudication
  read after it are the final ones (`ReadsStatus`, `ReadsVotes`).

*Pipeline and crawl* (`LearningProofs`: any runs; any pages, links and crawlers):

* `VersionsAreOfOneRun`: `PipelineInv` says that the run in the lock owns it and that
  what the directory holds is what this run has made so far (`MadeSoFar`, stage by
  stage), as long as no lock was taken away; the files of a dead run are all replaced
  before they are read.
* `RetriesEnd`: a row that may be claimed has an attempt left (`AttemptLeft`).  A
  failure writes the number its crawler was given at the claim, so that two holders
  of one row could undo each other's count: `HeldOnce` and `HoldsIts` say that a row has
  one holder, whose number is the row's.

*Experiments* (`LearningProofs`: any arms, scores, directories and overlapping
commands):

* `PromotionsAreEarned`: `ExperimentInv` says that whatever a file or a command holds
  as a selection is one of complete evidence (`EarnedSelection`).  It stays true
  because whole evidence is never written again (`EvidenceStays`), for which the
  files that commands are writing must be different and torn (`AnalystInv`): the
  exclusive open of `_exclusive_json` is what the proof rests on.

*Serving and qualification* (`ModelProofs`):

* `NoOverlap`, for every number of requests, slots and places: `GenerationsDoNotOverlap`
  counts threads, the server counts slots.  `SlotsCharged` says that free slots and the
  requests or threads that hold one are at most `MaxConcurrent` together; a slot is
  given back only when the thread it was taken for has ended.  It is an inequality,
  since a client that leaves may keep one.
* `LadderTypes`, `StagesEarned`, for ladders, segments, scores and deaths of any number:
  `LadderInv` adds that a command trains the stage after the recorded ones from where
  they ended and selects from its own part (`CommandIsEarned`), and that the
  directory's latest checkpoint has reached the target of the last promoted stage.  A
  stage that stopped early is recorded and not promoted, so that none follows.

*Training* (`ModelProofs`):

* `PretrainIsTyped` and `ResumesExactly`, for every plan and any number of deaths.
  `PretrainInv` says that the place in the stream is the one of the completed steps,
  `epoch * batches + offset = steps * accumulation` (`StreamStands`), which is what a
  restart computes back by division (`PlaceIs`, `DivModUnique`); that there is a step
  left where one is taken and a completed one where a checkpoint is saved
  (`StepsAreCounted`); and that a manifest is written of the directory just saved
  (`ManifestIsOfSaved`).  The places that a step reads are a recursive function;
  `PlacesAre` says which they are, by the least one that would be another.

Every safety invariant and every action property of a passing run is thus proved.
Model-checked only are `RunSettles`, `JobsSettle`, `EventsSettle` and `JobEnds`: liveness
under fairness is outside the prover.

## Observations

What the code was seen to do while it was modelled; no run states it, because no
document contradicts it, or because it follows at once from the lines given.

*Tasks and index.*  Across processes, `fail_task` may write an attempt over one that
recovery counted in between.  A revision left building by a dead worker refuses every
later one of its project (`db/local_store.py:1361`).  A job refused the project lock
uses up an attempt, and the lock is asked for outside the `try`, so that one whose
Redis fails, or whose worker dies, at the last attempt stays running
(`indexing/repository_indexer.py:1302`, `db/local_store.py:1628-1646`); so does a
cancelled one whose worker dies.  An older snapshot of the repository may replace a
newer one in two ways: a worker indexes for longer than the lock's TTL, or
`index_project` is called without the lock (`gateway/api.py:1019`,
`runtime/execution.py:686` and `:786`, `runtime/engine.py:469`,
`patches/service.py:208` and `:227`, `patches/verified_loop.py:63` and `:83`,
`indexing/context_builder.py:972`);
without what it excepts, `IndexMovesForward` would be false.
Two synchronisations share points, whose ids leave the revision out: the later may
delete or relabel those of the other.  A collaboration entry created as another kind
and updated to `evidence` keeps `immutable = 0` (`db/local_store.py:1016-1043`).

*Patches.*  An edit that is retried after it wrote its stage is tested with more than
the patch it applies.  Rollback and undo write back what preview saw: they wipe later
patches, and those of a patch that was previewed over another bring the other one's
content back, also when that was rolled back meanwhile.  Overlapping executions
overwrite whole files; a rollback that read `preview` while another applies records
rolled back and leaves the files; a crash within apply leaves part of the files under
status `preview`.  So does an apply that raises where nothing undoes it: in the fsync
that follows the rename (`patches/service.py:186-190`, the file is not yet in
`written`), in a restore of its undo (`:124`; the others are then not restored either),
or in the update of the row (`:126`); a rollback that raises half way leaves the patch
applied to some of its files.  "If a multi-file apply raises, already-written files are
restored" (`docs/aeitron_complete_architecture_manual.md:532`) is true of a failure
before a rename, and of one only.

*Training workspace.*  With a budget of three attempts, the default
(`training_workspace.py:256`), two workers may train one job: while `reconcile_job`
submits attempt 2 (`:4046-4165`), events may move the row before its binding is written
and again before each of the two `except` clauses, so that the binding stays that of
attempt 1; the next poll finds that one failed and starts attempt 3 beside attempt 2. A
budget of two excludes it, and a proof that failed for three is how it was found:
`OneWorkerTrains` states what is true of each.  A cancelled job's worker is not stopped
without a scheduler; late events of an old attempt move the job of the new one; a
version conflict fails a healthy job; a crash within `create_job` leaves it `validating`
and holding its quota; a controller that dies between the submission and the binding of
an attempt leaves the job provisioning and the attempt unknown; a resume bypasses the
quota and requires a flag that no endpoint sets; two promotions may move the pointer
back; Redis may be trimmed before it is archived.

*Pretraining.*  A run of FSDP with two ranks can neither resume nor pass its own final
reload (`pretrain_loop.py:1512-1526`, `595-600`).  A run that died after its final save
and before its report cannot be finished.  One that stopped early and is started again
goes on.  A periodic save at the step of the best one invalidates the best manifest.

*Serving.*  A client that leaves during a streamed answer cancels the coroutine before
it gives back its slot or its place (`native_serving.py:192-231`).  `Serving` has that
step (`Depart`); it is why the proof's invariant is an inequality.

*Crawl and pipeline.*  Postgres counts an attempt at the claim and at the failure, so
that a limit of three gives two fetches and three on SQLite.  Pages of a dead crawler
stay in progress.  Two containers share shard names.  A run of more than a day loses its
lock, and two starters may each remove it.  The shard manifest has the time, so that a
rerun never resumes a killed run's training although it asks to.

*Calibration, experiments, qualification.*  Finalizing the first stage again rewrites
what the second one is bound to.  A command that dies between open and write leaves an
empty file that none may replace.  The digest of the arm reports is taken after the
comparison, of a file another run on another directory may have replaced: with two
directories a promotion may verify against evidence it was not made of (it is still a
selection of complete evidence, which is what is proved).  Two qualification commands at
once lose one's record; one that dies after the last save can never be finished.

*Quota and cache.*  A gateway whose clock is behind moves `last_updated` back, so that an
interval is refilled twice (`identity/quota.py:65`).  The lock file of an artifact
cache whose holder died is never removed (`model_ops/data_loader.py:76`).

## Not modelled

The map covers about a sixth of the implementation.  The rest has no protocol that a
model checker would say more about than a unit test:

* **Functions of one input**: profiles, manifests and schemas of the training workspace,
  release gates, scorecards, benchmarks and their statistics, contamination and quality
  filters, deduplication and mixing of rows, tokenizers, prompts, diff rendering, context
  selection, static audits and readiness checks.  They make up most of
  `learning/`, `evaluation/`, `deployment/` and `security/`, and of the lines of
  `training_workspace.py`, `dataset_authority.py` and `ablation_runner.py` the models
  leave out.
* **Numerical code**: model layers, optimizers, tensors, the foundation package.
* **External services and subprocesses**: Qdrant, Redis, schedulers and object stores
  beyond their calls; the sandbox, the verifier, the launcher; Alembic migrations.
* **Collaboration**: its negotiation is called by tests only.  The board entry a task
  writes is in `TaskStore` (`OutputMatchesBoard`).
* **Identity, quota**: one key per row and arithmetic on real time.
* **Memory, planning, observability, command line, web front end**: single inserts,
  deterministic text, metrics, argument parsing.

Within what is modelled: the messages and failure events an execution records; SQLite's
`database is locked`; contents of outputs; the reuse of a worker id (`uuid4`: a process
that restarts its pool keeps its name in the model, which only adds behaviours); the
stream that wakes index workers (they poll anyway), tenants and row security, the
dispatcher of the distributed worker and the other vector backends; a connection that
two threads of `LocalStore` share; two archivers at once; DeepSpeed's own engine;
development runs of the calibration and its thresholds; experiments of several chains
(`advance-7b`) and comparisons other than the tokenizer selection; the inputs of a
qualification, which are the same in every command, and its other gates, which are one
choice.
