----------------------------- MODULE IndexJobs -----------------------------
(***************************************************************************)
(* The repository index of one project: rag_index_jobs, the index          *)
(* revisions and the chunks they commit (db/local_store.py), and the       *)
(* workers that execute the jobs (RAGIndexCoordinator and                  *)
(* RepositoryIndexer.index_project in indexing/repository_indexer.py).     *)
(*                                                                         *)
(* Every transaction is one step, and every await between two of them lets *)
(* other workers, clients, lapsing leases and crashes come in between.     *)
(* frame[w] is the job a worker executes and where it is.  A revision is   *)
(* named by the claim that builds it, the job and its attempt: new_id()    *)
(* gives every begin a name of its own and a claim begins at most once.    *)
(* The repository is abstracted to a version that edits raise, a snapshot  *)
(* of it to the version it was read at.                                    *)
(*                                                                         *)
(* The gateway in development, an agent's execution, a verified patch, the *)
(* engine and the context builder call index_project themselves, without a *)
(* job and without the project lock (Calls).                               *)
(*                                                                         *)
(* A transaction is atomic here, as it is in Postgres.  In the LocalStore  *)
(* the threads of one process share a connection, and heartbeat, complete  *)
(* and cancel commit on it without the store's lock: half a transaction of *)
(* another thread may be committed by them.  That is not modelled.         *)
(***************************************************************************)
EXTENDS Naturals, FiniteSets

CONSTANTS
  Jobs,             \* the idempotency keys clients submit
  Workers,          \* worker ids; a supervisor restarts a worker under its id
  MaxAttempts,      \* rag_index_jobs.max_attempts
  UseRedis,         \* whether the project lock is there (AEITRON_REDIS_URL)
  Calls,            \* direct calls of index_project
  MaxEdits,         \* bound: edits of the repository
  Failures,         \* the kinds that occur: "crash", "redis", "slow"
  MaxFailures,      \* bound: processes that die, calls of Redis that raise and
                    \* locks that run out under their worker
  None              \* NULL

ASSUME IndexAssumption ==
  /\ MaxAttempts \in Nat \ {0}
  /\ UseRedis \in BOOLEAN
  /\ MaxEdits \in Nat
  /\ MaxFailures \in Nat
  /\ None \notin Workers \union Calls \union (Workers \X Jobs) \union (Jobs \X (1 .. MaxAttempts))
  /\ Calls \intersect (Jobs \X (1 .. MaxAttempts)) = {}

VARIABLES
  status,     \* rag_index_jobs.status; "absent" before the insert
  attempt,    \* rag_index_jobs.attempt
  owner,      \* rag_index_jobs.lease_owner
  lapsed,     \* the jobs whose lease_expires_at has passed
  cancelReq,  \* the jobs with cancel_requested
  built,      \* rag_index_jobs.revision_id
  revision,   \* rag_index_revisions.status; "absent" before the insert
  snapshot,   \* rag_index_revisions.source_snapshot_sha256
  active,     \* projects.active_index_revision
  index,      \* projects.index_status
  chunks,     \* the index_revision that the chunk rows carry
  announced,  \* the revisions with a row in rag_outbox_events
  source,     \* the repository on disk
  lock,       \* the project lock in Redis: who holds it
  frame,      \* what each worker is doing
  beating,    \* the workers whose heartbeat task is running
  call,       \* where each direct call is, and the snapshot it has read
  unlocked,   \* history: the claims that were indexed without the lock, all
              \* the way or from the moment it ran out
  failures    \* how many there have been

jobs == <<status, attempt, owner, lapsed, cancelReq, built>>
project == <<revision, snapshot, active, index, chunks, announced>>
others == <<call, unlocked>>
bounds == <<source, failures>>
vars == <<jobs, project, lock, frame, beating, others, bounds>>

JobStatus == {"absent", "queued", "running", "succeeded", "cancelled", "dead_letter"}
Terminal == {"succeeded", "cancelled", "dead_letter"}
RevisionStatus == {"absent", "building", "committed", "failed", "superseded"}
Claims == Jobs \X (1 .. MaxAttempts)
Revisions == Claims \union Calls

Label == {"idle", "lock", "refused", "read", "begin", "build", "commit",
          "abort", "complete", "fail", "unlock", "down"}

\* permanent: the exception is of a kind that is not retried.  raised: an
\* exception is on its way out of the worker's loop, which ends the process.
Frame == [pc : Label, job : Jobs \union {None}, tries : 0 .. MaxAttempts,
          snap : Nat, permanent : BOOLEAN, raised : BOOLEAN]

\* The statements of index_project up to the commit.
Indexing == {"read", "begin", "build", "commit"}

Call == [pc : {"idle", "begin", "build", "done"}, snap : Nat]

FrameAt(label, j, n) == [pc |-> label, job |-> j, tries |-> n, snap |-> 0,
                         permanent |-> FALSE, raised |-> FALSE]
NoFrame(label) == FrameAt(label, None, 0)

At(w, label) == frame[w].pc = label
Enter(w, f) == frame' = [frame EXCEPT ![w] = f]
Goto(w, label) == Enter(w, [frame[w] EXCEPT !.pc = label])
Raise(w, label, permanent) ==
  Enter(w, [frame[w] EXCEPT !.pc = label, !.permanent = permanent])
Claimed(w) == <<frame[w].job, frame[w].tries>>
LockOwner(w) == <<w, frame[w].job>>
Executing(w) == frame[w].pc \notin {"idle", "down"}

Fails(kind) ==
  /\ kind \in Failures
  /\ failures < MaxFailures
  /\ failures' = failures + 1

Init ==
  /\ status = [j \in Jobs |-> "absent"]
  /\ attempt = [j \in Jobs |-> 0]
  /\ owner = [j \in Jobs |-> None]
  /\ lapsed = {}
  /\ cancelReq = {}
  /\ built = [j \in Jobs |-> None]
  /\ revision = [r \in Revisions |-> "absent"]
  /\ snapshot = [r \in Revisions |-> 0]
  /\ active = None
  /\ index = "pending"
  /\ chunks = None
  /\ announced = {}
  /\ source = 0
  /\ lock = None
  /\ frame = [w \in Workers |-> NoFrame("idle")]
  /\ beating = {}
  /\ call = [c \in Calls |-> [pc |-> "idle", snap |-> 0]]
  /\ unlocked = {}
  /\ failures = 0
-----------------------------------------------------------------------------
(* The job table. *)

\* A key that is there already returns its row and changes nothing.
CreateIndexJob(j) ==
  /\ status[j] = "absent"
  /\ status' = [status EXCEPT ![j] = "queued"]
  /\ UNCHANGED <<attempt, owner, lapsed, cancelReq, built, project, lock, frame, beating, others, bounds>>

RequestIndexJobCancel(j) ==
  /\ status[j] \in {"queued", "running"}
  /\ j \notin cancelReq
  /\ cancelReq' = cancelReq \union {j}
  /\ status' = [status EXCEPT ![j] = IF @ = "queued" THEN "cancelled" ELSE @]
  /\ UNCHANGED <<attempt, owner, lapsed, built, project, lock, frame, beating, others, bounds>>

\* The order among claimable rows is that of their retry delays, so any may
\* be the first.  Mutant: the budget is not looked at.
ClaimableForever(j) ==
  /\ status[j] = "queued" \/ (status[j] = "running" /\ j \in lapsed)
  /\ j \notin cancelReq
Claimable(j) ==
  /\ status[j] = "queued" \/ (status[j] = "running" /\ j \in lapsed)
  /\ j \notin cancelReq
  /\ attempt[j] < MaxAttempts

ClaimIndexJob(w, j) ==
  /\ At(w, "idle")
  /\ Claimable(j)
  /\ status' = [status EXCEPT ![j] = "running"]
  /\ attempt' = [attempt EXCEPT ![j] = @ + 1]
  /\ owner' = [owner EXCEPT ![j] = w]
  /\ lapsed' = lapsed \ {j}
  /\ Enter(w, FrameAt("lock", j, attempt[j] + 1))
  /\ UNCHANGED <<cancelReq, built, project, lock, beating, others, bounds>>

HoldsLease(w, j) == status[j] = "running" /\ owner[j] = w

\* A heartbeat that finds no row to extend ends the heartbeat task.
HeartbeatIndexJob(w) ==
  /\ w \in beating
  /\ LET j == frame[w].job IN
     IF HoldsLease(w, j) /\ j \notin cancelReq
     THEN lapsed' = lapsed \ {j} /\ UNCHANGED beating
     ELSE beating' = beating \ {w} /\ UNCHANGED lapsed
  /\ UNCHANGED <<status, attempt, owner, cancelReq, built, project, lock, frame, others, bounds>>

\* Cancellation comes first, then the budget and the kind of the error.
\* Mutants: the budget off by one; the cancellation not looked at.
FailedStatusLate(j, permanent) ==
  IF j \in cancelReq THEN "cancelled"
  ELSE IF permanent \/ attempt[j] > MaxAttempts THEN "dead_letter" ELSE "queued"
FailedStatusUncancelled(j, permanent) ==
  IF permanent \/ attempt[j] >= MaxAttempts THEN "dead_letter" ELSE "queued"
FailedStatus(j, permanent) ==
  IF j \in cancelReq THEN "cancelled"
  ELSE IF permanent \/ attempt[j] >= MaxAttempts THEN "dead_letter" ELSE "queued"

Release(j, s) ==
  /\ status' = [status EXCEPT ![j] = s]
  /\ owner' = [owner EXCEPT ![j] = None]
  /\ lapsed' = lapsed \ {j}
  /\ UNCHANGED <<attempt, cancelReq>>

\* fail_index_job, which raises when the lease is gone.
FailIndexJob(w, permanent) ==
  LET j == frame[w].job IN
  IF HoldsLease(w, j)
  THEN Release(j, FailedStatus(j, permanent)) /\ UNCHANGED built
  ELSE UNCHANGED jobs
-----------------------------------------------------------------------------
(* The index revisions. *)

Building(r) == revision[r] = "building"

\* The unique index over building revisions refuses a second one.
\* Mutant: the index is not there.
BeginRefusedNever == FALSE
BeginRefused == \E r \in Revisions : Building(r)

BeginIndexRevision(r, snap) ==
  /\ revision' = [revision EXCEPT ![r] = "building"]
  /\ snapshot' = [snapshot EXCEPT ![r] = snap]
  /\ index' = "indexing"
  /\ UNCHANGED <<active, chunks, announced>>

FailIndexRevision(r) ==
  /\ revision' = [revision EXCEPT ![r] = "failed"]
  /\ index' = "failed"
  /\ UNCHANGED <<snapshot, active, chunks, announced>>

\* One transaction replaces the chunks, the committed revision and the
\* project's pointer, and announces the revision to the vector index.
\* Mutant: the revision before it stays committed.
CommitIndexRevisionBeside(r) ==
  /\ revision' = [revision EXCEPT ![r] = "committed"]
  /\ active' = r
  /\ chunks' = r
  /\ index' = "ready"
  /\ announced' = announced \union {r}
  /\ UNCHANGED snapshot
CommitIndexRevision(r) ==
  /\ revision' = [q \in Revisions |-> IF q = r THEN "committed"
                                      ELSE IF revision[q] = "committed" THEN "superseded"
                                      ELSE revision[q]]
  /\ active' = r
  /\ chunks' = r
  /\ index' = "ready"
  /\ announced' = announced \union {r}
  /\ UNCHANGED snapshot
-----------------------------------------------------------------------------
(* execute_claimed_index_job and index_project. *)

\* SET NX.  Mutant: the lock is granted to everyone.
LockRefusedNever == FALSE
LockRefused == UseRedis /\ lock # None

AcquireProjectLock(w) ==
  /\ At(w, "lock")
  /\ ~LockRefused
  /\ IF UseRedis
     THEN lock' = LockOwner(w) /\ UNCHANGED unlocked
     ELSE unlocked' = unlocked \union {Claimed(w)} /\ UNCHANGED lock
  /\ beating' = beating \union {w}
  /\ Goto(w, "read")
  /\ UNCHANGED <<jobs, project, call, bounds>>

LockIsHeld(w) ==
  /\ At(w, "lock")
  /\ LockRefused
  /\ Goto(w, "refused")
  /\ UNCHANGED <<jobs, project, lock, beating, others, bounds>>

\* Redis is asked for the lock before anything guards the call: the worker
\* ends and the row stays running.
LockCallRaises(w) ==
  /\ At(w, "lock")
  /\ UseRedis
  /\ Fails("redis")
  /\ Enter(w, NoFrame("down"))
  /\ UNCHANGED <<jobs, project, lock, beating, others, source>>

\* Refused before the try: neither a heartbeat nor a lock to give back.
FailRefused(w) ==
  /\ At(w, "refused")
  /\ FailIndexJob(w, FALSE)
  /\ Enter(w, NoFrame(IF HoldsLease(w, frame[w].job) THEN "idle" ELSE "down"))
  /\ UNCHANGED <<project, lock, beating, others, bounds>>

ReadSource(w) ==
  /\ At(w, "read")
  /\ Enter(w, [frame[w] EXCEPT !.pc = "begin", !.snap = source])
  /\ UNCHANGED <<jobs, project, lock, beating, others, bounds>>

\* A missing directory or a bad request is permanent, storage is not.
ReadRaises(w) ==
  /\ At(w, "read")
  /\ \E permanent \in BOOLEAN : Raise(w, "fail", permanent)
  /\ UNCHANGED <<jobs, project, lock, beating, others, bounds>>

Begin(w) ==
  /\ At(w, "begin")
  /\ IF BeginRefused
     THEN Raise(w, "fail", FALSE) /\ UNCHANGED project
     ELSE BeginIndexRevision(Claimed(w), frame[w].snap) /\ Goto(w, "build")
  /\ UNCHANGED <<jobs, lock, beating, others, bounds>>

CancelSeen(j) == j \in cancelReq \/ status[j] = "cancelled"

\* The last look at the cancellation before the commit.
BuildEnds(w) ==
  /\ At(w, "build")
  /\ ~CancelSeen(frame[w].job)
  /\ Goto(w, "commit")
  /\ UNCHANGED <<jobs, project, lock, beating, others, bounds>>

BuildIsCancelled(w) ==
  /\ At(w, "build")
  /\ CancelSeen(frame[w].job)
  /\ Raise(w, "abort", FALSE)
  /\ UNCHANGED <<jobs, project, lock, beating, others, bounds>>

\* A parser, or the transaction of the commit, which is rolled back.
BuildRaises(w) ==
  /\ frame[w].pc \in {"build", "commit"}
  /\ \E permanent \in BOOLEAN : Raise(w, "abort", permanent)
  /\ UNCHANGED <<jobs, project, lock, beating, others, bounds>>

Commit(w) ==
  /\ At(w, "commit")
  /\ IF Building(Claimed(w))
     THEN CommitIndexRevision(Claimed(w)) /\ Goto(w, "complete")
     ELSE Raise(w, "abort", FALSE) /\ UNCHANGED project
  /\ UNCHANGED <<jobs, lock, beating, others, bounds>>

\* A revision that is no longer building is left alone.
Abort(w) ==
  /\ At(w, "abort")
  /\ IF Building(Claimed(w)) THEN FailIndexRevision(Claimed(w)) ELSE UNCHANGED project
  /\ Goto(w, "fail")
  /\ UNCHANGED <<jobs, lock, beating, others, bounds>>

\* Mutant: the row is completed whoever holds it.
CompletesAnyway(w) == status[frame[w].job] = "running" /\ frame[w].job \notin cancelReq
Completes(w) == HoldsLease(w, frame[w].job) /\ frame[w].job \notin cancelReq

CompleteIndexJob(w) ==
  /\ At(w, "complete")
  /\ LET j == frame[w].job IN
     IF Completes(w)
     THEN /\ Release(j, "succeeded")
          /\ built' = [built EXCEPT ![j] = Claimed(w)]
          /\ Goto(w, "unlock")
     ELSE Raise(w, "fail", FALSE) /\ UNCHANGED jobs
  /\ UNCHANGED <<project, lock, beating, others, bounds>>

\* A lease that is gone raises out of the handler.
FailJob(w) ==
  /\ At(w, "fail")
  /\ FailIndexJob(w, frame[w].permanent)
  /\ Enter(w, [frame[w] EXCEPT !.pc = "unlock", !.raised = ~HoldsLease(w, frame[w].job)])
  /\ UNCHANGED <<project, lock, beating, others, bounds>>

\* The finally clause: the heartbeat is stopped and awaited, the lock given
\* back if it is still this claim's.
GivenBack(w) == IF lock = LockOwner(w) THEN None ELSE lock

ReleaseProjectLock(w) ==
  /\ At(w, "unlock")
  /\ beating' = beating \ {w}
  /\ lock' = GivenBack(w)
  /\ Enter(w, NoFrame(IF frame[w].raised THEN "down" ELSE "idle"))
  /\ UNCHANGED <<jobs, project, others, bounds>>

\* The notification of a retry and the release of the lock call Redis too;
\* the lock may or may not have been given back.
UnlockCallRaises(w) ==
  /\ At(w, "unlock")
  /\ UseRedis
  /\ Fails("redis")
  /\ beating' = beating \ {w}
  /\ lock' \in {lock, GivenBack(w)}
  /\ Enter(w, NoFrame("down"))
  /\ UNCHANGED <<jobs, project, others, source>>

Execute(w) ==
  \/ AcquireProjectLock(w) \/ LockIsHeld(w) \/ LockCallRaises(w) \/ FailRefused(w)
  \/ ReadSource(w) \/ ReadRaises(w) \/ Begin(w)
  \/ BuildEnds(w) \/ BuildIsCancelled(w) \/ BuildRaises(w) \/ Commit(w) \/ Abort(w)
  \/ CompleteIndexJob(w) \/ FailJob(w) \/ ReleaseProjectLock(w) \/ UnlockCallRaises(w)
-----------------------------------------------------------------------------
(* A direct call of index_project. *)

CallMoves(c, label) == call' = [call EXCEPT ![c].pc = label]

CallReads(c) ==
  /\ call[c].pc = "idle"
  /\ call' = [call EXCEPT ![c] = [pc |-> "begin", snap |-> source]]
  /\ UNCHANGED <<jobs, project, lock, frame, beating, unlocked, bounds>>

CallBegins(c) ==
  /\ call[c].pc = "begin"
  /\ IF BeginRefused
     THEN CallMoves(c, "done") /\ UNCHANGED project
     ELSE BeginIndexRevision(c, call[c].snap) /\ CallMoves(c, "build")
  /\ UNCHANGED <<jobs, lock, frame, beating, unlocked, bounds>>

\* Nobody else ends the revision of a call; a call that raises fails it.
CallEnds(c) ==
  /\ call[c].pc = "build"
  /\ Building(c)
  /\ CommitIndexRevision(c) \/ FailIndexRevision(c)
  /\ CallMoves(c, "done")
  /\ UNCHANGED <<jobs, lock, frame, beating, unlocked, bounds>>

\* A revision that was being built stays so, and no other can begin.
CallDies(c) ==
  /\ call[c].pc \in {"begin", "build"}
  /\ Fails("crash")
  /\ CallMoves(c, "done")
  /\ UNCHANGED <<jobs, project, lock, frame, beating, unlocked, source>>

IndexProject(c) == CallReads(c) \/ CallBegins(c) \/ CallEnds(c) \/ CallDies(c)
-----------------------------------------------------------------------------
(* Time, the repository's authors and the processes. *)

LeaseLapses(j) ==
  /\ owner[j] # None
  /\ lapsed' = lapsed \union {j}
  /\ UNCHANGED <<status, attempt, owner, cancelReq, built, project, lock, frame, beating, others, bounds>>

InUse(l) == \E w \in Workers : Executing(w) /\ LockOwner(w) = l

\* The TTL is twice the lease and nothing extends it, while the heartbeat
\* extends the lease as long as the indexing takes.
LockLapses ==
  /\ lock # None
  /\ IF InUse(lock) THEN Fails("slow") ELSE UNCHANGED failures
  /\ unlocked' = unlocked \union
       {Claimed(w) : w \in {v \in Workers : LockOwner(v) = lock /\ frame[v].pc \in Indexing}}
  /\ lock' = None
  /\ UNCHANGED <<jobs, project, frame, beating, call, source>>

EditSource ==
  /\ source < MaxEdits
  /\ source' = source + 1
  /\ UNCHANGED <<jobs, project, lock, frame, beating, others, failures>>

Crash(w) ==
  /\ ~At(w, "down")
  /\ Fails("crash")
  /\ Enter(w, NoFrame("down"))
  /\ beating' = beating \ {w}
  /\ UNCHANGED <<jobs, project, lock, others, source>>

Restart(w) ==
  /\ At(w, "down")
  /\ Enter(w, NoFrame("idle"))
  /\ UNCHANGED <<jobs, project, lock, beating, others, bounds>>

Next ==
  \/ \E j \in Jobs : CreateIndexJob(j) \/ RequestIndexJobCancel(j) \/ LeaseLapses(j)
  \/ \E w \in Workers : Execute(w) \/ HeartbeatIndexJob(w) \/ Crash(w) \/ Restart(w)
  \/ \E w \in Workers, j \in Jobs : ClaimIndexJob(w, j)
  \/ \E c \in Calls : IndexProject(c)
  \/ LockLapses
  \/ EditSource

Spec == Init /\ [][Next]_vars

\* A worker polls, executes what it claims and is restarted when it ends; a
\* lease or a lock that nobody keeps alive runs out.  Nothing obliges Redis
\* or a parser to fail, a client to cancel, or a kept lease to lapse.
DeadLease(j) == \A w \in Workers : ~(Executing(w) /\ frame[w].job = j)
Fairness ==
  /\ \A w \in Workers :
       /\ WF_vars(Execute(w))
       /\ WF_vars(Restart(w))
       /\ WF_vars(\E j \in Jobs : ClaimIndexJob(w, j))
  /\ \A j \in Jobs : WF_vars(DeadLease(j) /\ LeaseLapses(j))
  /\ WF_vars(~InUse(lock) /\ LockLapses)
FairSpec == Spec /\ Fairness
-----------------------------------------------------------------------------
(* Properties. *)

\* Every variable has its type.
TypeOK ==
  /\ status \in [Jobs -> JobStatus]
  /\ attempt \in [Jobs -> 0 .. MaxAttempts]
  /\ owner \in [Jobs -> Workers \union {None}]
  /\ lapsed \in SUBSET Jobs
  /\ cancelReq \in SUBSET Jobs
  /\ built \in [Jobs -> Revisions \union {None}]
  /\ revision \in [Revisions -> RevisionStatus]
  /\ snapshot \in [Revisions -> Nat]
  /\ active \in Revisions \union {None}
  /\ index \in {"pending", "indexing", "ready", "failed"}
  /\ chunks \in Revisions \union {None}
  /\ announced \in SUBSET Revisions
  /\ source \in Nat
  /\ lock \in (Workers \X Jobs) \union {None}
  /\ frame \in [Workers -> Frame]
  /\ beating \in SUBSET Workers
  /\ call \in [Calls -> Call]
  /\ unlocked \in SUBSET Claims
  /\ failures \in Nat

\* What is searched is one whole revision: the project points at the only
\* committed revision, the chunk rows carry its name, and exactly the
\* revisions that were ever searched have been announced to the vector index,
\* whatever rebuilds failed, died or were cancelled meanwhile.
ActiveIsWhole ==
  /\ {r \in Revisions : revision[r] = "committed"} = {active} \ {None}
  /\ chunks = active
  /\ announced = {r \in Revisions : revision[r] \in {"committed", "superseded"}}

\* The status clients poll says "indexing" exactly while a revision is being
\* built, although begin, commit and failure of different workers write it.
IndexingMeansBuilding == (index = "indexing") <=> \E r \in Revisions : Building(r)

\* A cancellation that was accepted is final: the job ends cancelled or, if
\* its worker died, never; it neither succeeds nor is queued or dead-lettered.
CancelWins == \A j \in cancelReq : status[j] \in {"running", "cancelled"}

\* A job that succeeded names the revision that its last claim built and
\* committed: a worker whose lease was taken over cannot finish it.
SucceededByLastClaim ==
  \A j \in Jobs : status[j] = "succeeded" =>
    built[j] = <<j, attempt[j]>> /\ built[j] \in announced

\* The index goes back to an older state of the repository only through a
\* revision that was built without the project lock: one that was built under
\* it all the way is not older than any other such revision that was searched
\* before it.  A direct call, and a worker whose lock ran out under it, may
\* put an older state in place of a newer one.
WithoutLock == unlocked \union Calls
IndexMovesForward ==
  [][active' # active /\ active' \notin WithoutLock =>
       \A r \in announced \ WithoutLock : snapshot[r] <= snapshot'[active']]_vars

\* Every submitted job ends succeeded, cancelled or dead-lettered.
JobsSettle == \A j \in Jobs : status[j] = "queued" ~> status[j] \in Terminal
=============================================================================
