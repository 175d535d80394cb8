---------------------------- MODULE IndexProofs ----------------------------
(***************************************************************************)
(* What TLC checks of the index jobs with two jobs and two workers, for    *)
(* any number of them, every budget and every number of failures.          *)
(***************************************************************************)
EXTENDS IndexJobs, TLAPS

-----------------------------------------------------------------------------
(* Type correctness. *)

\* A worker that executes has a claim to execute.
ClaimNamed ==
  \A w \in Workers : Executing(w) => Claimed(w) \in Claims

\* A heartbeat runs only next to the try block.
BeatingWorks ==
  \A w \in beating : frame[w].pc \notin {"idle", "down", "lock", "refused"}

TypeInv == TypeOK /\ ClaimNamed /\ BeatingWorks

JobsTyped ==
  /\ status \in [Jobs -> JobStatus]
  /\ attempt \in [Jobs -> 0 .. MaxAttempts]
  /\ owner \in [Jobs -> Workers \union {None}]
  /\ lapsed \in SUBSET Jobs
  /\ cancelReq \in SUBSET Jobs
  /\ built \in [Jobs -> Revisions \union {None}]

ProjectTyped ==
  /\ revision \in [Revisions -> RevisionStatus]
  /\ snapshot \in [Revisions -> Nat]
  /\ active \in Revisions \union {None}
  /\ index \in {"pending", "indexing", "ready", "failed"}
  /\ chunks \in Revisions \union {None}
  /\ announced \in SUBSET Revisions

FramesTyped ==
  /\ frame \in [Workers -> Frame]
  /\ beating \in SUBSET Workers
  /\ ClaimNamed
  /\ BeatingWorks

RestTyped ==
  /\ lock \in (Workers \X Jobs) \union {None}
  /\ call \in [Calls -> Call]
  /\ unlocked \in SUBSET Claims
  /\ source \in Nat
  /\ failures \in Nat

LEMMA TypeParts ==
  TypeInv <=> JobsTyped /\ ProjectTyped /\ FramesTyped /\ RestTyped
BY DEF TypeInv, TypeOK, JobsTyped, ProjectTyped, FramesTyped, RestTyped

LEMMA TypePartsNext ==
  JobsTyped' /\ ProjectTyped' /\ FramesTyped' /\ RestTyped' => TypeInv'
BY DEF TypeInv, TypeOK, JobsTyped, ProjectTyped, FramesTyped, RestTyped

LEMMA Unchanged ==
  /\ JobsTyped /\ UNCHANGED jobs => JobsTyped'
  /\ ProjectTyped /\ UNCHANGED project => ProjectTyped'
  /\ FramesTyped /\ UNCHANGED <<frame, beating>> => FramesTyped'
  /\ RestTyped /\ UNCHANGED <<lock, others, bounds>> => RestTyped'
<1>1. JobsTyped /\ UNCHANGED jobs => JobsTyped'
  BY DEF JobsTyped, jobs
<1>2. ProjectTyped /\ UNCHANGED project => ProjectTyped'
  BY DEF ProjectTyped, project
<1>3. FramesTyped /\ UNCHANGED <<frame, beating>> => FramesTyped'
  BY DEF FramesTyped, ClaimNamed, BeatingWorks, Executing, Claimed
<1>4. RestTyped /\ UNCHANGED <<lock, others, bounds>> => RestTyped'
  BY DEF RestTyped, others, bounds
<1> QED
  BY <1>1, <1>2, <1>3, <1>4

\* Replacing a worker's frame by one that names a claim where it must, while
\* the heartbeats that go on are those of workers in the try block.
LEMMA FrameUpdate ==
  ASSUME FramesTyped, NEW w \in Workers, NEW f \in Frame, Enter(w, f),
         f.pc \notin {"idle", "down"} => <<f.job, f.tries>> \in Claims,
         beating' \in SUBSET (beating \union {w}),
         w \in beating' => f.pc \notin {"idle", "down", "lock", "refused"}
  PROVE  FramesTyped'
<1>1. /\ frame' \in [Workers -> Frame]
      /\ frame'[w] = f
      /\ \A v \in Workers \ {w} : frame'[v] = frame[v]
  BY DEF FramesTyped, Enter
<1>2. ClaimNamed'
  BY <1>1 DEF FramesTyped, ClaimNamed, Executing, Claimed
<1>3. BeatingWorks'
  BY <1>1 DEF FramesTyped, BeatingWorks
<1> QED
  BY <1>1, <1>2, <1>3 DEF FramesTyped

\* A worker that goes on with its claim.
LEMMA GoOn ==
  ASSUME FramesTyped, NEW w \in Workers, Executing(w),
         NEW f \in Frame, Enter(w, f),
         f.job = frame[w].job, f.tries = frame[w].tries,
         \/ UNCHANGED beating /\ f.pc \notin {"idle", "down", "lock", "refused"}
         \/ UNCHANGED beating /\ w \notin beating
         \/ beating' = beating \union {w} /\ f.pc \notin {"idle", "down", "lock", "refused"}
  PROVE  FramesTyped'
<1>1. <<f.job, f.tries>> \in Claims
  BY DEF FramesTyped, ClaimNamed, Claimed
<1>2. beating' \in SUBSET (beating \union {w})
  BY DEF FramesTyped
<1>3. w \in beating' => f.pc \notin {"idle", "down", "lock", "refused"}
  OBVIOUS
<1> QED
  BY <1>1, <1>2, <1>3, FrameUpdate

\* A worker that leaves its claim.
LEMMA LeaveOff ==
  ASSUME FramesTyped, NEW w \in Workers, NEW label \in {"idle", "down"},
         Enter(w, NoFrame(label)),
         beating' \in SUBSET beating, w \notin beating'
  PROVE  FramesTyped'
<1>1. NoFrame(label) \in Frame /\ NoFrame(label).pc = label
  BY IndexAssumption DEF NoFrame, FrameAt, Frame, Label
<1> QED
  BY <1>1, FrameUpdate

-----------------------------------------------------------------------------
(* Each operation of the store keeps the tables typed. *)

LEMMA InitTyped == Init => TypeInv
BY IndexAssumption
   DEF Init, TypeInv, TypeOK, ClaimNamed, BeatingWorks, Executing, JobStatus,
       RevisionStatus, NoFrame, FrameAt, Frame, Label, Call

LEMMA FailedStatusType ==
  ASSUME NEW j \in Jobs, NEW permanent \in BOOLEAN
  PROVE  FailedStatus(j, permanent) \in JobStatus
BY DEF FailedStatus, JobStatus

LEMMA ReleaseType ==
  ASSUME JobsTyped, NEW j \in Jobs, NEW s \in JobStatus, Release(j, s),
         built' \in [Jobs -> Revisions \union {None}]
  PROVE  JobsTyped'
BY DEF JobsTyped, Release

LEMMA FailIndexJobType ==
  ASSUME JobsTyped, FramesTyped, NEW w \in Workers, Executing(w),
         NEW permanent \in BOOLEAN, FailIndexJob(w, permanent)
  PROVE  JobsTyped'
<1> DEFINE j == frame[w].job
<1>1. j \in Jobs
  BY DEF FramesTyped, ClaimNamed, Claimed, Claims
<1>2. CASE HoldsLease(w, j)
  BY <1>1, <1>2, FailedStatusType, ReleaseType DEF FailIndexJob, JobsTyped
<1>3. CASE ~HoldsLease(w, j)
  BY <1>3, Unchanged DEF FailIndexJob
<1> QED
  BY <1>2, <1>3

LEMMA RevisionType ==
  ASSUME ProjectTyped, NEW r \in Revisions, NEW snap \in Nat,
         BeginIndexRevision(r, snap) \/ FailIndexRevision(r) \/ CommitIndexRevision(r)
  PROVE  ProjectTyped'
<1>1. CASE BeginIndexRevision(r, snap)
  BY <1>1 DEF ProjectTyped, BeginIndexRevision, RevisionStatus
<1>2. CASE FailIndexRevision(r)
  BY <1>2 DEF ProjectTyped, FailIndexRevision, RevisionStatus
<1>3. CASE CommitIndexRevision(r)
  BY <1>3 DEF ProjectTyped, CommitIndexRevision, RevisionStatus
<1> QED
  BY <1>1, <1>2, <1>3

-----------------------------------------------------------------------------
(* Each step of a worker. *)

\* A worker that moves on to another statement of the try block.
LEMMA GotoType ==
  ASSUME FramesTyped, NEW w \in Workers, Executing(w),
         NEW label \in Label \ {"idle", "down", "lock", "refused"},
         \/ Goto(w, label)
         \/ \E permanent \in BOOLEAN : Raise(w, label, permanent),
         UNCHANGED beating \/ beating' = beating \union {w}
  PROVE  FramesTyped'
<1>1. CASE Goto(w, label)
  <2> DEFINE f == [frame[w] EXCEPT !.pc = label]
  <2>1. frame[w] \in Frame
    BY DEF FramesTyped
  <2>2. f \in Frame /\ f.pc = label /\ f.job = frame[w].job /\ f.tries = frame[w].tries
    BY <2>1 DEF Frame
  <2> QED
    BY <1>1, <2>2, GoOn DEF Goto
<1>2. ASSUME NEW permanent \in BOOLEAN, Raise(w, label, permanent)
      PROVE  FramesTyped'
  <2> DEFINE f == [frame[w] EXCEPT !.pc = label, !.permanent = permanent]
  <2>1. frame[w] \in Frame
    BY DEF FramesTyped
  <2>2. f \in Frame /\ f.pc = label /\ f.job = frame[w].job /\ f.tries = frame[w].tries
    BY <2>1 DEF Frame
  <2> QED
    BY <1>2, <2>2, GoOn DEF Raise
<1> QED
  BY <1>1, <1>2

LEMMA ExecuteType ==
  ASSUME TypeInv, NEW w \in Workers, Execute(w)
  PROVE  TypeInv'
<1> USE TypeParts
<1>1. JobsTyped /\ ProjectTyped /\ FramesTyped /\ RestTyped
  OBVIOUS
<1>2. Executing(w)
  BY DEF Execute, Executing, At, AcquireProjectLock, LockIsHeld, LockCallRaises, FailRefused,
         ReadSource, ReadRaises, Begin, BuildEnds, BuildIsCancelled, BuildRaises, Commit,
         Abort, CompleteIndexJob, FailJob, ReleaseProjectLock, UnlockCallRaises
<1>3. /\ frame[w] \in Frame
      /\ Claimed(w) \in Claims
      /\ Claimed(w) \in Revisions
      /\ frame[w].job \in Jobs
      /\ LockOwner(w) \in Workers \X Jobs
  BY <1>1, <1>2 DEF FramesTyped, ClaimNamed, Claimed, LockOwner, Claims, Revisions
<1>4. frame[w].pc \in {"lock", "refused"} => w \notin beating
  BY <1>1 DEF FramesTyped, BeatingWorks
<1> HIDE TypeParts
<1>5. CASE AcquireProjectLock(w)
  <2>1. FramesTyped'
    BY <1>1, <1>2, <1>5, GotoType DEF AcquireProjectLock, Label
  <2>2. RestTyped'
    BY <1>1, <1>3, <1>5 DEF AcquireProjectLock, RestTyped, bounds
  <2> QED
    BY <1>1, <1>5, <2>1, <2>2, Unchanged, TypePartsNext DEF AcquireProjectLock
<1>6. CASE LockIsHeld(w)
  <2> DEFINE f == [frame[w] EXCEPT !.pc = "refused"]
  <2>1. f \in Frame /\ f.pc = "refused" /\ f.job = frame[w].job /\ f.tries = frame[w].tries
    BY <1>3 DEF Frame, Label
  <2>2. FramesTyped'
    BY <1>1, <1>2, <1>4, <1>6, <2>1, GoOn DEF LockIsHeld, Goto, At
  <2> QED
    BY <1>1, <1>6, <2>2, Unchanged, TypePartsNext DEF LockIsHeld
<1>7. CASE LockCallRaises(w)
  <2>1. FramesTyped'
    BY <1>1, <1>4, <1>7, LeaveOff DEF LockCallRaises, At
  <2>2. RestTyped'
    BY <1>1, <1>7 DEF LockCallRaises, RestTyped, Fails, others
  <2> QED
    BY <1>1, <1>7, <2>1, <2>2, Unchanged, TypePartsNext DEF LockCallRaises
<1>8. CASE FailRefused(w)
  <2>1. FramesTyped'
    BY <1>1, <1>4, <1>8, LeaveOff DEF FailRefused, At
  <2>2. JobsTyped'
    BY <1>1, <1>2, <1>8, FailIndexJobType DEF FailRefused
  <2> QED
    BY <1>1, <1>8, <2>1, <2>2, Unchanged, TypePartsNext DEF FailRefused
<1>9. CASE ReadSource(w)
  <2> DEFINE f == [frame[w] EXCEPT !.pc = "begin", !.snap = source]
  <2>1. f \in Frame /\ f.pc = "begin" /\ f.job = frame[w].job /\ f.tries = frame[w].tries
    BY <1>1, <1>3 DEF Frame, Label, RestTyped
  <2>2. FramesTyped'
    BY <1>1, <1>2, <1>9, <2>1, GoOn DEF ReadSource
  <2> QED
    BY <1>1, <1>9, <2>2, Unchanged, TypePartsNext DEF ReadSource
<1>10. CASE ReadRaises(w)
  <2>1. FramesTyped'
    BY <1>1, <1>2, <1>10, GotoType DEF ReadRaises, Label
  <2> QED
    BY <1>1, <1>10, <2>1, Unchanged, TypePartsNext DEF ReadRaises
<1>11. CASE Begin(w)
  <2>1. FramesTyped'
    BY <1>1, <1>2, <1>11, GotoType DEF Begin, Label
  <2>2. ProjectTyped'
    BY <1>1, <1>3, <1>11, RevisionType, Unchanged DEF Begin, Frame
  <2> QED
    BY <1>1, <1>11, <2>1, <2>2, Unchanged, TypePartsNext DEF Begin
<1>12. CASE BuildEnds(w)
  <2>1. FramesTyped'
    BY <1>1, <1>2, <1>12, GotoType DEF BuildEnds, Label
  <2> QED
    BY <1>1, <1>12, <2>1, Unchanged, TypePartsNext DEF BuildEnds
<1>13. CASE BuildIsCancelled(w)
  <2>1. FramesTyped'
    BY <1>1, <1>2, <1>13, GotoType DEF BuildIsCancelled, Label
  <2> QED
    BY <1>1, <1>13, <2>1, Unchanged, TypePartsNext DEF BuildIsCancelled
<1>14. CASE BuildRaises(w)
  <2>1. FramesTyped'
    BY <1>1, <1>2, <1>14, GotoType DEF BuildRaises, Label
  <2> QED
    BY <1>1, <1>14, <2>1, Unchanged, TypePartsNext DEF BuildRaises
<1>15. CASE Commit(w)
  <2>1. FramesTyped'
    BY <1>1, <1>2, <1>15, GotoType DEF Commit, Label
  <2>2. ProjectTyped'
    BY <1>1, <1>3, <1>15, RevisionType, Unchanged DEF Commit
  <2> QED
    BY <1>1, <1>15, <2>1, <2>2, Unchanged, TypePartsNext DEF Commit
<1>16. CASE Abort(w)
  <2>1. FramesTyped'
    BY <1>1, <1>2, <1>16, GotoType DEF Abort, Label
  <2>2. ProjectTyped'
    BY <1>1, <1>3, <1>16, RevisionType, Unchanged DEF Abort
  <2> QED
    BY <1>1, <1>16, <2>1, <2>2, Unchanged, TypePartsNext DEF Abort
<1>17. CASE CompleteIndexJob(w)
  <2>1. FramesTyped'
    BY <1>1, <1>2, <1>17, GotoType DEF CompleteIndexJob, Label
  <2>2. CASE Completes(w)
    <3>1. Release(frame[w].job, "succeeded") /\ built' = [built EXCEPT ![frame[w].job] = Claimed(w)]
      BY <1>17, <2>2 DEF CompleteIndexJob
    <3>2. built' \in [Jobs -> Revisions \union {None}]
      BY <1>1, <1>3, <3>1 DEF JobsTyped
    <3> QED
      BY <1>1, <1>3, <1>17, <2>1, <3>1, <3>2, ReleaseType, Unchanged, TypePartsNext
         DEF CompleteIndexJob, JobStatus
  <2>3. CASE ~Completes(w)
    BY <1>1, <1>17, <2>1, <2>3, Unchanged, TypePartsNext DEF CompleteIndexJob
  <2> QED
    BY <2>2, <2>3
<1>18. CASE FailJob(w)
  <2> DEFINE f == [frame[w] EXCEPT !.pc = "unlock", !.raised = ~HoldsLease(w, frame[w].job)]
  <2>1. f \in Frame /\ f.pc = "unlock" /\ f.job = frame[w].job /\ f.tries = frame[w].tries
    BY <1>3 DEF Frame, Label, HoldsLease
  <2>2. FramesTyped'
    BY <1>1, <1>2, <1>18, <2>1, GoOn DEF FailJob
  <2>3. JobsTyped'
    BY <1>1, <1>2, <1>3, <1>18, FailIndexJobType DEF FailJob, Frame
  <2> QED
    BY <1>1, <1>18, <2>2, <2>3, Unchanged, TypePartsNext DEF FailJob
<1>19. CASE ReleaseProjectLock(w)
  <2>1. FramesTyped'
    BY <1>1, <1>19, LeaveOff DEF ReleaseProjectLock
  <2>2. RestTyped'
    BY <1>1, <1>19 DEF ReleaseProjectLock, RestTyped, GivenBack, others, bounds
  <2> QED
    BY <1>1, <1>19, <2>1, <2>2, Unchanged, TypePartsNext DEF ReleaseProjectLock
<1>20. CASE UnlockCallRaises(w)
  <2>1. FramesTyped'
    BY <1>1, <1>20, LeaveOff DEF UnlockCallRaises
  <2>2. RestTyped'
    BY <1>1, <1>20 DEF UnlockCallRaises, RestTyped, Fails, GivenBack, others
  <2> QED
    BY <1>1, <1>20, <2>1, <2>2, Unchanged, TypePartsNext DEF UnlockCallRaises
<1> QED
  BY <1>5, <1>6, <1>7, <1>8, <1>9, <1>10, <1>11, <1>12, <1>13, <1>14, <1>15,
     <1>16, <1>17, <1>18, <1>19, <1>20 DEF Execute

-----------------------------------------------------------------------------
(* The other steps, and the theorem. *)

LEMMA JobStepType ==
  ASSUME TypeInv, NEW j \in Jobs,
         CreateIndexJob(j) \/ RequestIndexJobCancel(j) \/ LeaseLapses(j)
  PROVE  TypeInv'
<1>1. JobsTyped /\ ProjectTyped /\ FramesTyped /\ RestTyped
  BY TypeParts
<1>2. CASE CreateIndexJob(j)
  <2>1. JobsTyped'
    BY <1>1, <1>2 DEF CreateIndexJob, JobsTyped, JobStatus
  <2> QED
    BY <1>1, <1>2, <2>1, Unchanged, TypePartsNext DEF CreateIndexJob
<1>3. CASE RequestIndexJobCancel(j)
  <2>1. JobsTyped'
    BY <1>1, <1>3 DEF RequestIndexJobCancel, JobsTyped, JobStatus
  <2> QED
    BY <1>1, <1>3, <2>1, Unchanged, TypePartsNext DEF RequestIndexJobCancel
<1>4. CASE LeaseLapses(j)
  <2>1. JobsTyped'
    BY <1>1, <1>4 DEF LeaseLapses, JobsTyped
  <2> QED
    BY <1>1, <1>4, <2>1, Unchanged, TypePartsNext DEF LeaseLapses
<1> QED
  BY <1>2, <1>3, <1>4

LEMMA ClaimType ==
  ASSUME TypeInv, NEW w \in Workers, NEW j \in Jobs, ClaimIndexJob(w, j)
  PROVE  TypeInv'
<1>1. JobsTyped /\ ProjectTyped /\ FramesTyped /\ RestTyped
  BY TypeParts
<1>2. attempt[j] \in 0 .. MaxAttempts /\ attempt[j] + 1 \in 1 .. MaxAttempts
  BY <1>1, IndexAssumption DEF ClaimIndexJob, Claimable, JobsTyped
<1>3. JobsTyped'
  BY <1>1, <1>2 DEF ClaimIndexJob, JobsTyped, JobStatus
<1> DEFINE f == FrameAt("lock", j, attempt[j] + 1)
<1>4. f \in Frame /\ f.pc = "lock" /\ f.job = j /\ f.tries = attempt[j] + 1
  BY <1>2, IndexAssumption DEF FrameAt, Frame, Label
<1>5. <<f.job, f.tries>> \in Claims
  BY <1>2, <1>4 DEF Claims
<1>6. w \notin beating
  BY <1>1 DEF ClaimIndexJob, At, FramesTyped, BeatingWorks
<1>7. Enter(w, f) /\ UNCHANGED beating /\ beating \in SUBSET Workers
  BY <1>1 DEF ClaimIndexJob, FramesTyped
<1> HIDE DEF f
<1>8. FramesTyped'
  BY <1>1, <1>4, <1>5, <1>6, <1>7, FrameUpdate
<1> QED
  BY <1>1, <1>3, <1>8, Unchanged, TypePartsNext DEF ClaimIndexJob

LEMMA HeartbeatType ==
  ASSUME TypeInv, NEW w \in Workers, HeartbeatIndexJob(w)
  PROVE  TypeInv'
<1>1. JobsTyped /\ ProjectTyped /\ FramesTyped /\ RestTyped
  BY TypeParts
<1>2. JobsTyped'
  BY <1>1 DEF HeartbeatIndexJob, JobsTyped
<1>3. FramesTyped'
  BY <1>1 DEF HeartbeatIndexJob, FramesTyped, ClaimNamed, BeatingWorks, Executing, Claimed
<1> QED
  BY <1>1, <1>2, <1>3, Unchanged, TypePartsNext DEF HeartbeatIndexJob

LEMMA ProcessType ==
  ASSUME TypeInv, NEW w \in Workers, Crash(w) \/ Restart(w)
  PROVE  TypeInv'
<1>1. JobsTyped /\ ProjectTyped /\ FramesTyped /\ RestTyped
  BY TypeParts
<1>2. CASE Crash(w)
  <2>1. FramesTyped'
    BY <1>1, <1>2, LeaveOff DEF Crash
  <2>2. RestTyped'
    BY <1>1, <1>2 DEF Crash, RestTyped, Fails, others
  <2> QED
    BY <1>1, <1>2, <2>1, <2>2, Unchanged, TypePartsNext DEF Crash
<1>3. CASE Restart(w)
  <2>1. w \notin beating
    BY <1>1, <1>3 DEF Restart, At, FramesTyped, BeatingWorks
  <2>2. FramesTyped'
    BY <1>1, <1>3, <2>1, LeaveOff DEF Restart
  <2> QED
    BY <1>1, <1>3, <2>2, Unchanged, TypePartsNext DEF Restart
<1> QED
  BY <1>2, <1>3

LEMMA WorldType ==
  ASSUME TypeInv, LockLapses \/ EditSource \/ UNCHANGED vars
  PROVE  TypeInv'
<1>1. JobsTyped /\ ProjectTyped /\ FramesTyped /\ RestTyped
  BY TypeParts
<1>2. CASE LockLapses
  <2>1. RestTyped'
    <3>1. unlocked' \in SUBSET Claims
      BY <1>1, <1>2
         DEF LockLapses, RestTyped, FramesTyped, ClaimNamed, Executing, Indexing
    <3>2. failures' \in Nat
      BY <1>1, <1>2 DEF LockLapses, RestTyped, Fails
    <3> QED
      BY <1>1, <1>2, <3>1, <3>2 DEF LockLapses, RestTyped
  <2> QED
    BY <1>1, <1>2, <2>1, Unchanged, TypePartsNext DEF LockLapses
<1>3. CASE EditSource
  <2>1. RestTyped'
    BY <1>1, <1>3 DEF EditSource, RestTyped, others
  <2> QED
    BY <1>1, <1>3, <2>1, Unchanged, TypePartsNext DEF EditSource
<1>4. CASE UNCHANGED vars
  BY <1>1, <1>4, Unchanged, TypePartsNext DEF vars
<1> QED
  BY <1>2, <1>3, <1>4

\* A direct call touches the revisions and itself.
LEMMA CallType ==
  ASSUME TypeInv, NEW c \in Calls, IndexProject(c)
  PROVE  TypeInv'
<1>1. JobsTyped /\ ProjectTyped /\ FramesTyped /\ RestTyped
  BY TypeParts
<1>2. c \in Revisions /\ call[c] \in Call /\ call[c].snap \in Nat
  BY <1>1 DEF Revisions, RestTyped, Call
<1>3. UNCHANGED <<jobs, frame, beating, lock, unlocked, source>>
  BY DEF IndexProject, CallReads, CallBegins, CallEnds, CallDies, bounds
<1>4. ProjectTyped'
  <2>1. \/ UNCHANGED project
        \/ BeginIndexRevision(c, call[c].snap)
        \/ FailIndexRevision(c) \/ CommitIndexRevision(c)
    BY DEF IndexProject, CallReads, CallBegins, CallEnds, CallDies
  <2> QED
    BY <1>1, <1>2, <2>1, RevisionType, Unchanged
<1>5. call' \in [Calls -> Call]
  <2>1. ASSUME NEW label \in {"idle", "begin", "build", "done"}, CallMoves(c, label)
        PROVE  call' \in [Calls -> Call]
    <3>1. [call[c] EXCEPT !.pc = label] \in Call
      BY <1>2 DEF Call
    <3> QED
      BY <1>1, <2>1, <3>1 DEF CallMoves, RestTyped
  <2>2. CASE CallReads(c)
    BY <1>1, <2>2 DEF CallReads, RestTyped, Call
  <2> QED
    BY <2>1, <2>2 DEF IndexProject, CallBegins, CallEnds, CallDies
<1>6. failures' \in Nat
  BY <1>1 DEF IndexProject, CallReads, CallBegins, CallEnds, CallDies, Fails, RestTyped, bounds
<1>7. RestTyped'
  BY <1>1, <1>3, <1>5, <1>6 DEF RestTyped
<1> QED
  BY <1>1, <1>3, <1>4, <1>7, Unchanged, TypePartsNext

LEMMA TypeStep == TypeInv /\ [Next]_vars => TypeInv'
BY ExecuteType, JobStepType, ClaimType, HeartbeatType, ProcessType, WorldType, CallType
   DEF Next

\* Every variable keeps its type; no job is claimed more often than its
\* max_attempts, whichever workers race, die or come late.
THEOREM TypeCorrect == Spec => []TypeOK
<1>1. Init => TypeInv
  BY InitTyped
<1>2. TypeInv /\ [Next]_vars => TypeInv'
  BY TypeStep
<1>3. TypeInv => TypeOK
  BY DEF TypeInv
<1> QED
  BY <1>1, <1>2, <1>3, PTL DEF Spec

-----------------------------------------------------------------------------
(* Cancellation and fencing. *)

\* The worker that a row names executes the row's last claim, if it executes
\* the row at all.
OwnerMadeLastClaim ==
  \A w \in Workers :
    Executing(w) /\ owner[frame[w].job] = w => frame[w].tries = attempt[frame[w].job]

\* A worker completes only what it has committed.
CompletesCommitted ==
  \A w \in Workers : At(w, "complete") => Claimed(w) \in announced

SafeInv ==
  /\ TypeInv
  /\ OwnerMadeLastClaim
  /\ CompletesCommitted
  /\ CancelWins
  /\ SucceededByLastClaim

LEMMA InitSafe == Init => SafeInv
BY InitTyped, IndexAssumption
   DEF Init, SafeInv, OwnerMadeLastClaim, CompletesCommitted, CancelWins,
       SucceededByLastClaim, Executing, At, NoFrame, FrameAt

\* What a worker that executes leaves as it was: no worker gets a claim, no
\* row a claim or an owner, and what was announced stays announced.
KeepsClaims ==
  /\ \A v \in Workers : Executing(v)' =>
       Executing(v) /\ frame'[v].job = frame[v].job /\ frame'[v].tries = frame[v].tries
  /\ attempt' = attempt
  /\ cancelReq' = cancelReq
  /\ \A j \in Jobs : owner'[j] \in {owner[j], None}
  /\ announced \subseteq announced'

\* One frame that goes on with its claim or leaves it.
LEMMA FrameKeeps ==
  ASSUME frame \in [Workers -> Frame], NEW w \in Workers, Executing(w), NEW f, Enter(w, f),
         f.pc \in {"idle", "down"} \/ (f.job = frame[w].job /\ f.tries = frame[w].tries)
  PROVE  \A v \in Workers : Executing(v)' =>
           Executing(v) /\ frame'[v].job = frame[v].job /\ frame'[v].tries = frame[v].tries
BY DEF Enter, Executing

LEMMA FailKeeps ==
  ASSUME JobsTyped, NEW w \in Workers, frame[w].job \in Jobs,
         NEW permanent \in BOOLEAN, FailIndexJob(w, permanent)
  PROVE  /\ attempt' = attempt
         /\ cancelReq' = cancelReq
         /\ \A j \in Jobs : owner'[j] \in {owner[j], None}
         /\ built' = built
         /\ \A j \in Jobs : status'[j] # status[j] =>
              /\ status[j] = "running"
              /\ status'[j] # "succeeded"
              /\ j \in cancelReq => status'[j] = "cancelled"
<1> DEFINE k == frame[w].job
<1>1. CASE HoldsLease(w, k)
  BY <1>1 DEF FailIndexJob, Release, FailedStatus, HoldsLease, JobsTyped
<1>2. CASE ~HoldsLease(w, k)
  BY <1>2 DEF FailIndexJob, jobs
<1> QED
  BY <1>1, <1>2

\* A step of a worker in the rows of jobs: it fails the row, completes it, or
\* leaves it alone.
JobsKept ==
  /\ built' = built
  /\ \A j \in Jobs : status'[j] # status[j] =>
       /\ status[j] = "running"
       /\ status'[j] # "succeeded"
       /\ j \in cancelReq => status'[j] = "cancelled"

LEMMA ExecuteKeeps ==
  ASSUME TypeInv, NEW w \in Workers, Execute(w)
  PROVE  KeepsClaims /\ (JobsKept \/ (CompleteIndexJob(w) /\ Completes(w)))
<1>1. JobsTyped /\ ProjectTyped /\ FramesTyped /\ RestTyped
  BY TypeParts
<1>2. Executing(w)
  BY DEF Execute, Executing, At, AcquireProjectLock, LockIsHeld, LockCallRaises, FailRefused,
         ReadSource, ReadRaises, Begin, BuildEnds, BuildIsCancelled, BuildRaises, Commit,
         Abort, CompleteIndexJob, FailJob, ReleaseProjectLock, UnlockCallRaises
<1>3. frame \in [Workers -> Frame] /\ frame[w] \in Frame /\ frame[w].job \in Jobs
  BY <1>1, <1>2 DEF FramesTyped, ClaimNamed, Claimed, Claims
<1> DEFINE FramesKept ==
      \A v \in Workers : Executing(v)' =>
        Executing(v) /\ frame'[v].job = frame[v].job /\ frame'[v].tries = frame[v].tries
<1>4. ASSUME NEW label \in {"idle", "down"}, Enter(w, NoFrame(label))
      PROVE  FramesKept
  BY <1>2, <1>3, <1>4, FrameKeeps DEF NoFrame, FrameAt
<1>5. ASSUME NEW label, Goto(w, label)
      PROVE  FramesKept
  <2>1. /\ [frame[w] EXCEPT !.pc = label].job = frame[w].job
        /\ [frame[w] EXCEPT !.pc = label].tries = frame[w].tries
    BY <1>3 DEF Frame
  <2> QED
    BY <1>2, <1>3, <1>5, <2>1, FrameKeeps DEF Goto
<1>6. ASSUME NEW label, NEW permanent \in BOOLEAN, Raise(w, label, permanent)
      PROVE  FramesKept
  <2> DEFINE f == [frame[w] EXCEPT !.pc = label, !.permanent = permanent]
  <2>1. f.job = frame[w].job /\ f.tries = frame[w].tries
    BY <1>3 DEF Frame
  <2> QED
    BY <1>2, <1>3, <1>6, <2>1, FrameKeeps DEF Raise
<1>7. CASE UNCHANGED jobs
  <2>1. JobsKept /\ attempt' = attempt /\ cancelReq' = cancelReq /\ owner' = owner
    BY <1>7 DEF jobs, JobsKept
  <2>2. announced \subseteq announced'
    BY <1>1 DEF Execute, AcquireProjectLock, LockIsHeld, LockCallRaises, FailRefused,
         ReadSource, ReadRaises, Begin, BuildEnds, BuildIsCancelled, BuildRaises, Commit,
         Abort, CompleteIndexJob, FailJob, ReleaseProjectLock, UnlockCallRaises, project,
         BeginIndexRevision, CommitIndexRevision, FailIndexRevision
  <2>3. FramesKept
    <3>1. CASE ReadSource(w)
      <4> DEFINE f == [frame[w] EXCEPT !.pc = "begin", !.snap = source]
      <4>1. f.job = frame[w].job /\ f.tries = frame[w].tries
        BY <1>3 DEF Frame
      <4> QED
        BY <1>2, <1>3, <3>1, <4>1, FrameKeeps DEF ReadSource
    <3>2. CASE FailJob(w)
      <4> DEFINE f == [frame[w] EXCEPT !.pc = "unlock", !.raised = ~HoldsLease(w, frame[w].job)]
      <4>1. f.job = frame[w].job /\ f.tries = frame[w].tries
        BY <1>3 DEF Frame
      <4> QED
        BY <1>2, <1>3, <3>2, <4>1, FrameKeeps DEF FailJob
    <3>3. CASE FailRefused(w) \/ LockCallRaises(w) \/ ReleaseProjectLock(w) \/ UnlockCallRaises(w)
      BY <1>4, <3>3 DEF FailRefused, LockCallRaises, ReleaseProjectLock, UnlockCallRaises
    <3>4. CASE \/ AcquireProjectLock(w) \/ LockIsHeld(w) \/ Begin(w) \/ BuildEnds(w)
               \/ Commit(w) \/ Abort(w) \/ CompleteIndexJob(w)
      BY <1>5, <1>6, <3>4
         DEF AcquireProjectLock, LockIsHeld, Begin, BuildEnds, Commit, Abort, CompleteIndexJob
    <3>5. CASE ReadRaises(w) \/ BuildIsCancelled(w) \/ BuildRaises(w)
      BY <1>6, <3>5 DEF ReadRaises, BuildIsCancelled, BuildRaises
    <3> QED
      BY <3>1, <3>2, <3>3, <3>4, <3>5 DEF Execute
  <2> QED
    BY <2>1, <2>2, <2>3 DEF KeepsClaims
<1>8. CASE FailRefused(w)
  <2>1. FramesKept
    BY <1>4, <1>8 DEF FailRefused
  <2> QED
    BY <1>1, <1>3, <1>8, <2>1, FailKeeps DEF FailRefused, KeepsClaims, JobsKept, project
<1>9. CASE FailJob(w)
  <2> DEFINE f == [frame[w] EXCEPT !.pc = "unlock", !.raised = ~HoldsLease(w, frame[w].job)]
  <2>1. f.job = frame[w].job /\ f.tries = frame[w].tries /\ frame[w].permanent \in BOOLEAN
    BY <1>3 DEF Frame
  <2>2. FramesKept
    BY <1>2, <1>3, <1>9, <2>1, FrameKeeps DEF FailJob
  <2> QED
    BY <1>1, <1>3, <1>9, <2>1, <2>2, FailKeeps DEF FailJob, KeepsClaims, JobsKept, project
<1>10. CASE CompleteIndexJob(w) /\ Completes(w)
  <2>1. FramesKept
    BY <1>5, <1>10 DEF CompleteIndexJob
  <2>2. attempt' = attempt /\ cancelReq' = cancelReq /\ announced' = announced
    BY <1>10 DEF CompleteIndexJob, Release, project
  <2>3. \A j \in Jobs : owner'[j] \in {owner[j], None}
    BY <1>1, <1>3, <1>10 DEF CompleteIndexJob, Release, JobsTyped
  <2> QED
    BY <1>10, <2>1, <2>2, <2>3 DEF KeepsClaims
<1> QED
  <2>1. \/ UNCHANGED jobs \/ FailRefused(w) \/ FailJob(w)
        \/ (CompleteIndexJob(w) /\ Completes(w))
    BY DEF Execute, AcquireProjectLock, LockIsHeld, LockCallRaises,
         ReadSource, ReadRaises, Begin, BuildEnds, BuildIsCancelled, BuildRaises, Commit,
         Abort, CompleteIndexJob, ReleaseProjectLock, UnlockCallRaises
  <2> QED
    BY <1>7, <1>8, <1>9, <1>10, <2>1

\* A worker comes to the completion only by a commit.
LEMMA ReachesComplete ==
  ASSUME frame \in [Workers -> Frame], NEW w \in Workers, Execute(w),
         NEW v \in Workers, At(v, "complete")', ~At(v, "complete")
  PROVE  v = w /\ Commit(w) /\ Building(Claimed(w))
<1>1. frame[w] \in Frame
  OBVIOUS
<1>2. ASSUME NEW f, Enter(w, f)
      PROVE  v = w /\ f.pc = "complete"
  BY <1>2 DEF Enter, At
<1>3. ASSUME NEW label \in Label, Goto(w, label)
      PROVE  v = w /\ label = "complete"
  <2>1. [frame[w] EXCEPT !.pc = label].pc = label
    BY <1>1 DEF Frame
  <2> QED
    BY <1>2, <1>3, <2>1 DEF Goto
<1>4. ASSUME NEW label \in Label \ {"complete"}, Goto(w, label)
      PROVE  FALSE
  BY <1>3, <1>4
<1>5. ASSUME NEW label \in Label \ {"complete"}, NEW permanent \in BOOLEAN,
             Raise(w, label, permanent)
      PROVE  FALSE
  <2>1. [frame[w] EXCEPT !.pc = label, !.permanent = permanent].pc = label
    BY <1>1 DEF Frame
  <2> QED
    BY <1>2, <1>5, <2>1 DEF Raise
<1>6. ASSUME NEW label \in {"idle", "down"}, Enter(w, NoFrame(label))
      PROVE  FALSE
  BY <1>2, <1>6 DEF NoFrame, FrameAt
<1>7. CASE Commit(w)
  <2>1. CASE Building(Claimed(w))
    BY <1>3, <1>7, <2>1 DEF Commit, Label
  <2>2. CASE ~Building(Claimed(w))
    BY <1>5, <1>7, <2>2 DEF Commit, Label
  <2> QED
    BY <2>1, <2>2
<1>8. CASE ReadSource(w)
  <2>1. [frame[w] EXCEPT !.pc = "begin", !.snap = source].pc = "begin"
    BY <1>1 DEF Frame
  <2> QED
    BY <1>2, <1>8, <2>1 DEF ReadSource
<1>9. CASE FailJob(w)
  <2>1. [frame[w] EXCEPT !.pc = "unlock", !.raised = ~HoldsLease(w, frame[w].job)].pc = "unlock"
    BY <1>1 DEF Frame
  <2> QED
    BY <1>2, <1>9, <2>1 DEF FailJob
<1>10. CASE FailRefused(w) \/ LockCallRaises(w) \/ ReleaseProjectLock(w) \/ UnlockCallRaises(w)
  BY <1>6, <1>10 DEF FailRefused, LockCallRaises, ReleaseProjectLock, UnlockCallRaises
<1>11. CASE \/ AcquireProjectLock(w) \/ LockIsHeld(w) \/ Begin(w) \/ BuildEnds(w) \/ Abort(w)
            \/ CompleteIndexJob(w) \/ ReadRaises(w) \/ BuildIsCancelled(w) \/ BuildRaises(w)
  BY <1>4, <1>5, <1>11
     DEF AcquireProjectLock, LockIsHeld, Begin, BuildEnds, Abort, CompleteIndexJob,
         ReadRaises, BuildIsCancelled, BuildRaises, Label
<1> QED
  BY <1>7, <1>8, <1>9, <1>10, <1>11 DEF Execute

LEMMA ExecuteSafe ==
  ASSUME SafeInv, NEW w \in Workers, Execute(w)
  PROVE  SafeInv'
<1>1. TypeInv /\ TypeInv'
  BY ExecuteType DEF SafeInv
<1>2. KeepsClaims /\ (JobsKept \/ (CompleteIndexJob(w) /\ Completes(w)))
  BY <1>1, ExecuteKeeps
<1>3. JobsTyped /\ ProjectTyped /\ FramesTyped /\ RestTyped
  BY <1>1, TypeParts
<1>4. \A v \in Workers : Executing(v) => frame[v].job \in Jobs
  BY <1>3 DEF FramesTyped, ClaimNamed, Claimed, Claims
<1>5. OwnerMadeLastClaim'
  BY <1>2, <1>3, <1>4, IndexAssumption DEF SafeInv, OwnerMadeLastClaim, KeepsClaims, JobsTyped
<1>6. CompletesCommitted'
  <2> SUFFICES ASSUME NEW v \in Workers, At(v, "complete")'
               PROVE  Claimed(v)' \in announced'
    BY DEF CompletesCommitted
  <2>1. CASE At(v, "complete")
    <3>1. Executing(v)'
      BY DEF At, Executing
    <3>2. Claimed(v)' = Claimed(v)
      BY <1>2, <3>1 DEF KeepsClaims, Claimed
    <3> QED
      BY <1>2, <2>1, <3>2 DEF SafeInv, CompletesCommitted, KeepsClaims
  <2>2. CASE ~At(v, "complete")
    <3>1. v = w /\ Commit(w) /\ Building(Claimed(w))
      BY <1>3, <2>2, ReachesComplete DEF FramesTyped
    <3>2. Claimed(w) \in announced'
      BY <3>1 DEF Commit, CommitIndexRevision
    <3>3. Claimed(w)' = Claimed(w)
      BY <1>2, <3>1 DEF KeepsClaims, Claimed, Executing, At
    <3> QED
      BY <3>1, <3>2, <3>3
  <2> QED
    BY <2>1, <2>2
<1>7. CASE JobsKept
  <2>1. CancelWins'
    BY <1>2, <1>3, <1>7 DEF SafeInv, CancelWins, JobsKept, KeepsClaims, JobsTyped
  <2>2. SucceededByLastClaim'
    BY <1>2, <1>7 DEF SafeInv, SucceededByLastClaim, JobsKept, KeepsClaims
  <2> QED
    BY <1>1, <1>5, <1>6, <2>1, <2>2 DEF SafeInv
<1>8. CASE CompleteIndexJob(w) /\ Completes(w)
  <2> DEFINE j == frame[w].job
  <2>1. /\ At(w, "complete") /\ Executing(w) /\ j \in Jobs
        /\ owner[j] = w /\ j \notin cancelReq
        /\ status' = [status EXCEPT ![j] = "succeeded"]
        /\ built' = [built EXCEPT ![j] = Claimed(w)]
    BY <1>4, <1>8 DEF CompleteIndexJob, Completes, HoldsLease, Release, At, Executing
  <2>2. Claimed(w) = <<j, attempt[j]>> /\ Claimed(w) \in announced
    BY <2>1 DEF SafeInv, OwnerMadeLastClaim, CompletesCommitted, Claimed
  <2> HIDE DEF j
  <2>3. CancelWins'
    BY <1>2, <1>3, <2>1 DEF SafeInv, CancelWins, KeepsClaims, JobsTyped
  <2>4. SucceededByLastClaim'
    BY <1>2, <1>3, <2>1, <2>2 DEF SafeInv, SucceededByLastClaim, KeepsClaims, JobsTyped
  <2> QED
    BY <1>1, <1>5, <1>6, <2>3, <2>4 DEF SafeInv
<1> QED
  BY <1>2, <1>7, <1>8

LEMMA ClaimSafe ==
  ASSUME SafeInv, NEW w \in Workers, NEW k \in Jobs, ClaimIndexJob(w, k)
  PROVE  SafeInv'
<1>1. TypeInv /\ TypeInv'
  BY ClaimType DEF SafeInv
<1>2. JobsTyped /\ FramesTyped
  BY <1>1, TypeParts
<1> DEFINE f == FrameAt("lock", k, attempt[k] + 1)
<1>3. f.pc = "lock" /\ f.job = k /\ f.tries = attempt[k] + 1
  BY DEF FrameAt
<1>4. frame' = [frame EXCEPT ![w] = f]
  BY DEF ClaimIndexJob, Enter
<1> HIDE DEF f
<1>5. frame'[w] = f /\ \A v \in Workers \ {w} : frame'[v] = frame[v]
  BY <1>2, <1>4 DEF FramesTyped
<1>6. /\ attempt' = [attempt EXCEPT ![k] = @ + 1]
      /\ owner' = [owner EXCEPT ![k] = w]
      /\ status' = [status EXCEPT ![k] = "running"]
      /\ status[k] \in {"queued", "running"} /\ k \notin cancelReq
      /\ UNCHANGED <<cancelReq, built, announced>>
  BY DEF ClaimIndexJob, Claimable, project
<1>7. \A v \in Workers : Executing(v) => frame[v].job \in Jobs
  BY <1>2 DEF FramesTyped, ClaimNamed, Claimed, Claims
<1>8. OwnerMadeLastClaim'
  BY <1>2, <1>3, <1>5, <1>6, <1>7 DEF SafeInv, OwnerMadeLastClaim, JobsTyped, Executing
<1>9. CompletesCommitted'
  BY <1>3, <1>5, <1>6 DEF SafeInv, CompletesCommitted, At, Claimed
<1>10. CancelWins'
  BY <1>2, <1>6 DEF SafeInv, CancelWins, JobsTyped
<1>11. SucceededByLastClaim'
  BY <1>2, <1>6 DEF SafeInv, SucceededByLastClaim, JobsTyped
<1> QED
  BY <1>1, <1>8, <1>9, <1>10, <1>11 DEF SafeInv

LEMMA OtherSafe ==
  ASSUME SafeInv,
         \/ \E j \in Jobs : CreateIndexJob(j) \/ RequestIndexJobCancel(j) \/ LeaseLapses(j)
         \/ \E w \in Workers : HeartbeatIndexJob(w) \/ Crash(w) \/ Restart(w)
         \/ \E c \in Calls : IndexProject(c)
         \/ LockLapses \/ EditSource \/ UNCHANGED vars
  PROVE  SafeInv'
<1>1. TypeInv /\ TypeInv'
  BY JobStepType, HeartbeatType, ProcessType, WorldType, CallType DEF SafeInv
<1>2. JobsTyped /\ FramesTyped
  BY <1>1, TypeParts
<1> USE DEF IndexProject, CallReads, CallBegins, CallEnds, CallDies
<1>3. UNCHANGED <<attempt, owner, built>> /\ announced \subseteq announced'
  BY DEF CreateIndexJob, RequestIndexJobCancel, LeaseLapses, HeartbeatIndexJob, Crash,
         Restart, LockLapses, EditSource, vars, jobs, project, BeginIndexRevision,
         FailIndexRevision, CommitIndexRevision
<1>4. \A v \in Workers : Executing(v)' => frame'[v] = frame[v]
  BY <1>2 DEF CreateIndexJob, RequestIndexJobCancel, LeaseLapses, HeartbeatIndexJob, Crash,
         Restart, LockLapses, EditSource, vars, FramesTyped, Executing, Enter, NoFrame, FrameAt
<1>5. OwnerMadeLastClaim' /\ CompletesCommitted'
  <2>1. \A v \in Workers : At(v, "complete")' => Executing(v)'
    BY DEF At, Executing
  <2> QED
    BY <1>3, <1>4, <2>1
       DEF SafeInv, OwnerMadeLastClaim, CompletesCommitted, At, Claimed, Executing
<1>6. CancelWins'
  BY <1>2 DEF SafeInv, CancelWins, CreateIndexJob, RequestIndexJobCancel, LeaseLapses,
       HeartbeatIndexJob, Crash, Restart, LockLapses, EditSource, vars, jobs, JobsTyped
<1>7. SucceededByLastClaim'
  <2>1. \A j \in Jobs : status'[j] = "succeeded" => status[j] = "succeeded"
    BY <1>2 DEF CreateIndexJob, RequestIndexJobCancel, LeaseLapses, HeartbeatIndexJob, Crash,
         Restart, LockLapses, EditSource, vars, jobs, JobsTyped
  <2> QED
    BY <1>3, <2>1 DEF SafeInv, SucceededByLastClaim
<1> QED
  BY <1>1, <1>5, <1>6, <1>7 DEF SafeInv

LEMMA SafeStep == SafeInv /\ [Next]_vars => SafeInv'
BY ExecuteSafe, ClaimSafe, OtherSafe DEF Next

\* An accepted cancellation is final: no race of completions, failures, late
\* workers and reclaims makes a cancelled job succeed, retry or end in the
\* dead letters.
THEOREM CancellationIsFinal == Spec => []CancelWins
<1>1. SafeInv => CancelWins
  BY DEF SafeInv
<1> QED
  BY <1>1, InitSafe, SafeStep, PTL DEF Spec

\* A job that succeeded names the committed revision of its last claim: a
\* worker whose lease was taken over cannot finish the job.
THEOREM CompletionIsFenced == Spec => []SucceededByLastClaim
<1>1. SafeInv => SucceededByLastClaim
  BY DEF SafeInv
<1> QED
  BY <1>1, InitSafe, SafeStep, PTL DEF Spec
=============================================================================
