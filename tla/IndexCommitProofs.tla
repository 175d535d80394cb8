------------------------- MODULE IndexCommitProofs --------------------------
(***************************************************************************)
(* What is searched is one whole revision, and the status that clients     *)
(* poll is that of the build under way, with or without the project lock.  *)
(* The index goes back to an older state of the repository only through a  *)
(* direct call of the indexer, or a worker whose lock ran out under it.    *)
(***************************************************************************)
EXTENDS IndexProofs

-----------------------------------------------------------------------------
\* Where a worker has a claim and has not begun its revision.
BeforeBegin == {"lock", "read", "begin"}

\* No claim is older than the row's attempts, and none is executed twice.
ClaimsKnown ==
  \A w \in Workers : Executing(w) => frame[w].tries <= attempt[frame[w].job]
ClaimsDiffer ==
  \A v, w \in Workers : Executing(v) /\ Executing(w) /\ v # w => Claimed(v) # Claimed(w)

\* A revision belongs to a claim, which begins it once.
BegunByClaim ==
  \A j \in Jobs, n \in 1 .. MaxAttempts : revision[<<j, n>>] # "absent" => n <= attempt[j]
BeginsOnce ==
  \A w \in Workers : frame[w].pc \in BeforeBegin => revision[Claimed(w)] = "absent"

CallsBeginOnce ==
  \A c \in Calls : call[c].pc \in {"idle", "begin"} => revision[c] = "absent"

OneBuilding == \A q, r \in Revisions : Building(q) /\ Building(r) => q = r

ClaimsInv == ClaimsKnown /\ ClaimsDiffer /\ BegunByClaim /\ BeginsOnce /\ CallsBeginOnce
Whole == OneBuilding /\ ActiveIsWhole /\ IndexingMeansBuilding
RevisionInv == TypeInv /\ ClaimsInv /\ Whole

LEMMA InitRevision == Init => RevisionInv
<1> SUFFICES ASSUME Init PROVE RevisionInv
  OBVIOUS
<1>1. \A w \in Workers : frame[w].pc = "idle"
  BY DEF Init, NoFrame, FrameAt
<1>2. ClaimsInv
  BY <1>1 DEF Init, ClaimsInv, ClaimsKnown, ClaimsDiffer, BegunByClaim, BeginsOnce,
              CallsBeginOnce, BeforeBegin, Executing, Revisions, Claims
<1>3. Whole
  BY DEF Init, Whole, OneBuilding, ActiveIsWhole, IndexingMeansBuilding, Building
<1> QED
  BY <1>2, <1>3, InitTyped DEF RevisionInv

-----------------------------------------------------------------------------
(* The transactions on revisions keep what is searched whole. *)

LEMMA BeginWhole ==
  ASSUME ProjectTyped, Whole, NEW r \in Revisions, NEW snap \in Nat,
         ~BeginRefused, revision[r] = "absent", BeginIndexRevision(r, snap)
  PROVE  Whole'
<1>1. /\ revision' = [revision EXCEPT ![r] = "building"]
      /\ index' = "indexing"
      /\ UNCHANGED <<active, chunks, announced>>
      /\ revision \in [Revisions -> RevisionStatus]
      /\ \A q \in Revisions : revision[q] # "building"
  BY DEF BeginIndexRevision, ProjectTyped, BeginRefused, Building
<1>2. revision'[r] = "building" /\ \A q \in Revisions \ {r} : revision'[q] = revision[q]
  BY <1>1
<1>3. OneBuilding' /\ IndexingMeansBuilding'
  BY <1>1, <1>2 DEF OneBuilding, IndexingMeansBuilding, Building
<1>4. \A q \in Revisions : \A s \in {"committed", "superseded"} :
        revision'[q] = s <=> revision[q] = s
  BY <1>2
<1>5. ActiveIsWhole'
  BY <1>1, <1>4 DEF Whole, ActiveIsWhole
<1> QED
  BY <1>3, <1>5 DEF Whole

LEMMA FailWhole ==
  ASSUME ProjectTyped, Whole, NEW r \in Revisions, Building(r), FailIndexRevision(r)
  PROVE  Whole'
<1>1. /\ revision' = [revision EXCEPT ![r] = "failed"]
      /\ index' = "failed"
      /\ UNCHANGED <<active, chunks, announced>>
      /\ revision \in [Revisions -> RevisionStatus]
      /\ \A q \in Revisions : revision[q] = "building" <=> q = r
  BY DEF FailIndexRevision, ProjectTyped, Whole, OneBuilding, Building
<1>2. revision'[r] = "failed" /\ \A q \in Revisions \ {r} : revision'[q] = revision[q]
  BY <1>1
<1>3. OneBuilding' /\ IndexingMeansBuilding'
  BY <1>1, <1>2 DEF OneBuilding, IndexingMeansBuilding, Building
<1>4. \A q \in Revisions : \A s \in {"committed", "superseded"} :
        revision'[q] = s <=> revision[q] = s
  BY <1>1, <1>2
<1>5. ActiveIsWhole'
  BY <1>1, <1>4 DEF Whole, ActiveIsWhole
<1> QED
  BY <1>3, <1>5 DEF Whole

LEMMA CommitWhole ==
  ASSUME ProjectTyped, Whole, NEW r \in Revisions, Building(r), CommitIndexRevision(r)
  PROVE  Whole'
<1>1. /\ revision' = [q \in Revisions |-> IF q = r THEN "committed"
                                          ELSE IF revision[q] = "committed" THEN "superseded"
                                          ELSE revision[q]]
      /\ active' = r /\ chunks' = r /\ index' = "ready" /\ announced' = announced \union {r}
      /\ \A q \in Revisions : revision[q] = "building" <=> q = r
  BY DEF CommitIndexRevision, Whole, OneBuilding, Building
<1>2. OneBuilding' /\ IndexingMeansBuilding'
  BY <1>1 DEF OneBuilding, IndexingMeansBuilding, Building
<1>3. r # None
  BY IndexAssumption DEF Revisions, Claims
<1>4. {q \in Revisions : revision'[q] = "committed"} = {r}
  BY <1>1
<1>5. \A q \in Revisions :
        revision'[q] \in {"committed", "superseded"} <=>
          revision[q] \in {"committed", "superseded"} \/ q = r
  BY <1>1
<1>6. ActiveIsWhole'
  BY <1>1, <1>3, <1>4, <1>5 DEF Whole, ActiveIsWhole
<1> QED
  BY <1>2, <1>6 DEF Whole

-----------------------------------------------------------------------------
(* The steps of a worker. *)

\* What happens to revisions: a worker begins the absent one of its claim, or
\* ends the building one of its claim.
LEMMA ExecuteWhole ==
  ASSUME RevisionInv, NEW w \in Workers, Execute(w)
  PROVE  /\ Whole'
         /\ \A q \in Revisions : revision[q] = "absent" /\ revision'[q] # "absent" =>
              q = Claimed(w) /\ Goto(w, "build")
<1>1. ProjectTyped /\ FramesTyped /\ Whole
  BY TypeParts DEF RevisionInv
<1>2. CASE Begin(w) /\ ~BeginRefused
  <2>1. Executing(w) /\ frame[w].pc \in BeforeBegin
    BY <1>2 DEF Begin, At, Executing, BeforeBegin
  <2>2. Claimed(w) \in Revisions /\ frame[w].snap \in Nat /\ revision[Claimed(w)] = "absent"
    BY <1>1, <2>1 DEF FramesTyped, ClaimNamed, Revisions, Frame, RevisionInv, ClaimsInv, BeginsOnce
  <2>3. BeginIndexRevision(Claimed(w), frame[w].snap) /\ Goto(w, "build")
    BY <1>2 DEF Begin
  <2>4. Whole'
    BY <1>1, <1>2, <2>2, <2>3, BeginWhole
  <2>5. \A q \in Revisions \ {Claimed(w)} : revision'[q] = revision[q]
    BY <1>1, <2>3 DEF BeginIndexRevision, ProjectTyped
  <2> QED
    BY <2>3, <2>4, <2>5
<1>3. CASE Building(Claimed(w)) /\ (Commit(w) \/ Abort(w))
  <2>1. Executing(w)
    BY <1>3 DEF Commit, Abort, At, Executing
  <2>2. Claimed(w) \in Revisions
    BY <1>1, <2>1 DEF FramesTyped, ClaimNamed, Revisions
  <2>3. CommitIndexRevision(Claimed(w)) \/ FailIndexRevision(Claimed(w))
    BY <1>3 DEF Commit, Abort
  <2>4. Whole'
    BY <1>1, <1>3, <2>2, <2>3, CommitWhole, FailWhole
  <2>5. \A q \in Revisions : revision[q] = "absent" => revision'[q] = "absent"
    BY <1>1, <1>3, <2>2, <2>3
       DEF CommitIndexRevision, FailIndexRevision, Building, ProjectTyped
  <2> QED
    BY <2>4, <2>5
<1>4. CASE UNCHANGED project
  BY <1>1, <1>4
     DEF project, Whole, OneBuilding, ActiveIsWhole, IndexingMeansBuilding, Building
<1>5. \/ UNCHANGED project
      \/ Begin(w) /\ ~BeginRefused
      \/ Building(Claimed(w)) /\ (Commit(w) \/ Abort(w))
  BY DEF Execute, AcquireProjectLock, LockIsHeld, LockCallRaises, FailRefused, ReadSource,
         ReadRaises, Begin, BuildEnds, BuildIsCancelled, BuildRaises, Commit, Abort,
         CompleteIndexJob, FailJob, ReleaseProjectLock, UnlockCallRaises
<1> QED
  BY <1>2, <1>3, <1>4, <1>5

\* A worker comes before the begin only by a claim.
LEMMA StaysBefore ==
  ASSUME frame \in [Workers -> Frame], NEW w \in Workers, Execute(w),
         NEW v \in Workers, frame'[v].pc \in BeforeBegin
  PROVE  frame[v].pc \in BeforeBegin
<1>1. SUFFICES ASSUME frame[v].pc \notin BeforeBegin
               PROVE  FALSE
  OBVIOUS
<1>2. frame[w] \in Frame
  OBVIOUS
<1>3. ASSUME NEW f, Enter(w, f)
      PROVE  v = w /\ f.pc \in BeforeBegin
  BY <1>1, <1>3 DEF Enter
<1>4. ASSUME NEW label \in Label \ BeforeBegin, Goto(w, label)
      PROVE  FALSE
  <2>1. [frame[w] EXCEPT !.pc = label].pc = label
    BY <1>2 DEF Frame
  <2> QED
    BY <1>3, <1>4, <2>1 DEF Goto
<1>5. ASSUME NEW label \in Label \ BeforeBegin, NEW permanent \in BOOLEAN,
             Raise(w, label, permanent)
      PROVE  FALSE
  <2>1. [frame[w] EXCEPT !.pc = label, !.permanent = permanent].pc = label
    BY <1>2 DEF Frame
  <2> QED
    BY <1>3, <1>5, <2>1 DEF Raise
<1>6. ASSUME NEW label \in {"idle", "down"}, Enter(w, NoFrame(label))
      PROVE  FALSE
  BY <1>3, <1>6 DEF NoFrame, FrameAt, BeforeBegin
<1>7. CASE AcquireProjectLock(w) \/ ReadSource(w)
  <2>1. \E f : Enter(w, f)
    BY <1>7 DEF AcquireProjectLock, ReadSource, Goto
  <2> QED
    BY <1>1, <1>3, <1>7, <2>1 DEF AcquireProjectLock, ReadSource, At, BeforeBegin
<1>8. CASE FailJob(w)
  <2>1. [frame[w] EXCEPT !.pc = "unlock", !.raised = ~HoldsLease(w, frame[w].job)].pc = "unlock"
    BY <1>2 DEF Frame
  <2> QED
    BY <1>3, <1>8, <2>1 DEF FailJob, BeforeBegin
<1>9. CASE FailRefused(w) \/ LockCallRaises(w) \/ ReleaseProjectLock(w) \/ UnlockCallRaises(w)
  BY <1>6, <1>9 DEF FailRefused, LockCallRaises, ReleaseProjectLock, UnlockCallRaises
<1>10. CASE \/ LockIsHeld(w) \/ Begin(w) \/ BuildEnds(w) \/ Commit(w) \/ Abort(w)
            \/ CompleteIndexJob(w) \/ ReadRaises(w) \/ BuildIsCancelled(w) \/ BuildRaises(w)
  BY <1>4, <1>5, <1>10
     DEF LockIsHeld, Begin, BuildEnds, Commit, Abort, CompleteIndexJob, ReadRaises,
         BuildIsCancelled, BuildRaises, Label, BeforeBegin
<1> QED
  BY <1>7, <1>8, <1>9, <1>10 DEF Execute

LEMMA ExecuteRevision ==
  ASSUME RevisionInv, NEW w \in Workers, Execute(w)
  PROVE  RevisionInv'
<1>1. TypeInv /\ TypeInv' /\ frame \in [Workers -> Frame] /\ FramesTyped
  BY ExecuteType, TypeParts DEF RevisionInv, TypeInv, TypeOK
<1>2. Whole'
  BY ExecuteWhole
<1>3. KeepsClaims
  BY <1>1, ExecuteKeeps
<1>4. \A q \in Revisions : revision[q] = "absent" /\ revision'[q] # "absent" =>
        q = Claimed(w) /\ Goto(w, "build")
  BY ExecuteWhole
<1>5. Executing(w)
  BY DEF Execute, Executing, At, AcquireProjectLock, LockIsHeld, LockCallRaises, FailRefused,
         ReadSource, ReadRaises, Begin, BuildEnds, BuildIsCancelled, BuildRaises, Commit,
         Abort, CompleteIndexJob, FailJob, ReleaseProjectLock, UnlockCallRaises
<1>6. ClaimsKnown' /\ ClaimsDiffer'
  BY <1>3 DEF RevisionInv, ClaimsInv, ClaimsKnown, ClaimsDiffer, KeepsClaims, Claimed
<1>7. BegunByClaim'
  <2> SUFFICES ASSUME NEW j \in Jobs, NEW n \in 1 .. MaxAttempts, revision'[<<j, n>>] # "absent"
               PROVE  n <= attempt[j]
    BY <1>3 DEF BegunByClaim, KeepsClaims
  <2>1. CASE revision[<<j, n>>] # "absent"
    BY <2>1 DEF RevisionInv, ClaimsInv, BegunByClaim
  <2>2. CASE revision[<<j, n>>] = "absent"
    <3>1. <<j, n>> = Claimed(w)
      BY <1>4, <2>2 DEF Revisions, Claims
    <3> QED
      BY <1>5, <3>1 DEF Claimed, RevisionInv, ClaimsInv, ClaimsKnown
  <2> QED
    BY <2>1, <2>2
<1>8. BeginsOnce'
  <2> SUFFICES ASSUME NEW v \in Workers, frame'[v].pc \in BeforeBegin
               PROVE  revision'[Claimed(v)'] = "absent"
    BY DEF BeginsOnce
  <2>1. frame[v].pc \in BeforeBegin
    BY <1>1, StaysBefore
  <2>2. Executing(v)' /\ Executing(v)
    BY <2>1 DEF Executing, BeforeBegin
  <2>3. Claimed(v)' = Claimed(v) /\ Claimed(v) \in Revisions
    BY <1>1, <1>3, <2>2 DEF KeepsClaims, Claimed, FramesTyped, ClaimNamed, Revisions
  <2>4. revision[Claimed(v)] = "absent"
    BY <2>1 DEF RevisionInv, ClaimsInv, BeginsOnce
  <2>5. CASE v # w
    BY <1>4, <1>5, <2>2, <2>3, <2>4, <2>5 DEF RevisionInv, ClaimsInv, ClaimsDiffer
  <2>6. CASE v = w
    <3>1. ~Goto(w, "build")
      <4> SUFFICES ASSUME Goto(w, "build") PROVE FALSE
        OBVIOUS
      <4>1. frame'[w].pc = "build"
        BY <1>1 DEF Goto, Enter, Frame
      <4> QED
        BY <2>6, <4>1 DEF BeforeBegin
    <3> QED
      BY <1>4, <2>3, <2>4, <3>1
  <2> QED
    BY <2>5, <2>6
<1>9. CallsBeginOnce'
  <2>1. UNCHANGED call
    BY DEF Execute, AcquireProjectLock, LockIsHeld, LockCallRaises, FailRefused, ReadSource,
           ReadRaises, Begin, BuildEnds, BuildIsCancelled, BuildRaises, Commit, Abort,
           CompleteIndexJob, FailJob, ReleaseProjectLock, UnlockCallRaises, others
  <2>2. \A c \in Calls : c \in Revisions /\ c # Claimed(w)
    BY <1>1, <1>5, IndexAssumption DEF FramesTyped, ClaimNamed, Revisions, Claims
  <2> QED
    BY <1>4, <2>1, <2>2 DEF RevisionInv, ClaimsInv, CallsBeginOnce
<1> QED
  BY <1>1, <1>2, <1>6, <1>7, <1>8, <1>9 DEF RevisionInv, ClaimsInv

-----------------------------------------------------------------------------
(* The other steps, and the theorems. *)

\* A claim is new: its attempt is above those that were made or begun.
LEMMA ClaimRevision ==
  ASSUME RevisionInv, NEW w \in Workers, NEW k \in Jobs, ClaimIndexJob(w, k)
  PROVE  RevisionInv'
<1>1. TypeInv /\ TypeInv' /\ frame \in [Workers -> Frame] /\ FramesTyped /\ JobsTyped
  BY ClaimType, TypeParts DEF RevisionInv, TypeInv, TypeOK
<1> DEFINE f == FrameAt("lock", k, attempt[k] + 1)
<1>2. f.pc = "lock" /\ f.job = k /\ f.tries = attempt[k] + 1
  BY DEF FrameAt
<1>3. Enter(w, f) /\ attempt' = [attempt EXCEPT ![k] = @ + 1] /\ UNCHANGED project
  BY DEF ClaimIndexJob
<1> HIDE DEF f
<1>4. frame'[w] = f /\ \A v \in Workers \ {w} : frame'[v] = frame[v]
  BY <1>1, <1>3 DEF Enter
<1>5. /\ \A j \in Jobs : attempt[j] \in Nat /\ attempt'[j] \in Nat /\ attempt[j] <= attempt'[j]
      /\ attempt'[k] = attempt[k] + 1 /\ attempt[k] + 1 \in 1 .. MaxAttempts
  BY <1>1, <1>3, IndexAssumption DEF JobsTyped, ClaimIndexJob, Claimable
<1>6. ASSUME NEW v \in Workers, Executing(v)
      PROVE  /\ frame[v].job \in Jobs /\ frame[v].tries \in Nat
             /\ frame[v].tries <= attempt[frame[v].job]
  <2>1. <<frame[v].job, frame[v].tries>> \in Jobs \X (1 .. MaxAttempts)
    BY <1>1, <1>6 DEF FramesTyped, ClaimNamed, Claimed, Claims
  <2>2. frame[v].job \in Jobs /\ frame[v].tries \in Nat
    BY <2>1, IndexAssumption
  <2>3. frame[v].tries <= attempt[frame[v].job]
    BY <1>6 DEF RevisionInv, ClaimsInv, ClaimsKnown
  <2> QED
    BY <2>2, <2>3
<1>7. \A v \in Workers \ {w} : Executing(v)' => Executing(v) /\ Claimed(v)' = Claimed(v)
  BY <1>4 DEF Executing, Claimed
<1>8. Claimed(w)' = <<k, attempt[k] + 1>>
  BY <1>2, <1>4 DEF Claimed
<1>9. \A v \in Workers \ {w} : Executing(v)' => Claimed(v) # <<k, attempt[k] + 1>>
  BY <1>5, <1>6, <1>7 DEF Claimed
<1>10. ClaimsKnown'
  <2> SUFFICES ASSUME NEW v \in Workers, Executing(v)'
               PROVE  frame'[v].tries <= attempt'[frame'[v].job]
    BY DEF ClaimsKnown
  <2>1. CASE v = w
    BY <1>2, <1>4, <1>5, <2>1
  <2>2. CASE v # w
    <3>1. Executing(v) /\ frame'[v] = frame[v]
      BY <1>4, <1>7, <2>2
    <3> QED
      BY <1>5, <1>6, <3>1
  <2> QED
    BY <2>1, <2>2
<1>11. ClaimsDiffer'
  BY <1>7, <1>8, <1>9 DEF RevisionInv, ClaimsInv, ClaimsDiffer
<1>12. BegunByClaim'
  <2> SUFFICES ASSUME NEW j \in Jobs, NEW n \in 1 .. MaxAttempts, revision'[<<j, n>>] # "absent"
               PROVE  n <= attempt'[j]
    BY DEF BegunByClaim
  <2>1. n <= attempt[j]
    BY <1>3 DEF RevisionInv, ClaimsInv, BegunByClaim, project
  <2> QED
    BY <1>5, <2>1, IndexAssumption
<1>13. BeginsOnce'
  <2>1. revision[<<k, attempt[k] + 1>>] = "absent"
    BY <1>5 DEF RevisionInv, ClaimsInv, BegunByClaim
  <2> QED
    BY <1>3, <1>4, <1>8, <2>1 DEF RevisionInv, ClaimsInv, BeginsOnce, Claimed, project
<1>14. Whole'
  BY <1>3 DEF project, RevisionInv, Whole, OneBuilding, ActiveIsWhole, IndexingMeansBuilding,
              Building
<1>15. CallsBeginOnce'
  BY DEF ClaimIndexJob, others, project, RevisionInv, ClaimsInv, CallsBeginOnce
<1> QED
  BY <1>1, <1>10, <1>11, <1>12, <1>13, <1>14, <1>15 DEF RevisionInv, ClaimsInv

\* The revision of a call is no claim's.
LEMMA CallRevision ==
  ASSUME RevisionInv, NEW c \in Calls, IndexProject(c)
  PROVE  RevisionInv'
<1>1. TypeInv /\ TypeInv' /\ ProjectTyped /\ FramesTyped /\ Whole
  BY CallType, TypeParts DEF RevisionInv
<1>2. c \in Revisions /\ c \notin Claims /\ call \in [Calls -> Call] /\ call[c].snap \in Nat
  BY <1>1, IndexAssumption DEF Revisions, Claims, TypeInv, TypeOK, Call
<1>3. UNCHANGED <<attempt, frame>>
  BY DEF IndexProject, CallReads, CallBegins, CallEnds, CallDies, jobs
<1>4. /\ Whole'
      /\ \A q \in Revisions \ {c} : revision'[q] = "absent" <=> revision[q] = "absent"
      /\ revision'[c] # revision[c] => call'[c].pc \in {"build", "done"}
  <2>1. CASE CallBegins(c) /\ ~BeginRefused
    <3>1. revision[c] = "absent" /\ BeginIndexRevision(c, call[c].snap) /\ CallMoves(c, "build")
      BY <2>1 DEF CallBegins, RevisionInv, ClaimsInv, CallsBeginOnce
    <3>2. Whole'
      BY <1>1, <1>2, <2>1, <3>1, BeginWhole
    <3>3. call'[c].pc = "build"
      BY <1>2, <3>1 DEF CallMoves, Call
    <3> QED
      BY <1>1, <3>1, <3>2, <3>3 DEF BeginIndexRevision, ProjectTyped
  <2>2. CASE CallEnds(c)
    <3>1. Building(c) /\ (CommitIndexRevision(c) \/ FailIndexRevision(c)) /\ CallMoves(c, "done")
      BY <2>2 DEF CallEnds
    <3>2. Whole'
      BY <1>1, <1>2, <3>1, CommitWhole, FailWhole
    <3>3. call'[c].pc = "done"
      BY <1>2, <3>1 DEF CallMoves, Call
    <3> QED
      BY <1>1, <3>1, <3>2, <3>3 DEF CommitIndexRevision, FailIndexRevision, ProjectTyped
  <2>3. CASE UNCHANGED project
    BY <1>1, <2>3
       DEF project, Whole, OneBuilding, ActiveIsWhole, IndexingMeansBuilding, Building
  <2> QED
    BY <2>1, <2>2, <2>3 DEF IndexProject, CallReads, CallBegins, CallDies
<1>5. ClaimsKnown' /\ ClaimsDiffer'
  BY <1>3 DEF RevisionInv, ClaimsInv, ClaimsKnown, ClaimsDiffer, Executing, Claimed
<1>6. BegunByClaim'
  <2>1. \A j \in Jobs, n \in 1 .. MaxAttempts : <<j, n>> \in Revisions \ {c}
    BY <1>2 DEF Revisions, Claims
  <2> QED
    BY <1>3, <1>4, <2>1 DEF RevisionInv, ClaimsInv, BegunByClaim
<1>7. BeginsOnce'
  <2>1. \A w \in Workers : frame[w].pc \in BeforeBegin => Claimed(w) \in Revisions \ {c}
    BY <1>1, <1>2 DEF FramesTyped, ClaimNamed, Executing, BeforeBegin, Revisions
  <2> QED
    BY <1>3, <1>4, <2>1 DEF RevisionInv, ClaimsInv, BeginsOnce, Claimed
<1>8. CallsBeginOnce'
  <2>1. \A d \in Calls \ {c} : call'[d] = call[d] /\ d \in Revisions \ {c}
    BY <1>2 DEF IndexProject, CallReads, CallBegins, CallEnds, CallDies, CallMoves, Revisions
  <2>2. call'[c].pc \in {"idle", "begin"} => call[c].pc \in {"idle", "begin"}
    BY <1>2 DEF IndexProject, CallReads, CallBegins, CallEnds, CallDies, CallMoves, Call
  <2> QED
    BY <1>4, <2>1, <2>2 DEF RevisionInv, ClaimsInv, CallsBeginOnce
<1> QED
  BY <1>1, <1>4, <1>5, <1>6, <1>7, <1>8 DEF RevisionInv, ClaimsInv

LEMMA OtherRevision ==
  ASSUME RevisionInv,
         \/ \E j \in Jobs : CreateIndexJob(j) \/ RequestIndexJobCancel(j) \/ LeaseLapses(j)
         \/ \E w \in Workers : HeartbeatIndexJob(w) \/ Crash(w) \/ Restart(w)
         \/ LockLapses \/ EditSource \/ UNCHANGED vars
  PROVE  RevisionInv'
<1>1. TypeInv /\ TypeInv'
  BY JobStepType, HeartbeatType, ProcessType, WorldType DEF RevisionInv
<1>2. FramesTyped
  BY <1>1, TypeParts
<1>3. UNCHANGED <<attempt, project, call>>
  BY DEF CreateIndexJob, RequestIndexJobCancel, LeaseLapses, HeartbeatIndexJob, Crash,
         Restart, LockLapses, EditSource, vars, jobs, others
<1>4. \A v \in Workers : Executing(v)' => frame'[v] = frame[v]
  BY <1>2 DEF CreateIndexJob, RequestIndexJobCancel, LeaseLapses, HeartbeatIndexJob, Crash,
         Restart, LockLapses, EditSource, vars, FramesTyped, Executing, Enter, NoFrame, FrameAt
<1>5. ClaimsKnown' /\ ClaimsDiffer' /\ BegunByClaim'
  BY <1>3, <1>4 DEF RevisionInv, ClaimsInv, ClaimsKnown, ClaimsDiffer, BegunByClaim, Executing,
                    Claimed, project
<1>6. BeginsOnce'
  <2>1. \A v \in Workers : frame'[v].pc \in BeforeBegin => frame'[v] = frame[v]
    BY <1>4 DEF Executing, BeforeBegin
  <2> QED
    BY <1>3, <2>1 DEF RevisionInv, ClaimsInv, BeginsOnce, Claimed, project
<1>7. Whole'
  BY <1>3 DEF project, RevisionInv, Whole, OneBuilding, ActiveIsWhole, IndexingMeansBuilding,
              Building
<1>8. CallsBeginOnce'
  BY <1>3 DEF RevisionInv, ClaimsInv, CallsBeginOnce, project
<1> QED
  BY <1>1, <1>5, <1>6, <1>7, <1>8 DEF RevisionInv, ClaimsInv

LEMMA RevisionStep == RevisionInv /\ [Next]_vars => RevisionInv'
BY ExecuteRevision, ClaimRevision, CallRevision, OtherRevision DEF Next

\* What is searched is one whole committed revision, announced to the vector
\* index, whichever builds race, fail, die or are cancelled, and whether or
\* not the project lock is there.
THEOREM SearchIsWhole == Spec => []ActiveIsWhole
<1>1. RevisionInv => ActiveIsWhole
  BY DEF RevisionInv, Whole
<1> QED
  BY <1>1, InitRevision, RevisionStep, PTL DEF Spec

\* The project's status says "indexing" exactly while a revision is being
\* built, although workers that do not know of each other write it.
THEOREM StatusIsTrue == Spec => []IndexingMeansBuilding
<1>1. RevisionInv => IndexingMeansBuilding
  BY DEF RevisionInv, Whole
<1> QED
  BY <1>1, InitRevision, RevisionStep, PTL DEF Spec
-----------------------------------------------------------------------------
(* The order of what is searched. *)

\* Where a worker has read the repository, and where its revision is building.
HasRead == {"begin", "build", "commit"}
HasBegun == {"build", "commit"}

\* The workers that index under the lock, and what was searched of such.
Locked(w) == frame[w].pc \in Indexing /\ Claimed(w) \notin unlocked
Searched == announced \ WithoutLock

\* Such a worker holds the lock, and what it read is not older than what was
\* searched.  What any worker commits is what it read.
Ordered(w) ==
  /\ Locked(w) => lock = LockOwner(w)
  /\ Locked(w) /\ frame[w].pc \in HasRead =>
       /\ frame[w].snap <= source
       /\ \A p \in Searched : snapshot[p] <= frame[w].snap
  /\ frame[w].pc \in HasBegun => snapshot[Claimed(w)] = frame[w].snap

SearchesThePast == \A p \in Searched : snapshot[p] <= source

Order == SearchesThePast /\ \A w \in Workers : Ordered(w)
OrderInv == RevisionInv /\ Order

LEMMA InitOrder == Init => OrderInv
<1> SUFFICES ASSUME Init PROVE OrderInv
  OBVIOUS
<1>1. \A w \in Workers : frame[w].pc = "idle"
  BY DEF Init, NoFrame, FrameAt
<1>2. Searched = {}
  BY DEF Init, Searched
<1> QED
  BY <1>1, <1>2, InitRevision
     DEF OrderInv, Order, SearchesThePast, Ordered, Locked, Indexing, HasRead, HasBegun

\* Two workers that index under the lock are one.
LEMMA OneLocked ==
  ASSUME Order, NEW v \in Workers, NEW w \in Workers, Locked(v), Locked(w)
  PROVE  v = w
BY DEF Order, Ordered, LockOwner

LEMMA Executes ==
  ASSUME RevisionInv, NEW w \in Workers, frame[w].pc \in Indexing
  PROVE  /\ Claimed(w) \in Claims /\ Claimed(w) \in Revisions /\ Claimed(w) \notin Calls
         /\ LockOwner(w) # None
<1>1. Executing(w) /\ TypeInv
  BY DEF Executing, Indexing, RevisionInv
<1>2. Claimed(w) \in Claims
  BY <1>1 DEF TypeInv, ClaimNamed
<1>3. LockOwner(w) \in Workers \X Jobs
  BY <1>2 DEF Claimed, Claims, LockOwner
<1> QED
  BY <1>2, <1>3, IndexAssumption DEF Claims, Revisions

-----------------------------------------------------------------------------
(* What keeps the order. *)

\* The repository grows, and nothing that was built under the lock is added
\* to what was searched or changed in it.
WorldFollows ==
  /\ source' \in Nat /\ source <= source'
  /\ Searched' \subseteq Searched
  /\ \A p \in Searched : snapshot'[p] = snapshot[p]
  /\ unlocked \subseteq unlocked'

\* A worker that stays where the lock, the snapshot and the revision are what
\* they were, or leaves.
Follows(v) ==
  /\ frame'[v].pc \in Indexing => frame[v].pc \in Indexing /\ Claimed(v)' = Claimed(v)
  /\ frame'[v].pc \in HasRead => frame[v].pc \in HasRead /\ frame'[v].snap = frame[v].snap
  /\ frame'[v].pc \in HasBegun =>
       frame[v].pc \in HasBegun /\ snapshot'[Claimed(v)] = snapshot[Claimed(v)]

LEMMA PastFollows ==
  ASSUME OrderInv, WorldFollows
  PROVE  SearchesThePast'
<1>1. source \in Nat /\ \A p \in Searched : snapshot[p] \in Nat
  BY DEF OrderInv, RevisionInv, TypeInv, TypeOK, Searched
<1> QED
  BY <1>1 DEF OrderInv, Order, SearchesThePast, WorldFollows

LEMMA StaysOrdered ==
  ASSUME OrderInv, WorldFollows, NEW v \in Workers, Follows(v),
         Locked(v) /\ Locked(v)' => lock' = lock
  PROVE  Ordered(v)'
<1>1. /\ source \in Nat /\ \A p \in Searched : snapshot[p] \in Nat
      /\ frame[v].snap \in Nat
  BY DEF OrderInv, RevisionInv, TypeInv, TypeOK, Searched, Frame
<1>2. Ordered(v)
  BY DEF OrderInv, Order
<1>3. Locked(v)' => Locked(v) /\ LockOwner(v)' = LockOwner(v)
  <2> SUFFICES ASSUME Locked(v)' PROVE Locked(v) /\ LockOwner(v)' = LockOwner(v)
    OBVIOUS
  <2>1. frame[v].pc \in Indexing /\ Claimed(v)' = Claimed(v)
    BY DEF Locked, Follows
  <2>2. frame'[v].job = frame[v].job
    BY <2>1 DEF Claimed
  <2> QED
    BY <2>1, <2>2 DEF Locked, LockOwner, WorldFollows
<1>4. Locked(v)' => lock' = LockOwner(v)'
  BY <1>2, <1>3 DEF Ordered
<1>5. ASSUME Locked(v)', frame'[v].pc \in HasRead
      PROVE  /\ frame'[v].snap <= source'
             /\ \A p \in Searched' : snapshot'[p] <= frame'[v].snap
  <2>1. frame[v].pc \in HasRead /\ frame'[v].snap = frame[v].snap
    BY <1>5 DEF Follows
  <2> QED
    BY <1>1, <1>2, <1>3, <1>5, <2>1 DEF Ordered, WorldFollows
<1>6. ASSUME frame'[v].pc \in HasBegun
      PROVE  snapshot'[Claimed(v)'] = frame'[v].snap
  <2>1. frame'[v].pc \in Indexing /\ frame'[v].pc \in HasRead
    BY <1>6 DEF HasBegun, Indexing, HasRead
  <2> QED
    BY <1>2, <1>6, <2>1 DEF Follows, Ordered
<1> QED
  BY <1>4, <1>5, <1>6 DEF Ordered

\* A worker that stays in its frame, or leaves the statements of the indexing.
LEMMA SameFrame ==
  ASSUME NEW v \in Workers, frame'[v] = frame[v] \/ frame'[v].pc \notin Indexing,
         frame[v].pc \in HasBegun => snapshot'[Claimed(v)] = snapshot[Claimed(v)]
  PROVE  Follows(v)
BY DEF Follows, Claimed, Indexing, HasRead, HasBegun

\* Nothing was begun, committed, read or edited.
LEMMA QuietFollows ==
  ASSUME OrderInv, UNCHANGED <<source, snapshot, announced>>, unlocked \subseteq unlocked'
  PROVE  WorldFollows
BY DEF OrderInv, RevisionInv, TypeInv, TypeOK, WorldFollows, Searched, WithoutLock

-----------------------------------------------------------------------------
(* Each step. *)

\* The frame that a step of a worker enters, and those of the others.
LEMMA Entered ==
  ASSUME RevisionInv, NEW w \in Workers
  PROVE  /\ \A f : Enter(w, f) => frame'[w] = f /\ \A v \in Workers \ {w} : frame'[v] = frame[v]
         /\ \A label : Goto(w, label) =>
              /\ frame'[w] = [frame[w] EXCEPT !.pc = label]
              /\ frame'[w].pc = label /\ frame'[w].snap = frame[w].snap
              /\ Claimed(w)' = Claimed(w)
              /\ \A v \in Workers \ {w} : frame'[v] = frame[v]
         /\ \A label : \A permanent \in BOOLEAN : Raise(w, label, permanent) =>
              /\ frame'[w].pc = label
              /\ \A v \in Workers \ {w} : frame'[v] = frame[v]
<1>1. frame \in [Workers -> Frame] /\ frame[w] \in Frame
  BY DEF RevisionInv, TypeInv, TypeOK
<1> QED
  BY <1>1 DEF Enter, Goto, Raise, Claimed, Frame

\* A worker that leaves the statements of the indexing, or was outside them
\* and stays there, gives up no lock but its own.
LEMMA LeaveKeeps ==
  ASSUME OrderInv, NEW w \in Workers, frame'[w].pc \notin Indexing,
         \A v \in Workers \ {w} : frame'[v] = frame[v],
         UNCHANGED <<source, snapshot, announced, unlocked>>,
         lock' = lock \/ lock = LockOwner(w)
  PROVE  Order'
<1>1. WorldFollows
  BY QuietFollows
<1>2. ASSUME NEW v \in Workers
      PROVE  Ordered(v)'
  <2>1. Follows(v)
    BY SameFrame
  <2>2. Locked(v) /\ Locked(v)' => lock' = lock
    <3> SUFFICES ASSUME Locked(v), Locked(v)', lock = LockOwner(w) PROVE FALSE
      OBVIOUS
    <3>1. lock = LockOwner(v)
      BY DEF OrderInv, Order, Ordered
    <3> QED
      BY <3>1 DEF LockOwner, Locked
  <2> QED
    BY <1>1, <2>1, <2>2, StaysOrdered
<1> QED
  BY <1>1, <1>2, PastFollows DEF Order

\* The steps of a worker that leave.
LEMMA LeavingKeeps ==
  ASSUME OrderInv, NEW w \in Workers,
         \/ LockIsHeld(w) \/ LockCallRaises(w) \/ FailRefused(w) \/ ReadRaises(w)
         \/ BuildIsCancelled(w) \/ BuildRaises(w) \/ Abort(w)
         \/ CompleteIndexJob(w) \/ FailJob(w) \/ ReleaseProjectLock(w) \/ UnlockCallRaises(w)
         \/ Begin(w) /\ BeginRefused
         \/ Commit(w) /\ ~Building(Claimed(w))
         \/ Crash(w) \/ Restart(w)
         \/ \E j \in Jobs : ClaimIndexJob(w, j)
  PROVE  Order'
<1>1. RevisionInv
  BY DEF OrderInv
<1>2. UNCHANGED <<source, snapshot, announced, unlocked>>
  BY DEF LockIsHeld, LockCallRaises, FailRefused, ReadRaises, BuildIsCancelled, BuildRaises,
         Abort, CompleteIndexJob, FailJob, ReleaseProjectLock, UnlockCallRaises, Begin, Commit,
         Crash, Restart, ClaimIndexJob, project, bounds, others, FailIndexRevision
<1>3. lock' = lock \/ lock = LockOwner(w)
  BY DEF LockIsHeld, LockCallRaises, FailRefused, ReadRaises, BuildIsCancelled, BuildRaises,
         Abort, CompleteIndexJob, FailJob, ReleaseProjectLock, UnlockCallRaises, Begin, Commit,
         Crash, Restart, ClaimIndexJob, GivenBack
<1>4. frame'[w].pc \notin Indexing /\ \A v \in Workers \ {w} : frame'[v] = frame[v]
  <2>1. CASE \/ LockCallRaises(w) \/ FailRefused(w) \/ ReleaseProjectLock(w)
             \/ UnlockCallRaises(w) \/ Crash(w) \/ Restart(w)
    <3>1. PICK label \in {"idle", "down"} : Enter(w, NoFrame(label))
      BY <2>1 DEF LockCallRaises, FailRefused, ReleaseProjectLock, UnlockCallRaises, Crash,
                  Restart
    <3> QED
      BY <1>1, <3>1, Entered DEF NoFrame, FrameAt, Indexing
  <2>2. CASE LockIsHeld(w) \/ Abort(w) \/ CompleteIndexJob(w)
    <3>1. \E label \in {"refused", "fail", "unlock"} : Goto(w, label) \/ Raise(w, label, FALSE)
      BY <2>2 DEF LockIsHeld, Abort, CompleteIndexJob
    <3> QED
      BY <1>1, <3>1, Entered DEF Indexing
  <2>3. CASE \/ ReadRaises(w) \/ BuildIsCancelled(w) \/ BuildRaises(w)
             \/ Begin(w) /\ BeginRefused
             \/ Commit(w) /\ ~Building(Claimed(w))
    <3>1. \E label \in {"fail", "abort"}, permanent \in BOOLEAN : Raise(w, label, permanent)
      BY <2>3 DEF ReadRaises, BuildIsCancelled, BuildRaises, Begin, Commit
    <3> QED
      BY <1>1, <3>1, Entered DEF Indexing
  <2>4. CASE FailJob(w)
    <3> DEFINE f == [frame[w] EXCEPT !.pc = "unlock", !.raised = ~HoldsLease(w, frame[w].job)]
    <3>1. f.pc = "unlock"
      BY <1>1 DEF RevisionInv, TypeInv, TypeOK, Frame
    <3>2. Enter(w, f)
      BY <2>4 DEF FailJob
    <3> HIDE DEF f
    <3> QED
      BY <1>1, <3>1, <3>2, Entered DEF Indexing
  <2>5. ASSUME NEW j \in Jobs, ClaimIndexJob(w, j)
        PROVE  frame'[w].pc \notin Indexing /\ \A v \in Workers \ {w} : frame'[v] = frame[v]
    BY <1>1, <2>5, Entered DEF ClaimIndexJob, FrameAt, Indexing
  <2> QED
    BY <2>1, <2>2, <2>3, <2>4, <2>5
<1> QED
  BY <1>2, <1>3, <1>4, LeaveKeeps

\* The lock is granted when nobody has it; without Redis the claim is one
\* without the lock.
LEMMA AcquireKeeps ==
  ASSUME OrderInv, NEW w \in Workers, AcquireProjectLock(w)
  PROVE  Order'
<1>1. RevisionInv
  BY DEF OrderInv
<1>2. /\ frame'[w].pc = "read" /\ Claimed(w)' = Claimed(w)
      /\ \A v \in Workers \ {w} : frame'[v] = frame[v]
  BY <1>1, Entered DEF AcquireProjectLock
<1>3. UNCHANGED <<source, snapshot, announced>> /\ unlocked \subseteq unlocked'
  BY DEF AcquireProjectLock, project, bounds
<1>4. WorldFollows
  BY <1>3, QuietFollows
<1>5. ASSUME NEW v \in Workers, v # w
      PROVE  Ordered(v)'
  <2>1. Follows(v)
    BY <1>2, <1>3, <1>5, SameFrame
  <2>2. Locked(v) => lock' = lock
    <3> SUFFICES ASSUME Locked(v), lock' # lock PROVE FALSE
      OBVIOUS
    <3>1. lock = None
      BY DEF AcquireProjectLock, LockRefused
    <3>2. lock = LockOwner(v) /\ LockOwner(v) # None
      BY <1>1, Executes DEF OrderInv, Order, Ordered, Locked
    <3> QED
      BY <3>1, <3>2
  <2> QED
    BY <1>4, <2>1, <2>2, StaysOrdered
<1>6. Ordered(w)'
  <2>1. frame'[w].pc \notin HasRead /\ frame'[w].pc \notin HasBegun
    BY <1>2 DEF HasRead, HasBegun
  <2>2. Locked(w)' => lock' = LockOwner(w)'
    <3>1. frame'[w].job = frame[w].job
      BY <1>2 DEF Claimed
    <3> QED
      BY <1>2, <3>1 DEF AcquireProjectLock, Locked, LockOwner
  <2> QED
    BY <2>1, <2>2 DEF Ordered
<1> QED
  BY <1>4, <1>5, <1>6, PastFollows DEF Order

\* What is read now is not older than anything that was searched before.
LEMMA ReadKeeps ==
  ASSUME OrderInv, NEW w \in Workers, ReadSource(w)
  PROVE  Order'
<1>1. RevisionInv /\ frame[w] \in Frame /\ source \in Nat
  BY DEF OrderInv, RevisionInv, TypeInv, TypeOK
<1> DEFINE f == [frame[w] EXCEPT !.pc = "begin", !.snap = source]
<1>2. /\ f.pc = "begin" /\ f.job = frame[w].job /\ f.tries = frame[w].tries /\ f.snap = source
      /\ Enter(w, f)
      /\ UNCHANGED <<source, snapshot, announced, unlocked, lock>>
  BY <1>1 DEF ReadSource, Frame, project, bounds, others
<1> HIDE DEF f
<1>3. frame'[w] = f /\ \A v \in Workers \ {w} : frame'[v] = frame[v]
  BY <1>1, <1>2, Entered
<1>4. WorldFollows
  BY <1>2, QuietFollows
<1>5. ASSUME NEW v \in Workers, v # w
      PROVE  Ordered(v)'
  BY <1>2, <1>3, <1>4, <1>5, SameFrame, StaysOrdered
<1>6. Ordered(w)'
  <2>1. frame[w].pc \in Indexing /\ Ordered(w)
    BY DEF ReadSource, At, Indexing, OrderInv, Order
  <2>2. Locked(w)' => Locked(w) /\ LockOwner(w)' = LockOwner(w)
    BY <1>2, <1>3, <2>1 DEF Locked, Claimed, LockOwner
  <2>3. \A p \in Searched' : snapshot'[p] <= frame'[w].snap
    BY <1>2, <1>3, <1>4, PastFollows DEF SearchesThePast
  <2>4. "begin" \notin HasBegun
    BY DEF HasBegun
  <2> QED
    BY <1>1, <1>2, <1>3, <2>1, <2>2, <2>3, <2>4 DEF Ordered
<1> QED
  BY <1>4, <1>5, <1>6, PastFollows DEF Order

\* A begin gives a revision that was not searched its snapshot.
LEMMA BeginFollows ==
  ASSUME OrderInv, NEW r \in Revisions, NEW snap \in Nat,
         revision[r] = "absent", BeginIndexRevision(r, snap), UNCHANGED <<source, unlocked>>
  PROVE  /\ WorldFollows
         /\ snapshot'[r] = snap
         /\ \A q \in Revisions \ {r} : snapshot'[q] = snapshot[q]
<1>1. /\ snapshot \in [Revisions -> Nat] /\ source \in Nat /\ announced \subseteq Revisions
      /\ ActiveIsWhole
  BY DEF OrderInv, RevisionInv, TypeInv, TypeOK, Whole
<1>2. snapshot' = [snapshot EXCEPT ![r] = snap] /\ announced' = announced
  BY DEF BeginIndexRevision
<1>3. r \notin announced
  BY <1>1 DEF ActiveIsWhole
<1> QED
  BY <1>1, <1>2, <1>3 DEF WorldFollows, Searched, WithoutLock

LEMMA BeginKeeps ==
  ASSUME OrderInv, NEW w \in Workers, Begin(w), ~BeginRefused
  PROVE  Order'
<1>1. RevisionInv /\ frame[w] \in Frame
  BY DEF OrderInv, RevisionInv, TypeInv, TypeOK
<1>2. /\ frame[w].pc \in Indexing /\ frame[w].pc \in HasRead /\ frame[w].pc \in BeforeBegin
      /\ Executing(w)
  BY DEF Begin, At, Indexing, HasRead, BeforeBegin, Executing
<1>3. Claimed(w) \in Revisions /\ frame[w].snap \in Nat /\ revision[Claimed(w)] = "absent"
  BY <1>1, <1>2, Executes DEF Frame, RevisionInv, ClaimsInv, BeginsOnce
<1>4. /\ BeginIndexRevision(Claimed(w), frame[w].snap) /\ Goto(w, "build")
      /\ UNCHANGED <<source, unlocked, lock>>
  BY DEF Begin, others, bounds
<1>5. /\ WorldFollows
      /\ snapshot'[Claimed(w)] = frame[w].snap
      /\ \A q \in Revisions \ {Claimed(w)} : snapshot'[q] = snapshot[q]
  BY <1>3, <1>4, BeginFollows
<1>6. /\ frame'[w].pc = "build" /\ frame'[w].snap = frame[w].snap /\ Claimed(w)' = Claimed(w)
      /\ \A v \in Workers \ {w} : frame'[v] = frame[v]
  BY <1>1, <1>4, Entered
<1>7. ASSUME NEW v \in Workers, v # w
      PROVE  Ordered(v)'
  <2>1. frame[v].pc \in HasBegun => snapshot'[Claimed(v)] = snapshot[Claimed(v)]
    <3> SUFFICES ASSUME frame[v].pc \in HasBegun
                 PROVE  Claimed(v) \in Revisions \ {Claimed(w)}
      BY <1>5
    <3>1. frame[v].pc \in Indexing /\ Executing(v)
      BY DEF HasBegun, Indexing, Executing
    <3> QED
      BY <1>1, <1>2, <1>7, <3>1, Executes DEF RevisionInv, ClaimsInv, ClaimsDiffer
  <2>2. Follows(v)
    BY <1>6, <1>7, <2>1, SameFrame
  <2> QED
    BY <1>4, <1>5, <2>2, StaysOrdered
<1>8. Ordered(w)'
  <2>1. Ordered(w)
    BY DEF OrderInv, Order
  <2>2. Locked(w)' => Locked(w) /\ LockOwner(w)' = LockOwner(w)
    BY <1>2, <1>4, <1>6 DEF Locked, Claimed, LockOwner
  <2> QED
    BY <1>2, <1>4, <1>5, <1>6, <2>1, <2>2 DEF Ordered, WorldFollows
<1> QED
  BY <1>5, <1>7, <1>8, PastFollows DEF Order

LEMMA BuildEndsKeeps ==
  ASSUME OrderInv, NEW w \in Workers, BuildEnds(w)
  PROVE  Order'
<1>1. RevisionInv
  BY DEF OrderInv
<1>2. UNCHANGED <<source, snapshot, announced, unlocked, lock>> /\ Goto(w, "commit")
  BY DEF BuildEnds, project, bounds, others
<1>3. /\ frame'[w].pc = "commit" /\ frame'[w].snap = frame[w].snap /\ Claimed(w)' = Claimed(w)
      /\ \A v \in Workers \ {w} : frame'[v] = frame[v]
  BY <1>1, <1>2, Entered
<1>4. WorldFollows
  BY <1>2, QuietFollows
<1>5. Follows(w)
  BY <1>2, <1>3 DEF BuildEnds, At, Follows, Indexing, HasRead, HasBegun
<1>6. \A v \in Workers : Ordered(v)'
  BY <1>2, <1>3, <1>4, <1>5, SameFrame, StaysOrdered
<1> QED
  BY <1>4, <1>6, PastFollows DEF Order

\* What is committed under the lock is not older than what was searched, nor
\* younger than the repository.
LEMMA CommitKeeps ==
  ASSUME OrderInv, NEW w \in Workers, Commit(w), Building(Claimed(w))
  PROVE  /\ Order'
         /\ active' = Claimed(w)
         /\ Claimed(w) \notin WithoutLock =>
              \A p \in Searched : snapshot[p] <= snapshot'[Claimed(w)]
<1>1. RevisionInv
  BY DEF OrderInv
<1>2. /\ frame[w].pc \in Indexing /\ frame[w].pc \in HasRead /\ frame[w].pc \in HasBegun
  BY DEF Commit, At, Indexing, HasRead, HasBegun
<1>3. /\ active' = Claimed(w) /\ announced' = announced \union {Claimed(w)}
      /\ Goto(w, "complete")
      /\ UNCHANGED <<source, snapshot, lock, unlocked>>
  BY DEF Commit, CommitIndexRevision, others, bounds
<1>4. /\ frame'[w].pc = "complete"
      /\ \A v \in Workers \ {w} : frame'[v] = frame[v]
  BY <1>1, <1>3, Entered
<1>5. Claimed(w) \notin Calls
  BY <1>1, <1>2, Executes
<1>6. CASE Claimed(w) \in unlocked
  <2>1. Searched' = Searched
    BY <1>3, <1>6 DEF Searched, WithoutLock
  <2>2. WorldFollows
    BY <1>3, <2>1 DEF WorldFollows, OrderInv, RevisionInv, TypeInv, TypeOK
  <2>3. \A v \in Workers : Ordered(v)'
    BY <1>3, <1>4, <2>2, SameFrame, StaysOrdered DEF Indexing
  <2> QED
    BY <1>3, <1>6, <2>2, <2>3, PastFollows DEF Order, WithoutLock
<1>7. CASE Claimed(w) \notin unlocked
  <2>1. Locked(w) /\ Ordered(w)
    BY <1>2, <1>7 DEF Locked, OrderInv, Order
  <2>2. /\ snapshot[Claimed(w)] = frame[w].snap /\ frame[w].snap <= source
        /\ \A p \in Searched : snapshot[p] <= frame[w].snap
    BY <1>2, <2>1 DEF Ordered
  <2>3. Searched' \subseteq Searched \union {Claimed(w)}
    BY <1>3 DEF Searched, WithoutLock
  <2>4. SearchesThePast'
    BY <1>3, <2>2, <2>3 DEF SearchesThePast, OrderInv, Order
  <2>5. ASSUME NEW v \in Workers
        PROVE  Ordered(v)'
    <3>1. ~Locked(v)'
      <4> SUFFICES ASSUME Locked(v)' PROVE FALSE
        OBVIOUS
      <4>1. v # w
        BY <1>4 DEF Locked, Indexing
      <4>2. Locked(v)
        BY <1>3, <1>4, <4>1 DEF Locked, Claimed
      <4> QED
        BY <2>1, <4>1, <4>2, OneLocked DEF OrderInv
    <3>2. frame'[v].pc \in HasBegun => snapshot'[Claimed(v)'] = frame'[v].snap
      <4>1. frame'[v].pc \in HasBegun => frame'[v] = frame[v]
        BY <1>4 DEF HasBegun
      <4> QED
        BY <1>3, <4>1 DEF OrderInv, Order, Ordered, Claimed
    <3> QED
      BY <3>1, <3>2 DEF Ordered
  <2> QED
    BY <1>3, <2>2, <2>4, <2>5 DEF Order
<1> QED
  BY <1>6, <1>7

-----------------------------------------------------------------------------
(* The other steps, and the theorem. *)

LEMMA CallKeeps ==
  ASSUME OrderInv, NEW c \in Calls, IndexProject(c)
  PROVE  Order'
<1>1. RevisionInv /\ call[c].snap \in Nat /\ c \in Revisions
  BY DEF OrderInv, RevisionInv, TypeInv, TypeOK, Call, Revisions
<1>2. UNCHANGED <<source, frame, lock, unlocked>>
  BY DEF IndexProject, CallReads, CallBegins, CallEnds, CallDies, bounds
<1>3. WorldFollows /\ \A q \in Revisions \ {c} : snapshot'[q] = snapshot[q]
  <2>1. CASE CallBegins(c) /\ ~BeginRefused
    <3>1. revision[c] = "absent" /\ BeginIndexRevision(c, call[c].snap)
      BY <2>1 DEF CallBegins, OrderInv, RevisionInv, ClaimsInv, CallsBeginOnce
    <3> QED
      BY <1>1, <1>2, <3>1, BeginFollows
  <2>2. CASE CallEnds(c)
    <3>1. snapshot' = snapshot /\ announced' \subseteq announced \union {c}
      BY <2>2 DEF CallEnds, CommitIndexRevision, FailIndexRevision
    <3>2. Searched' \subseteq Searched
      BY <1>2, <3>1 DEF Searched, WithoutLock
    <3> QED
      BY <1>2, <3>1, <3>2 DEF WorldFollows, OrderInv, RevisionInv, TypeInv, TypeOK
  <2>3. CASE UNCHANGED project
    BY <1>2, <2>3, QuietFollows DEF project
  <2> QED
    BY <2>1, <2>2, <2>3 DEF IndexProject, CallReads, CallBegins, CallDies
<1>4. ASSUME NEW v \in Workers
      PROVE  Ordered(v)'
  <2>1. frame[v].pc \in HasBegun => Claimed(v) \in Revisions \ {c}
    <3>1. frame[v].pc \in HasBegun => frame[v].pc \in Indexing
      BY DEF HasBegun, Indexing
    <3> QED
      BY <1>1, <3>1, Executes
  <2> QED
    BY <1>2, <1>3, <2>1, SameFrame, StaysOrdered
<1> QED
  BY <1>3, <1>4, PastFollows DEF Order

\* A worker whose lock runs out goes on without it.
LEMMA LapseKeeps ==
  ASSUME OrderInv, LockLapses
  PROVE  Order'
<1>1. /\ UNCHANGED <<frame, source, snapshot, announced>>
      /\ unlocked' = unlocked \union
           {Claimed(w) : w \in {v \in Workers : LockOwner(v) = lock /\ frame[v].pc \in Indexing}}
  BY DEF LockLapses, project
<1>2. WorldFollows
  BY <1>1, QuietFollows
<1>3. ASSUME NEW v \in Workers
      PROVE  Ordered(v)'
  <2>1. ~Locked(v)'
    BY <1>1 DEF OrderInv, Order, Ordered, Locked, Claimed
  <2> QED
    BY <1>1, <1>2, <2>1, SameFrame, StaysOrdered
<1> QED
  BY <1>2, <1>3, PastFollows DEF Order

LEMMA StillKeeps ==
  ASSUME OrderInv,
         \/ \E j \in Jobs : CreateIndexJob(j) \/ RequestIndexJobCancel(j) \/ LeaseLapses(j)
         \/ \E w \in Workers : HeartbeatIndexJob(w)
         \/ EditSource \/ UNCHANGED vars
  PROVE  Order'
<1>1. UNCHANGED <<frame, snapshot, announced, lock, unlocked>>
  BY DEF CreateIndexJob, RequestIndexJobCancel, LeaseLapses, HeartbeatIndexJob, EditSource,
         vars, project, others
<1>2. source \in Nat /\ source' \in Nat /\ source <= source'
  BY DEF CreateIndexJob, RequestIndexJobCancel, LeaseLapses, HeartbeatIndexJob, EditSource,
         vars, bounds, OrderInv, RevisionInv, TypeInv, TypeOK
<1>3. WorldFollows
  BY <1>1, <1>2 DEF WorldFollows, Searched, WithoutLock
<1>4. \A v \in Workers : Ordered(v)'
  BY <1>1, <1>3, SameFrame, StaysOrdered
<1> QED
  BY <1>3, <1>4, PastFollows DEF Order

LEMMA OrderStep == OrderInv /\ [Next]_vars => OrderInv'
<1> SUFFICES ASSUME OrderInv, [Next]_vars PROVE OrderInv'
  OBVIOUS
<1>1. SUFFICES Order'
  BY RevisionStep DEF OrderInv
<1>2. ASSUME NEW w \in Workers, Execute(w)
      PROVE  Order'
  BY <1>2, LeavingKeeps, AcquireKeeps, ReadKeeps, BeginKeeps, BuildEndsKeeps, CommitKeeps
     DEF Execute
<1>3. ASSUME NEW w \in Workers,
             Crash(w) \/ Restart(w) \/ \E j \in Jobs : ClaimIndexJob(w, j)
      PROVE  Order'
  BY <1>3, LeavingKeeps
<1> QED
  BY <1>2, <1>3, CallKeeps, LapseKeeps, StillKeeps DEF Next

\* Only a commit replaces what is searched.
LEMMA OnlyCommitReplaces ==
  ASSUME [Next]_vars, active' # active
  PROVE  \/ \E w \in Workers : Commit(w) /\ Building(Claimed(w))
         \/ active' \in Calls
<1>1. ASSUME NEW w \in Workers, Execute(w)
      PROVE  Commit(w) /\ Building(Claimed(w))
  BY <1>1
     DEF Execute, AcquireProjectLock, LockIsHeld, LockCallRaises, FailRefused, ReadSource,
         ReadRaises, Begin, BuildEnds, BuildIsCancelled, BuildRaises, Abort, CompleteIndexJob,
         FailJob, ReleaseProjectLock, UnlockCallRaises, BeginIndexRevision, FailIndexRevision,
         Commit, project
<1>2. ~UNCHANGED vars /\ ~LockLapses /\ ~EditSource
  BY DEF vars, LockLapses, EditSource, project
<1>3. \A w \in Workers : ~(HeartbeatIndexJob(w) \/ Crash(w) \/ Restart(w))
  BY DEF HeartbeatIndexJob, Crash, Restart, project
<1>4. \A j \in Jobs :
        /\ ~(CreateIndexJob(j) \/ RequestIndexJobCancel(j) \/ LeaseLapses(j))
        /\ \A w \in Workers : ~ClaimIndexJob(w, j)
  BY DEF CreateIndexJob, RequestIndexJobCancel, LeaseLapses, ClaimIndexJob, project
<1>5. ASSUME NEW c \in Calls, IndexProject(c)
      PROVE  active' \in Calls
  BY <1>5
     DEF IndexProject, CallReads, CallBegins, CallEnds, CallDies, project,
         BeginIndexRevision, FailIndexRevision, CommitIndexRevision
<1> QED
  BY <1>1, <1>2, <1>3, <1>4, <1>5 DEF Next

\* A revision that was built under the project lock all the way is not older
\* than any such that was searched before it, whichever workers race, fail,
\* die or come late, whenever locks run out, and whoever else indexes the
\* project without the lock.
THEOREM IndexNeverGoesBack == Spec => IndexMovesForward
<1>1. Init => OrderInv
  BY InitOrder
<1>2. OrderInv /\ [Next]_vars => OrderInv'
  BY OrderStep
<1>3. OrderInv /\ [Next]_vars =>
        [active' # active /\ active' \notin WithoutLock =>
           \A r \in announced \ WithoutLock : snapshot[r] <= snapshot'[active']]_vars
  BY OnlyCommitReplaces, CommitKeeps DEF Searched, WithoutLock
<1> QED
  BY <1>1, <1>2, <1>3, PTL DEF Spec, IndexMovesForward
=============================================================================
