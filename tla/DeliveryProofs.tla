--------------------------- MODULE DeliveryProofs ---------------------------
(***************************************************************************)
(* What is delivered, for any number of those who deliver it: the          *)
(* revisions of an index to the vector store, by workers that overlap,     *)
(* lose their leases, die and restart, and the events of a training        *)
(* attempt to the stream and to its readers, whichever requests are late,  *)
(* repeated or lost.                                                       *)
(***************************************************************************)
EXTENDS VectorSync, TrainingEvents, FiniteSetTheorems, SequenceTheorems,
        WellFoundedInduction, TLAPS

-----------------------------------------------------------------------------
(* Types. *)

LEMMA FrameMoves ==
  ASSUME NEW f \in Frame, NEW label \in Label
  PROVE  [f EXCEPT !.pc = label] \in Frame
BY DEF Frame

LEMMA NoFrameIsFrame ==
  ASSUME NEW label \in Label
  PROVE  NoFrame(label) \in Frame
BY VectorAssumption DEF Frame, NoFrame

\* What a worker goes on with; what the chunks of a labelled point are.
RevisionIsKnown(w) ==
  Syncing(w) => frame[w].rev \in 1 .. active

KnowsItsChunks(w) ==
  /\ frame[w].pc \in {"scroll", "upsert"} => frame[w].missing \subseteq ChunksOf[frame[w].rev]
  /\ frame[w].pc \in {"upsert", "relabel"} => frame[w].reused \subseteq ChunksOf[frame[w].rev]

LabelInv ==
  /\ TypeOK
  /\ \A r \in Revisions : r > active => event[r] = "absent"
  /\ \A r \in Revisions : event[r] = "absent" => r > active
  /\ \A r \in Revisions : owner[r] # None => event[r] = "delivering"
  /\ \A w \in Workers : RevisionIsKnown(w) /\ KnowsItsChunks(w)
  /\ LabelsAreTrue

LEMMA VectorStarts ==
  ASSUME Init
  PROVE  LabelInv
<1> USE VectorAssumption
<1>1. \A w \in Workers : frame[w] = NoFrame("idle")
  BY DEF Init
<1>2. NoFrame("idle") \in Frame /\ NoFrame("idle").pc = "idle"
  BY NoFrameIsFrame DEF NoFrame, Label
<1>3. TypeOK
  BY <1>2 DEF Init, TypeOK
<1> QED
  BY <1>1, <1>2, <1>3 DEF Init, LabelInv, RevisionIsKnown, KnowsItsChunks, Syncing, LabelsAreTrue, Revisions

\* A step of a worker that leaves the rows and the points.
LEMMA WorkerMoves ==
  ASSUME LabelInv, NEW w \in Workers, NEW f \in Frame, frame' = [frame EXCEPT ![w] = f],
         UNCHANGED <<deployed, active, event, attempt, owner, lapsed, points>>, crashes' \in Nat,
         RevisionIsKnown(w)', KnowsItsChunks(w)'
  PROVE  LabelInv'
<1>1. TypeOK'
  BY DEF LabelInv, TypeOK
<1>2. \A v \in Workers \ {w} : frame'[v] = frame[v]
  BY DEF LabelInv, TypeOK
<1>3. \A v \in Workers : RevisionIsKnown(v)' /\ KnowsItsChunks(v)'
  BY <1>2 DEF LabelInv, RevisionIsKnown, KnowsItsChunks, Syncing
<1> QED
  BY <1>1, <1>3 DEF LabelInv, LabelsAreTrue

\* A step of a worker that leaves the rows and changes points.
LEMMA WorkerWrites ==
  ASSUME LabelInv, NEW w \in Workers, NEW f \in Frame, frame' = [frame EXCEPT ![w] = f],
         UNCHANGED <<deployed, active, event, attempt, owner, lapsed, crashes>>,
         points' \in [Chunks -> 0 .. LastRevision], LabelsAreTrue',
         RevisionIsKnown(w)', KnowsItsChunks(w)'
  PROVE  LabelInv'
<1>1. TypeOK'
  BY DEF LabelInv, TypeOK
<1>2. \A v \in Workers \ {w} : frame'[v] = frame[v]
  BY DEF LabelInv, TypeOK
<1>3. \A v \in Workers : RevisionIsKnown(v)' /\ KnowsItsChunks(v)'
  BY <1>2 DEF LabelInv, RevisionIsKnown, KnowsItsChunks, Syncing
<1> QED
  BY <1>1, <1>3 DEF LabelInv

\* A worker that gives a row back.
LEMMA WorkerReleases ==
  ASSUME LabelInv, NEW w \in Workers, NEW r \in Revisions, r <= active,
         NEW s \in {"pending", "delivered", "dead_letter"}, Release(r, s),
         NEW label \in {"idle", "fail"}, frame' = [frame EXCEPT ![w] = NoFrame("idle")],
         UNCHANGED <<deployed, active, points, crashes>>
  PROVE  LabelInv'
<1> USE VectorAssumption
<1>1. NoFrame("idle") \in Frame /\ NoFrame("idle").pc = "idle"
  BY NoFrameIsFrame DEF NoFrame, Label
<1>2. /\ event' = [event EXCEPT ![r] = s] /\ owner' = [owner EXCEPT ![r] = None]
      /\ lapsed' = lapsed \ {r} /\ attempt' = attempt
  BY DEF Release
<1>3. TypeOK'
  BY <1>1, <1>2 DEF LabelInv, TypeOK
<1>4. frame'[w] = NoFrame("idle") /\ \A v \in Workers \ {w} : frame'[v] = frame[v]
  BY DEF LabelInv, TypeOK
<1>5. \A v \in Workers : RevisionIsKnown(v)' /\ KnowsItsChunks(v)'
  BY <1>1, <1>4 DEF LabelInv, RevisionIsKnown, KnowsItsChunks, Syncing
<1>6. /\ event'[r] = s /\ owner'[r] = None
      /\ \A q \in Revisions \ {r} : event'[q] = event[q] /\ owner'[q] = owner[q]
  BY <1>2 DEF LabelInv, TypeOK
<1>7. active \in Nat /\ r \in Nat
  BY DEF LabelInv, TypeOK, Revisions
<1> QED
  BY <1>3, <1>5, <1>6, <1>7 DEF LabelInv, LabelsAreTrue

\* A worker at work has a frame for a committed revision.
LEMMA SyncingKnows ==
  ASSUME LabelInv, NEW w \in Workers, Syncing(w)
  PROVE  /\ frame[w] \in Frame /\ frame[w].rev \in Revisions /\ frame[w].rev <= active
         /\ frame[w].rev \in 1 .. active
<1>1. frame[w] \in Frame /\ active \in 0 .. LastRevision /\ LastRevision \in Nat
  BY VectorAssumption DEF LabelInv, TypeOK
<1>2. frame[w].rev \in 1 .. active
  BY DEF LabelInv, RevisionIsKnown
<1> QED
  BY <1>1, <1>2 DEF Revisions

LEMMA LabelStep ==
  ASSUME LabelInv, [Next]_vars
  PROVE  LabelInv'
<1> USE VectorAssumption
<1>1. CASE CommitIndexRevision
  <2>1. active' = active + 1 /\ active' \in Revisions /\ active \in Nat
    BY <1>1 DEF CommitIndexRevision, LabelInv, TypeOK, Revisions
  <2>2. event' = [event EXCEPT ![active'] = "pending"]
    BY <1>1 DEF CommitIndexRevision
  <2>3. TypeOK'
    BY <1>1, <2>1, <2>2 DEF CommitIndexRevision, LabelInv, TypeOK, Revisions
  <2>4. /\ event'[active'] = "pending"
        /\ \A r \in Revisions \ {active'} : event'[r] = event[r]
    BY <2>1, <2>2 DEF LabelInv, TypeOK
  <2>5. \A r \in Revisions : r \in Nat
    BY DEF Revisions
  <2>6. UNCHANGED <<owner, frame, points>>
    BY <1>1 DEF CommitIndexRevision
  <2>7. \A w \in Workers : RevisionIsKnown(w)' /\ KnowsItsChunks(w)'
    BY <2>1, <2>6 DEF LabelInv, RevisionIsKnown, KnowsItsChunks, Syncing
  <2>8. owner[active'] = None
    BY <2>1 DEF LabelInv
  <2> QED
    BY <2>1, <2>3, <2>4, <2>5, <2>6, <2>7, <2>8 DEF LabelInv, LabelsAreTrue
<1>2. ASSUME NEW w \in Workers, NEW r \in Revisions, ClaimRagOutbox(w, r)
      PROVE  LabelInv'
  <2> DEFINE f == [NoFrame("check") EXCEPT !.rev = r]
  <2>1. f \in Frame /\ f.pc = "check" /\ f.rev = r
    BY DEF Frame, NoFrame, Label, Revisions
  <2>2. /\ event' = [event EXCEPT ![r] = "delivering"] /\ owner' = [owner EXCEPT ![r] = w]
        /\ attempt' = [attempt EXCEPT ![r] = attempt[r] + 1] /\ lapsed' = lapsed \ {r}
        /\ frame' = [frame EXCEPT ![w] = f]
        /\ UNCHANGED <<deployed, active, points, crashes>>
    BY <1>2 DEF ClaimRagOutbox, Enter, LabelInv, TypeOK
  <2> HIDE DEF f
  <2>3. event[r] \in {"pending", "delivering"} /\ attempt[r] + 1 \in 0 .. MaxAttempts
    BY <1>2 DEF ClaimRagOutbox, Claimable, LabelInv, TypeOK
  <2>4. TypeOK'
    BY <2>1, <2>2, <2>3 DEF LabelInv, TypeOK
  <2>5. frame'[w] = f /\ \A v \in Workers \ {w} : frame'[v] = frame[v]
    BY <2>2 DEF LabelInv, TypeOK
  <2>6. r \in 1 .. active
    BY <2>3 DEF LabelInv, TypeOK, Revisions
  <2>7. \A v \in Workers : RevisionIsKnown(v)' /\ KnowsItsChunks(v)'
    BY <2>1, <2>2, <2>5, <2>6 DEF LabelInv, RevisionIsKnown, KnowsItsChunks, Syncing
  <2>8. /\ event'[r] = "delivering" /\ owner'[r] = w
        /\ \A q \in Revisions \ {r} : event'[q] = event[q] /\ owner'[q] = owner[q]
    BY <2>2 DEF LabelInv, TypeOK
  <2>9. \A q \in Revisions : (q > active => event'[q] = "absent") /\ (event'[q] = "absent" => q > active)
    <3>1. active \in Nat /\ r \in Nat /\ ~(r > active)
      BY <2>6 DEF LabelInv, TypeOK
    <3> QED
      BY <2>8, <3>1 DEF LabelInv
  <2> QED
    BY <2>2, <2>4, <2>7, <2>8, <2>9 DEF LabelInv, LabelsAreTrue
<1>3. ASSUME NEW w \in Workers, NEW label \in {"list", "fail", "complete"},
             Syncing(w), Goto(w, label), UNCHANGED <<deployed, active, outbox, points, crashes>>
      PROVE  LabelInv'
  <2> DEFINE f == [frame[w] EXCEPT !.pc = label]
  <2>1. f \in Frame /\ f.pc = label /\ f.rev = frame[w].rev
    <3>1. frame[w] \in Frame /\ label \in Label
      BY <1>3, SyncingKnows DEF Label
    <3>2. f \in Frame
      BY <3>1, FrameMoves
    <3> QED
      BY <3>1, <3>2 DEF Frame
  <2>2. frame' = [frame EXCEPT ![w] = f] /\ frame'[w] = f
    BY <1>3 DEF Goto, Enter, LabelInv, TypeOK
  <2>3. crashes \in Nat
    BY DEF LabelInv, TypeOK
  <2> HIDE DEF f
  <2>4. RevisionIsKnown(w)' /\ KnowsItsChunks(w)'
    BY <1>3, <2>1, <2>2 DEF RevisionIsKnown, KnowsItsChunks, Syncing, LabelInv
  <2> QED
    BY <1>3, <2>1, <2>2, <2>3, <2>4, WorkerMoves DEF outbox
<1>4. ASSUME NEW w \in Workers, NEW label \in {"idle", "down"}, frame' = [frame EXCEPT ![w] = NoFrame(label)],
             UNCHANGED <<deployed, active, outbox, points>>, crashes' \in Nat
      PROVE  LabelInv'
  <2>1. NoFrame(label) \in Frame /\ NoFrame(label).pc = label
    BY NoFrameIsFrame DEF NoFrame, Label
  <2>2. frame'[w] = NoFrame(label)
    BY <1>4 DEF LabelInv, TypeOK
  <2>3. RevisionIsKnown(w)' /\ KnowsItsChunks(w)'
    BY <2>1, <2>2 DEF RevisionIsKnown, KnowsItsChunks, Syncing
  <2> QED
    BY <1>4, <2>1, <2>3, WorkerMoves DEF outbox
<1>5. ASSUME NEW w \in Workers, FailRagOutbox(w)
      PROVE  LabelInv'
  <2>1. frame[w].rev \in Revisions /\ frame[w].rev <= active
    BY <1>5, SyncingKnows DEF FailRagOutbox, At, Syncing
  <2>2. FailedStatus(frame[w].rev) \in {"pending", "delivered", "dead_letter"}
    BY DEF FailedStatus
  <2>3. crashes \in Nat
    BY DEF LabelInv, TypeOK
  <2>4. CASE FoundToFail(w)
    BY <1>5, <2>1, <2>2, <2>4, WorkerReleases DEF FailRagOutbox, Enter
  <2>5. CASE ~FoundToFail(w)
    BY <1>4, <1>5, <2>3, <2>5 DEF FailRagOutbox, Enter
  <2> QED
    BY <2>4, <2>5
<1>6. ASSUME NEW w \in Workers, CompleteRagOutbox(w)
      PROVE  LabelInv'
  <2>1. frame[w].rev \in Revisions /\ frame[w].rev <= active /\ Syncing(w)
    BY <1>6, SyncingKnows DEF CompleteRagOutbox, At, Syncing
  <2>2. CASE event[frame[w].rev] = "delivering" /\ owner[frame[w].rev] = w
    BY <1>6, <2>1, <2>2, WorkerReleases DEF CompleteRagOutbox, Enter
  <2>3. CASE ~(event[frame[w].rev] = "delivering" /\ owner[frame[w].rev] = w)
    BY <1>3, <1>6, <2>1, <2>3 DEF CompleteRagOutbox
  <2> QED
    BY <2>2, <2>3
<1>7. ASSUME NEW w \in Workers, CheckActive(w) \/ SyncRaises(w)
      PROVE  LabelInv'
  BY <1>3, <1>7 DEF CheckActive, SyncRaises, At, Syncing
<1>8. ASSUME NEW w \in Workers, ListChunks(w)
      PROVE  LabelInv'
  <2>1. Syncing(w) /\ frame[w] \in Frame /\ active \in 1 .. LastRevision
    BY <1>8 DEF ListChunks, At, Syncing, LabelInv, TypeOK, RevisionIsKnown
  <2>2. CASE ChunksRefused(w)
    BY <1>3, <1>8, <2>1, <2>2 DEF ListChunks, Goto
  <2>3. CASE ~ChunksRefused(w)
    <3> DEFINE f == [frame[w] EXCEPT !.pc = "scroll", !.missing = ChunksOf[active]]
    <3>1. ChunksOf[active] \subseteq Chunks
      BY <2>1 DEF Revisions
    <3>2. f \in Frame /\ f.pc = "scroll" /\ f.rev = frame[w].rev /\ f.missing = ChunksOf[active]
      BY <2>1, <3>1 DEF Frame, Label
    <3>3. frame' = [frame EXCEPT ![w] = f] /\ frame'[w] = f
      BY <1>8, <2>3 DEF ListChunks, Enter, LabelInv, TypeOK
    <3>4. /\ UNCHANGED <<deployed, active, event, attempt, owner, lapsed, points>>
          /\ crashes' \in Nat
      BY <1>8 DEF ListChunks, outbox, LabelInv, TypeOK
    <3> HIDE DEF f
    <3>5. RevisionIsKnown(w)' /\ KnowsItsChunks(w)'
      BY <2>1, <2>3, <3>2, <3>3, <3>4 DEF RevisionIsKnown, KnowsItsChunks, Syncing, ChunksRefused, LabelInv
    <3> QED
      BY <3>2, <3>3, <3>4, <3>5, WorkerMoves
  <2> QED
    BY <2>2, <2>3
<1>9. ASSUME NEW w \in Workers, Scroll(w)
      PROVE  LabelInv'
  <2> DEFINE existing == {c \in Chunks : points[c] # 0}
             f == [frame[w] EXCEPT !.pc = "upsert", !.missing = frame[w].missing \ existing,
                                   !.reused = frame[w].missing \intersect existing,
                                   !.stale = existing \ frame[w].missing]
  <2>1. Syncing(w) /\ frame[w] \in Frame /\ frame[w].missing \subseteq ChunksOf[frame[w].rev]
    BY <1>9 DEF Scroll, At, Syncing, LabelInv, TypeOK, KnowsItsChunks
  <2>2. f \in Frame /\ f.pc = "upsert" /\ f.rev = frame[w].rev
        /\ f.missing \subseteq frame[w].missing /\ f.reused \subseteq frame[w].missing
    BY <2>1 DEF Frame, Label
  <2>3. frame' = [frame EXCEPT ![w] = f] /\ frame'[w] = f
    BY <1>9 DEF Scroll, Enter, LabelInv, TypeOK
  <2>4. /\ UNCHANGED <<deployed, active, event, attempt, owner, lapsed, points>>
        /\ crashes' \in Nat
    BY <1>9 DEF Scroll, outbox, LabelInv, TypeOK
  <2> HIDE DEF f
  <2>5. RevisionIsKnown(w)' /\ KnowsItsChunks(w)'
    BY <2>1, <2>2, <2>3, <2>4 DEF RevisionIsKnown, KnowsItsChunks, Syncing, LabelInv
  <2> QED
    BY <2>2, <2>3, <2>4, <2>5, WorkerMoves
<1>10. ASSUME NEW w \in Workers, Upsert(w)
       PROVE  LabelInv'
  <2>1. /\ Syncing(w) /\ frame[w] \in Frame /\ frame[w].rev \in Revisions
        /\ frame[w].missing \subseteq ChunksOf[frame[w].rev]
        /\ frame[w].reused \subseteq ChunksOf[frame[w].rev]
    BY <1>10, SyncingKnows DEF Upsert, At, Syncing, LabelInv, KnowsItsChunks
  <2>2. UNCHANGED <<deployed, active, event, attempt, owner, lapsed, crashes>> /\ crashes \in Nat
    BY <1>10 DEF Upsert, outbox, LabelInv, TypeOK
  <2>3. CASE frame[w].missing = {}
    <3> DEFINE f == [frame[w] EXCEPT !.pc = "relabel"]
    <3>1. f \in Frame /\ f.pc = "relabel" /\ f.rev = frame[w].rev /\ f.reused = frame[w].reused
      BY <2>1 DEF Frame, Label
    <3>2. frame' = [frame EXCEPT ![w] = f] /\ frame'[w] = f /\ UNCHANGED points
      BY <1>10, <2>3 DEF Upsert, Goto, Enter, LabelInv, TypeOK
    <3> HIDE DEF f
    <3>3. RevisionIsKnown(w)' /\ KnowsItsChunks(w)'
      BY <2>1, <2>2, <3>1, <3>2 DEF RevisionIsKnown, KnowsItsChunks, Syncing, LabelInv
    <3> QED
      BY <2>2, <3>1, <3>2, <3>3, WorkerMoves
  <2>4. CASE frame[w].missing # {}
    <3>1. PICK c \in frame[w].missing :
            /\ points' = [points EXCEPT ![c] = frame[w].rev]
            /\ Enter(w, [frame[w] EXCEPT !.missing = frame[w].missing \ {c}])
      BY <1>10, <2>1, <2>4 DEF Upsert, Frame
    <3> DEFINE f == [frame[w] EXCEPT !.missing = frame[w].missing \ {c}]
    <3>2. f \in Frame /\ f.pc = "upsert" /\ f.rev = frame[w].rev /\ f.reused = frame[w].reused
          /\ f.missing \subseteq frame[w].missing
      BY <1>10, <2>1 DEF Frame, Upsert, At
    <3>3. frame' = [frame EXCEPT ![w] = f] /\ frame'[w] = f
      BY <3>1 DEF Enter, LabelInv, TypeOK
    <3> HIDE DEF f
    <3>4. RevisionIsKnown(w)' /\ KnowsItsChunks(w)'
      BY <2>1, <2>2, <3>2, <3>3 DEF RevisionIsKnown, KnowsItsChunks, Syncing, LabelInv
    <3>5. c \in ChunksOf[frame[w].rev]
      BY <2>1
    <3>6. points' \in [Chunks -> 0 .. LastRevision]
      BY <2>1, <3>1 DEF LabelInv, TypeOK, Revisions
    <3>7. LabelsAreTrue'
      BY <3>1, <3>5 DEF LabelInv, TypeOK, LabelsAreTrue
    <3> QED
      BY <2>2, <3>2, <3>3, <3>4, <3>6, <3>7, WorkerWrites
  <2> QED
    BY <2>3, <2>4
<1>11. ASSUME NEW w \in Workers, Relabel(w) \/ DeleteStale(w)
       PROVE  LabelInv'
  <2>1. /\ Syncing(w) /\ frame[w] \in Frame /\ frame[w].rev \in Revisions
        /\ frame[w].pc = "relabel" => frame[w].reused \subseteq ChunksOf[frame[w].rev]
    BY <1>11 DEF Relabel, DeleteStale, At, Syncing, LabelInv, TypeOK, KnowsItsChunks, RevisionIsKnown, Revisions
  <2>2. UNCHANGED <<deployed, active, event, attempt, owner, lapsed, crashes>>
    BY <1>11 DEF Relabel, DeleteStale, outbox
  <2>3. PICK label \in {"delete", "complete"} : Goto(w, label)
    BY <1>11 DEF Relabel, DeleteStale
  <2> DEFINE f == [frame[w] EXCEPT !.pc = label]
  <2>4. f \in Frame /\ f.pc = label /\ f.rev = frame[w].rev
    BY <2>1 DEF Frame, Label
  <2>5. frame' = [frame EXCEPT ![w] = f] /\ frame'[w] = f
    BY <2>3 DEF Goto, Enter, LabelInv, TypeOK
  <2> HIDE DEF f
  <2>6. RevisionIsKnown(w)' /\ KnowsItsChunks(w)'
    BY <2>1, <2>2, <2>4, <2>5 DEF RevisionIsKnown, KnowsItsChunks, Syncing, LabelInv
  <2>7. points' \in [Chunks -> 0 .. LastRevision]
    BY <1>11, <2>1 DEF Relabel, Relabelled, DeleteStale, LabelInv, TypeOK, Revisions
  <2>8. LabelsAreTrue'
    BY <1>11, <2>1 DEF Relabel, Relabelled, DeleteStale, At, LabelInv, TypeOK, LabelsAreTrue
  <2> QED
    BY <2>2, <2>4, <2>5, <2>6, <2>7, <2>8, WorkerWrites
<1>12. ASSUME NEW r \in Revisions, LeaseLapses(r)
       PROVE  LabelInv'
  <2>1. UNCHANGED <<deployed, active, event, attempt, owner, points, frame, crashes>> /\ lapsed' \subseteq Revisions
    BY <1>12 DEF LeaseLapses, LabelInv, TypeOK
  <2> QED
    BY <2>1 DEF LabelInv, TypeOK, LabelsAreTrue, RevisionIsKnown, KnowsItsChunks, Syncing
<1>13. ASSUME NEW w \in Workers, Crash(w) \/ Restart(w)
       PROVE  LabelInv'
  <2>1. crashes' \in Nat
    BY <1>13 DEF Crash, Restart, LabelInv, TypeOK
  <2> QED
    BY <1>4, <1>13, <2>1 DEF Crash, Restart, Enter
<1>14. CASE UNCHANGED vars
  BY <1>14 DEF vars, outbox, LabelInv, TypeOK, LabelsAreTrue, RevisionIsKnown, KnowsItsChunks, Syncing
<1>15. deployed.workers \subseteq Workers
  BY DEF LabelInv, TypeOK
<1> QED
  BY <1>1, <1>2, <1>5, <1>6, <1>7, <1>8, <1>9, <1>10, <1>11, <1>12, <1>13, <1>14, <1>15 DEF Next, Execute

LEMMA LabelInvHolds == Spec => []LabelInv
BY VectorStarts, LabelStep, PTL DEF Spec

\* Every variable has its type; no event is claimed more often than
\* max_attempts (claim_rag_outbox).
THEOREM VectorTypes == Spec => []TypeOK
BY LabelInvHolds, PTL DEF LabelInv

\* A point that carries a revision is a chunk of that revision, whatever the
\* workers that overlap did to it (sync_project).
THEOREM LabelsStayTrue == Spec => []LabelsAreTrue
BY LabelInvHolds, PTL DEF LabelInv

\* A delivered event is delivered for good: whoever completes or fails it then
\* no longer owns its row (complete_rag_outbox, fail_rag_outbox).
THEOREM DeliveriesStand == Spec => DeliveryIsFinal
<1>1. ASSUME LabelInv, [Next]_vars, NEW r \in Revisions, event[r] = "delivered"
      PROVE  event'[r] = "delivered"
  <2> USE VectorAssumption
  <2>1. owner[r] = None /\ r <= active /\ active \in Nat /\ event \in [Revisions -> {event[q] : q \in Revisions}]
    <3>1. owner[r] = None /\ r <= active
      <4>1. owner[r] = None
        BY <1>1 DEF LabelInv
      <4>2. r \in Nat /\ active \in Nat /\ ~(r > active)
        BY <1>1 DEF LabelInv, TypeOK, Revisions
      <4> QED
        BY <4>1, <4>2
    <3>2. active \in Nat /\ event \in [Revisions -> {event[q] : q \in Revisions}]
      BY <1>1 DEF LabelInv, TypeOK
    <3> QED
      BY <3>1, <3>2
  <2>2. CASE CommitIndexRevision
    <3>1. r # active + 1
      <4>1. r \in Nat
        BY DEF Revisions
      <4> QED
        BY <2>1, <4>1
    <3>2. event' = [event EXCEPT ![active + 1] = "pending"]
      BY <2>2 DEF CommitIndexRevision
    <3> QED
      BY <1>1, <2>1, <3>1, <3>2
  <2>3. ASSUME NEW w \in Workers, NEW q \in Revisions, ClaimRagOutbox(w, q)
        PROVE  event'[r] = "delivered"
    BY <1>1, <2>1, <2>3 DEF ClaimRagOutbox, Claimable
  <2>4. ASSUME NEW w \in Workers, FailRagOutbox(w)
        PROVE  event'[r] = "delivered"
    <3>1. w # None
      OBVIOUS
    <3> QED
      BY <1>1, <2>1, <2>4, <3>1 DEF FailRagOutbox, FoundToFail, Release, outbox
  <2>5. ASSUME NEW w \in Workers, CompleteRagOutbox(w)
        PROVE  event'[r] = "delivered"
    BY <1>1, <2>1, <2>5 DEF CompleteRagOutbox, Release, outbox
  <2>6. CASE UNCHANGED event
    BY <1>1, <2>6
  <2>7. ASSUME NEW w \in Workers,
               \/ CheckActive(w) \/ ListChunks(w) \/ Scroll(w) \/ Upsert(w) \/ Relabel(w)
               \/ DeleteStale(w) \/ SyncRaises(w) \/ Crash(w) \/ Restart(w)
        PROVE  UNCHANGED event
    BY <2>7 DEF CheckActive, ListChunks, Scroll, Upsert, Relabel, DeleteStale, SyncRaises, Crash, Restart, outbox
  <2>8. ASSUME NEW q \in Revisions, LeaseLapses(q)
        PROVE  UNCHANGED event
    BY <2>8 DEF LeaseLapses
  <2>9. deployed.workers \subseteq Workers
    BY <1>1 DEF LabelInv, TypeOK
  <2>10. CASE UNCHANGED vars
    BY <2>6, <2>10 DEF vars, outbox
  <2> QED
    BY <1>1, <2>2, <2>3, <2>4, <2>5, <2>6, <2>7, <2>8, <2>9, <2>10 DEF Next, Execute
<1>2. LabelInv /\ [Next]_vars => [\A r \in Revisions : event[r] = "delivered" => event'[r] = "delivered"]_vars
  BY <1>1
<1> QED
  BY <1>2, LabelInvHolds, PTL DEF Spec, DeliveryIsFinal

-----------------------------------------------------------------------------
(* Where one worker synchronises at a time. *)

InSync == {"list", "scroll", "upsert", "relabel", "delete", "complete"}

\* How far the worker has come with the chunks of the active revision.
Progress(w) ==
  LET f == frame[w]
      chunks == ChunksOf[active]
  IN
  /\ f.pc = "scroll" => f.missing = chunks
  /\ f.pc \in {"upsert", "relabel"} =>
       \A c \in chunks : (f.pc = "upsert" /\ c \in f.missing)
                           \/ (c \in f.reused /\ points[c] # 0) \/ points[c] = active
  /\ f.pc \in {"upsert", "relabel", "delete"} => f.stale \intersect chunks = {}
  /\ f.pc \in {"delete", "complete"} => \A c \in chunks : points[c] = active

\* The event a worker is at is not delivered, and nothing is being done to the
\* points once the active revision is.
OneWorkerInv(w) ==
  /\ Syncing(w) => event[frame[w].rev] = "delivering"
  /\ frame[w].pc \in InSync => active # 0 /\ event[active] # "delivered"
  /\ frame[w].rev = active => Progress(w)
  /\ active # 0 /\ event[active] = "delivered" => \A c \in ChunksOf[active] : points[c] = active

DeliveredInv ==
  /\ LabelInv
  /\ \A w \in Workers : deployed.workers = {w} => OneWorkerInv(w)

LEMMA DeliveredStarts ==
  ASSUME Init
  PROVE  DeliveredInv
<1>1. \A w \in Workers : frame[w].pc = "idle"
  BY DEF Init, NoFrame
<1> QED
  BY <1>1, VectorStarts DEF Init, DeliveredInv, OneWorkerInv, Progress, InSync, Syncing

\* A worker that comes to rest, or begins, has done nothing yet.
LEMMA WorkerRests ==
  ASSUME LabelInv, NEW w \in Workers, OneWorkerInv(w), UNCHANGED <<active, points>>,
         frame'[w].pc \in {"idle", "down", "check", "fail"},
         frame'[w].pc \in {"check", "fail"} => event'[frame'[w].rev] = "delivering",
         event'[active] = "delivered" /\ active # 0 => event[active] = "delivered"
  PROVE  OneWorkerInv(w)'
BY DEF OneWorkerInv, Progress, InSync, Syncing

\* A worker's call to Qdrant or to the store in the course of its work.
LEMMA WorkerGoesOn ==
  ASSUME LabelInv, NEW w \in Workers, OneWorkerInv(w), UNCHANGED <<active, event>>, active # 0,
         event[active] # "delivered", Syncing(w), frame'[w].rev = frame[w].rev,
         frame[w].rev = active => Progress(w)'
  PROVE  OneWorkerInv(w)'
BY DEF OneWorkerInv, InSync, Syncing

LEMMA DeliveredStep ==
  ASSUME DeliveredInv, [Next]_vars
  PROVE  DeliveredInv'
<1> USE VectorAssumption
<1>1. LabelInv' /\ LabelInv /\ UNCHANGED deployed
  <2>1. UNCHANGED deployed
    BY DEF Next, Execute, CommitIndexRevision, ClaimRagOutbox, FailRagOutbox, CompleteRagOutbox,
           CheckActive, ListChunks, Scroll, Upsert, Relabel, DeleteStale, SyncRaises, LeaseLapses,
           Crash, Restart, vars
  <2> QED
    BY <2>1, LabelStep DEF DeliveredInv
<1> SUFFICES ASSUME NEW w \in Workers, deployed.workers = {w}
             PROVE  OneWorkerInv(w)'
  BY <1>1 DEF DeliveredInv
<1>2. OneWorkerInv(w)
  BY DEF DeliveredInv
<1>3. /\ active \in Nat /\ frame[w] \in Frame
      /\ frame = [v \in Workers |-> frame[v]] /\ event = [r \in Revisions |-> event[r]]
      /\ points = [k \in Chunks |-> points[k]]
  BY <1>1 DEF LabelInv, TypeOK
<1>4. /\ Syncing(w) => /\ frame[w].rev \in Revisions /\ frame[w].rev <= active
                       /\ frame[w].rev \in 1 .. active
      /\ active # 0 => active \in Revisions /\ ChunksOf[active] \subseteq Chunks
  <2>1. active # 0 => active \in Revisions
    BY <1>1 DEF LabelInv, TypeOK, Revisions
  <2> QED
    BY <1>1, <2>1, SyncingKnows
<1>5. CASE CommitIndexRevision
  <2>1. /\ active' = active + 1 /\ event'[active'] = "pending" /\ UNCHANGED <<points, frame>>
        /\ \A r \in Revisions \ {active'} : event'[r] = event[r]
    BY <1>3, <1>5, <1>1 DEF CommitIndexRevision, LabelInv, TypeOK, Revisions
  <2>2. Syncing(w) => frame[w].rev # active' /\ event'[frame[w].rev] = event[frame[w].rev]
    BY <1>3, <1>4, <2>1
  <2>3. Syncing(w)' <=> Syncing(w)
    BY <2>1 DEF Syncing
  <2>4. frame[w].rev = active' => frame[w].pc \in {"idle", "down"}
    BY <2>2 DEF Syncing
  <2> QED
    BY <1>2, <1>3, <2>1, <2>2, <2>3, <2>4 DEF OneWorkerInv, Progress
<1>6. ASSUME NEW r \in Revisions, ClaimRagOutbox(w, r)
      PROVE  OneWorkerInv(w)'
  <2>1. /\ frame'[w].pc = "check" /\ frame'[w].rev = r /\ UNCHANGED <<active, points>>
        /\ event'[r] = "delivering" /\ \A q \in Revisions \ {r} : event'[q] = event[q]
    BY <1>3, <1>6 DEF ClaimRagOutbox, Enter, NoFrame
  <2>2. active # 0 => active \in Revisions
    BY <1>1 DEF LabelInv, TypeOK, Revisions
  <2> QED
    BY <1>1, <1>2, <2>1, <2>2, WorkerRests
<1>7. ASSUME CheckActive(w)
      PROVE  OneWorkerInv(w)'
  <2>1. UNCHANGED <<active, event, points>> /\ frame'[w].rev = frame[w].rev /\ Syncing(w)
    BY <1>3, <1>7 DEF CheckActive, Goto, Enter, outbox, Frame, Syncing, At
  <2>2. frame'[w].pc = IF frame[w].rev = active THEN "list" ELSE "fail"
    BY <1>3, <1>7 DEF CheckActive, Goto, Enter, Frame
  <2>3. event[frame[w].rev] = "delivering" /\ frame[w].rev # 0
    BY <1>2, <1>4, <2>1 DEF OneWorkerInv
  <2> QED
    BY <1>1, <1>2, <2>1, <2>2, <2>3, WorkerRests, WorkerGoesOn DEF Progress
<1>8. ASSUME frame[w].pc \in InSync, UNCHANGED <<active, event, points>>,
             frame'[w].pc = "fail", frame'[w].rev = frame[w].rev
      PROVE  OneWorkerInv(w)'
  <2>1. event[frame[w].rev] = "delivering"
    BY <1>2, <1>8 DEF OneWorkerInv, InSync, Syncing
  <2> QED
    BY <1>1, <1>2, <1>8, <2>1, WorkerRests
<1>9. frame[w].pc \in InSync => Syncing(w) /\ active # 0 /\ event[active] # "delivered" /\ frame[w].rev \in Revisions
  BY <1>2, <1>4 DEF OneWorkerInv, InSync, Syncing
<1>10. ASSUME ListChunks(w)
       PROVE  OneWorkerInv(w)'
  <2>1. UNCHANGED <<active, event, points>> /\ frame[w].pc = "list"
    BY <1>10 DEF ListChunks, outbox, At
  <2>2. CASE ChunksRefused(w)
    <3>1. frame'[w].pc = "fail" /\ frame'[w].rev = frame[w].rev
      BY <1>3, <1>10, <2>2 DEF ListChunks, Enter, Frame
    <3> QED
      BY <1>8, <2>1, <3>1 DEF InSync
  <2>3. CASE ~ChunksRefused(w)
    <3>1. frame'[w].pc = "scroll" /\ frame'[w].rev = frame[w].rev /\ frame'[w].missing = ChunksOf[active]
      BY <1>3, <1>10, <2>3 DEF ListChunks, Enter, Frame
    <3>2. Progress(w)'
      BY <2>1, <3>1 DEF Progress
    <3> QED
      BY <1>1, <1>2, <1>9, <2>1, <3>1, <3>2, WorkerGoesOn DEF InSync
  <2> QED
    BY <2>2, <2>3
<1>11. ASSUME Scroll(w)
       PROVE  OneWorkerInv(w)'
  <2> DEFINE existing == {c \in Chunks : points[c] # 0}
  <2>1. UNCHANGED <<active, event, points>> /\ frame[w].pc = "scroll"
    BY <1>11 DEF Scroll, outbox, At
  <2>2. /\ frame'[w].pc = "upsert" /\ frame'[w].rev = frame[w].rev
        /\ frame'[w].missing = frame[w].missing \ existing
        /\ frame'[w].reused = frame[w].missing \intersect existing
        /\ frame'[w].stale = existing \ frame[w].missing
    BY <1>3, <1>11 DEF Scroll, Enter, Frame
  <2>3. frame[w].rev = active => frame[w].missing = ChunksOf[active]
    BY <1>2, <2>1 DEF OneWorkerInv, Progress
  <2>4. active # 0 => ChunksOf[active] \subseteq Chunks
    BY <1>4
  <2>5. frame[w].rev = active => Progress(w)'
    BY <1>9, <2>1, <2>2, <2>3, <2>4 DEF Progress, InSync
  <2> QED
    BY <1>1, <1>2, <1>9, <2>1, <2>2, <2>5, WorkerGoesOn DEF InSync
<1>12. ASSUME Upsert(w)
       PROVE  OneWorkerInv(w)'
  <2>1. UNCHANGED <<active, event>> /\ frame[w].pc = "upsert"
    BY <1>12 DEF Upsert, outbox, At
  <2>2. CASE frame[w].missing = {}
    <3>1. /\ frame'[w].pc = "relabel" /\ frame'[w].rev = frame[w].rev
          /\ frame'[w].missing = frame[w].missing
          /\ frame'[w].reused = frame[w].reused /\ frame'[w].stale = frame[w].stale
          /\ UNCHANGED points
      BY <1>3, <1>12, <2>2 DEF Upsert, Goto, Enter, Frame
    <3>2. frame[w].rev = active => Progress(w)'
      BY <1>2, <2>1, <2>2, <3>1 DEF OneWorkerInv, Progress
    <3> QED
      BY <1>1, <1>2, <1>9, <2>1, <3>1, <3>2, WorkerGoesOn DEF InSync
  <2>3. CASE frame[w].missing # {}
    <3>1. PICK c \in frame[w].missing :
            /\ points' = [points EXCEPT ![c] = frame[w].rev]
            /\ Enter(w, [frame[w] EXCEPT !.missing = frame[w].missing \ {c}])
      BY <1>3, <1>12, <2>3 DEF Upsert, Frame
    <3>2. /\ frame'[w].pc = "upsert" /\ frame'[w].rev = frame[w].rev
          /\ frame'[w].missing = frame[w].missing \ {c}
          /\ frame'[w].reused = frame[w].reused /\ frame'[w].stale = frame[w].stale
      BY <1>3, <2>1, <3>1 DEF Enter, Frame
    <3>3. c \in Chunks /\ frame[w].rev \in Nat \ {0}
      BY <1>3, <1>9, <2>1 DEF Frame, InSync, Revisions
    <3>4. points'[c] = frame[w].rev /\ \A k \in Chunks \ {c} : points'[k] = points[k]
      BY <1>3, <3>1, <3>3
    <3>5. active # 0 => ChunksOf[active] \subseteq Chunks
      BY <1>4
    <3>6. frame[w].rev = active => Progress(w)'
      <4> SUFFICES ASSUME frame[w].rev = active
                   PROVE  Progress(w)'
        OBVIOUS
      <4>1. Progress(w) /\ active # 0
        BY <1>2, <1>9, <2>1 DEF OneWorkerInv, InSync
      <4>2. \A k \in ChunksOf[active] : \/ k \in frame'[w].missing
                                        \/ k \in frame'[w].reused /\ points'[k] # 0
                                        \/ points'[k] = active
        BY <2>1, <3>2, <3>3, <3>4, <3>5, <4>1 DEF Progress
      <4> QED
        BY <2>1, <3>2, <4>1, <4>2 DEF Progress
    <3> QED
      BY <1>1, <1>2, <1>9, <2>1, <3>2, <3>6, WorkerGoesOn DEF InSync
  <2> QED
    BY <2>2, <2>3
<1>13. ASSUME Relabel(w)
       PROVE  OneWorkerInv(w)'
  <2>1. UNCHANGED <<active, event>> /\ frame[w].pc = "relabel"
    BY <1>13 DEF Relabel, outbox, At
  <2>2. frame'[w].pc = "delete" /\ frame'[w].rev = frame[w].rev /\ frame'[w].stale = frame[w].stale
    BY <1>3, <1>13 DEF Relabel, Goto, Enter, Frame
  <2>3. active # 0 => ChunksOf[active] \subseteq Chunks
    BY <1>4
  <2>4. \A k \in Chunks : points'[k] =
          IF k \in frame[w].reused /\ points[k] # 0 THEN frame[w].rev ELSE points[k]
    BY <1>13 DEF Relabel, Relabelled
  <2>5. frame[w].rev = active => Progress(w)'
    BY <1>2, <1>9, <2>1, <2>2, <2>3, <2>4 DEF OneWorkerInv, Progress, InSync
  <2> QED
    BY <1>1, <1>2, <1>9, <2>1, <2>2, <2>5, WorkerGoesOn DEF InSync
<1>14. ASSUME DeleteStale(w)
       PROVE  OneWorkerInv(w)'
  <2>1. UNCHANGED <<active, event>> /\ frame[w].pc = "delete"
    BY <1>14 DEF DeleteStale, outbox, At
  <2>2. frame'[w].pc = "complete" /\ frame'[w].rev = frame[w].rev
    BY <1>3, <1>14 DEF DeleteStale, Goto, Enter, Frame
  <2>3. active # 0 => ChunksOf[active] \subseteq Chunks
    BY <1>4
  <2>4. \A k \in Chunks : points'[k] = IF k \in frame[w].stale THEN 0 ELSE points[k]
    BY <1>14 DEF DeleteStale
  <2>5. frame[w].rev = active => Progress(w)'
    BY <1>2, <1>9, <2>1, <2>2, <2>3, <2>4 DEF OneWorkerInv, Progress, InSync
  <2> QED
    BY <1>1, <1>2, <1>9, <2>1, <2>2, <2>5, WorkerGoesOn DEF InSync
<1>15. ASSUME SyncRaises(w)
       PROVE  OneWorkerInv(w)'
  <2>1. /\ UNCHANGED <<active, event, points>> /\ frame[w].pc \in InSync
        /\ frame'[w].pc = "fail" /\ frame'[w].rev = frame[w].rev
    BY <1>3, <1>15 DEF SyncRaises, outbox, Goto, Enter, Frame, InSync
  <2> QED
    BY <1>8, <2>1
<1>16. ASSUME CompleteRagOutbox(w)
       PROVE  OneWorkerInv(w)'
  <2>1. UNCHANGED <<active, points>> /\ frame[w].pc = "complete"
    BY <1>16 DEF CompleteRagOutbox, At
  <2>2. CASE event[frame[w].rev] = "delivering" /\ owner[frame[w].rev] = w
    <3>1. /\ frame'[w].pc = "idle" /\ event'[frame[w].rev] = "delivered"
          /\ \A q \in Revisions \ {frame[w].rev} : event'[q] = event[q]
      BY <1>3, <1>9, <1>16, <2>1, <2>2 DEF CompleteRagOutbox, Release, Enter, NoFrame, InSync
    <3>2. frame[w].rev = active => \A c \in ChunksOf[active] : points[c] = active
      BY <1>2, <2>1 DEF OneWorkerInv, Progress
    <3>3. active \in Revisions
      BY <1>1, <1>9, <2>1 DEF LabelInv, TypeOK, Revisions, InSync
    <3> QED
      BY <1>2, <1>9, <2>1, <3>1, <3>2, <3>3 DEF OneWorkerInv, Progress, InSync, Syncing
  <2>3. CASE ~(event[frame[w].rev] = "delivering" /\ owner[frame[w].rev] = w)
    <3>1. UNCHANGED event /\ frame'[w].pc = "fail" /\ frame'[w].rev = frame[w].rev
      BY <1>3, <1>16, <2>3 DEF CompleteRagOutbox, outbox, Goto, Enter, Frame
    <3> QED
      BY <1>8, <2>1, <3>1 DEF InSync
  <2> QED
    BY <2>2, <2>3
<1>17. ASSUME FailRagOutbox(w)
       PROVE  OneWorkerInv(w)'
  <2>1. UNCHANGED <<active, points>> /\ Syncing(w) /\ frame'[w].pc \in {"idle", "down"}
    BY <1>3, <1>17 DEF FailRagOutbox, At, Syncing, Enter, NoFrame
  <2>2. CASE UNCHANGED event
    BY <1>1, <1>2, <2>1, <2>2, WorkerRests
  <2>3. ASSUME Release(frame[w].rev, FailedStatus(frame[w].rev))
        PROVE  event'[active] = "delivered" /\ active # 0 => event[active] = "delivered"
    <3>1. /\ event'[frame[w].rev] = FailedStatus(frame[w].rev)
          /\ \A q \in Revisions \ {frame[w].rev} : event'[q] = event[q]
      BY <1>3, <1>4, <2>1, <2>3 DEF Release
    <3>2. FailedStatus(frame[w].rev) # "delivered"
      BY DEF FailedStatus
    <3> QED
      BY <1>4, <3>1, <3>2
  <2> QED
    BY <1>1, <1>2, <1>17, <2>1, <2>2, <2>3, WorkerRests DEF FailRagOutbox, outbox
<1>18. ASSUME NEW r \in Revisions, LeaseLapses(r)
       PROVE  OneWorkerInv(w)'
  BY <1>2, <1>18 DEF LeaseLapses, OneWorkerInv, Progress, Syncing
<1>19. ASSUME Crash(w) \/ Restart(w)
       PROVE  OneWorkerInv(w)'
  <2>1. UNCHANGED <<active, points, event>> /\ frame'[w].pc \in {"idle", "down"}
    BY <1>3, <1>19 DEF Crash, Restart, Enter, NoFrame, outbox
  <2> QED
    BY <1>1, <1>2, <2>1, WorkerRests
<1>20. CASE UNCHANGED vars
  BY <1>2, <1>20 DEF vars, outbox, OneWorkerInv, Progress, Syncing
<1> QED
  BY <1>5, <1>6, <1>7, <1>10, <1>11, <1>12, <1>13, <1>14, <1>15, <1>16, <1>17, <1>18, <1>19, <1>20
     DEF Next, Execute

\* Where one worker synchronises at a time, however often it loses its lease,
\* fails and dies: once the active revision is delivered, the points that
\* carry it are exactly its chunks (sync_project).
THEOREM ActiveIsSearchable == Spec => []DeliveredIsSearchable
<1>1. DeliveredInv => DeliveredIsSearchable
  <2> SUFFICES ASSUME DeliveredInv, Cardinality(deployed.workers) = 1, active # 0,
                      event[active] = "delivered"
               PROVE  {c \in Chunks : points[c] = active} = ChunksOf[active]
    BY DEF DeliveredIsSearchable
  <2>1. deployed.workers \subseteq Workers /\ active \in Revisions /\ LabelsAreTrue
    BY VectorAssumption DEF DeliveredInv, LabelInv, TypeOK, Revisions
  <2>2. PICK w : deployed.workers = {w}
    BY <2>1, VectorAssumption, FS_Subset, FS_Singleton
  <2>3. \A c \in ChunksOf[active] : points[c] = active
    BY <2>1, <2>2 DEF DeliveredInv, OneWorkerInv
  <2> QED
    BY <2>1, <2>3, VectorAssumption DEF LabelsAreTrue, Revisions
<1> QED
  BY <1>1, DeliveredStarts, DeliveredStep, PTL DEF Spec
-----------------------------------------------------------------------------
(* The events of a training attempt: their types and the invariants of those   *)
(* who send and of those who read them.                                        *)

Events == Ranks \X Nat
Lists == Seq(Events)
Logs == Seq(Lists)
ReporterLabel == {"start", "run", "replay", "replaying", "sending", "log", "down"}
ReporterRow ==
  [pc : ReporterLabel, emitted : Nat, pending : Lists, latest : SUBSET Events,
   batch : Lists, sending : Lists, on : Requests \union {NoSlot},
   rows : Logs, retained : Logs]
RequestRow ==
  [pc : {"free", "allocate", "append", "done", "failed"}, events : Lists, first : Nat]
Entry == [id : Nat, event : Events]

SenderTypes ==
  /\ durable \in SUBSET Events
  /\ reporter \in [Ranks -> ReporterRow]
  /\ wal \in [Ranks -> Logs]
  /\ request \in [Requests -> RequestRow]
  /\ known \in SUBSET Events
  /\ eventSequence \in Nat
  /\ stream \in Seq(Entry)

\* A reporter holds each of its events once; what it may drop is not durable.
Numbered(row, r) == {r} \X (1 .. row.emitted)
Holds(row, r, s) == ToSet(s) \subseteq Numbered(row, r) /\ IsInjective(s)

HoldsOnce(row, log, r) ==
  /\ Holds(row, r, row.pending) /\ Holds(row, r, row.batch) /\ Holds(row, r, row.sending)
  /\ row.latest \subseteq Numbered(row, r) \ durable
  /\ ToSet(row.pending) \intersect ToSet(row.batch) = {}
  /\ row.latest \intersect (ToSet(row.pending) \union ToSet(row.batch)) = {}
  /\ \A s \in ToSet(log) \union ToSet(row.rows) \union ToSet(row.retained) : Holds(row, r, s)

\* While the log is replayed, what it held is still to be sent, retained or
\* known.
Replays(row, log, k) ==
  /\ row.pc \in {"sending", "replaying"} <=> row.on # NoSlot
  /\ row.pc \in {"start", "run", "replay", "down"} => row.sending = << >>
  /\ row.pc = "replaying" => row.rows # << >> /\ row.sending = Head(row.rows)
  /\ row.pc \in {"replay", "replaying"} =>
       /\ Flat(log) \subseteq Flat(row.rows) \union Flat(row.retained) \union k
       /\ Flat(row.rows) \union Flat(row.retained) \subseteq Flat(log)

HeldBy(row, log) ==
  ToSet(row.pending) \union row.latest \union ToSet(row.batch) \union ToSet(row.sending) \union Flat(log)

KeepsDurable(row, log, r) ==
  Numbered(row, r) \intersect durable \subseteq HeldBy(row, log) \union known \union gone

\* The request a reporter waits for has its events, or has numbered them.
Waits(row, table, k) ==
  row.on # NoSlot =>
    /\ table[row.on].pc # "free"
    /\ table[row.on].pc = "allocate" => table[row.on].events = row.sending
    /\ table[row.on].pc \in {"append", "done"} => ToSet(row.sending) \subseteq k

ReporterInv(r) ==
  /\ HoldsOnce(reporter[r], wal[r], r)
  /\ Replays(reporter[r], wal[r], known)
  /\ KeepsDurable(reporter[r], wal[r], r)
  /\ Waits(reporter[r], request, known)

WaitDiffer ==
  \A r, s \in Ranks : reporter[r].on # NoSlot /\ reporter[r].on = reporter[s].on => r = s

\* What is numbered is on its way to the stream or in it, each event once.
Appending == {q \in Requests : request[q].pc = "append"}
OnTheWay == UNION {ToSet(request[q].events) : q \in Appending}

RequestInv ==
  /\ \A q \in Requests : request[q].pc \in {"allocate", "append"} => IsInjective(request[q].events)
  /\ \A q \in Appending :
       ToSet(request[q].events) \subseteq known \ Streamed /\ request[q].first > 0
  /\ \A p, q \in Appending :
       p # q => ToSet(request[p].events) \intersect ToSet(request[q].events) = {}
StreamInv ==
  /\ \A i, j \in DOMAIN stream : stream[i].event = stream[j].event => i = j
  /\ Streamed \subseteq known
  /\ known \subseteq OnTheWay \union Streamed \union refused \union gone

SenderInv ==
  /\ SenderTypes
  /\ \A r \in Ranks : ReporterInv(r)
  /\ WaitDiffer
  /\ RequestInv
  /\ StreamInv

\* The ids of the stream increase, and its readers have all up to where they
\* are; the archiver goes on with the next ones.
ChunkIsNext ==
  /\ archiver.chunk \subseteq Ids
  /\ archiver.pc # "idle" => archiver.chunk # {}
  /\ \A i \in archiver.chunk : i > cursor
  /\ \A i \in archiver.chunk, j \in Ids : cursor < j /\ j < i => j \in archiver.chunk
  /\ archiver.pc = "advance" => archiver.chunk \subseteq archived

ReadersInv ==
  /\ \A i, j \in DOMAIN stream : i < j => stream[i].id < stream[j].id
  /\ cursor \in Ids \union {0} /\ follower.last \in Ids \union {0} /\ 0 \notin Ids
  /\ archiver \in [pc : {"idle", "put", "advance"}, chunk : SUBSET Nat]
  /\ follower = [last |-> follower.last, seen |-> follower.seen]
  /\ ChunkIsNext
  /\ ReadersMissNothing
-----------------------------------------------------------------------------
(* Naturals and sequences of events. *)

LEMMA NatOrder ==
  \E R : IsWellFoundedOn(R, Nat) /\ \A m, n \in Nat : <<m, n>> \in R <=> m < n
<1> DEFINE R == OpToRel(<, Nat)
<1>1. IsWellFoundedOn(R, Nat)
  BY NatLessThanWellFounded
<1>2. \A m, n \in Nat : <<m, n>> \in R <=> m < n
  BY DEF OpToRel
<1> HIDE DEF R
<1> QED
  BY <1>1, <1>2

\* Every set of naturals has a least member: induction over data without an
\* operator for its hypothesis.
LEMMA LeastOf ==
  ASSUME NEW T, T \subseteq Nat, T # {}
  PROVE  \E n \in T : \A m \in T : n <= m
<1>1. PICK R : IsWellFoundedOn(R, Nat) /\ \A m, n \in Nat : <<m, n>> \in R <=> m < n
  BY NatOrder
<1>2. PICK n \in T : \A m \in T : ~(<<m, n>> \in R)
  <2>1. IsWellFoundedOn(R, Nat)
    BY <1>1
  <2> QED
    BY <2>1, WFMin
<1>3. \A m \in T : ~(m < n)
  BY <1>1, <1>2
<1>4. \A m \in T : n <= m
  BY <1>3
<1> QED
  BY <1>4

\* A bounded one has a greatest.
LEMMA GreatestOf ==
  ASSUME NEW T, T \subseteq Nat, T # {}, NEW b \in Nat, \A n \in T : n <= b
  PROVE  Greatest(T) \in T /\ \A n \in T : n <= Greatest(T)
<1> DEFINE D == {b - n : n \in T}
<1>1. D \subseteq Nat /\ D # {}
  <2>1. \A n \in T : n \in Nat /\ n <= b
    OBVIOUS
  <2>2. \A n \in T : b - n \in Nat
    BY <2>1
  <2> QED
    BY <2>2
<1>2. PICK d \in D : \A e \in D : d <= e
  BY <1>1, LeastOf
<1>3. PICK g \in T : d = b - g
  BY <1>2
<1>4. \A n \in T : n <= g
  BY <1>2, <1>3
<1> QED
  BY <1>4 DEF Greatest

LEMMA AppendSet ==
  ASSUME NEW S, NEW t \in Seq(S), NEW x \in S
  PROVE  ToSet(Append(t, x)) = ToSet(t) \union {x}
<1>1. Len(Append(t, x)) = Len(t) + 1 /\ Append(t, x) \in Seq(S) /\ Len(t) \in Nat
  OBVIOUS
<1>2. \A i \in 1 .. Len(t) : Append(t, x)[i] = t[i]
  OBVIOUS
<1>3. Append(t, x)[Len(t) + 1] = x
  OBVIOUS
<1>4. DOMAIN Append(t, x) = 1 .. Len(t) + 1 /\ DOMAIN t = 1 .. Len(t)
  BY <1>1
<1> HIDE DEF ToSet
<1>5. ToSet(Append(t, x)) \subseteq ToSet(t) \union {x}
  BY <1>1, <1>2, <1>3, <1>4 DEF ToSet
<1>6. x \in ToSet(Append(t, x))
  BY <1>1, <1>3, <1>4 DEF ToSet
<1>7. ToSet(t) \subseteq ToSet(Append(t, x))
  <2> SUFFICES ASSUME NEW i \in 1 .. Len(t) PROVE t[i] \in ToSet(Append(t, x))
    BY <1>4 DEF ToSet
  <2>1. i \in 1 .. Len(t) + 1 /\ Append(t, x)[i] = t[i]
    BY <1>1, <1>2
  <2> QED
    BY <1>4, <2>1 DEF ToSet
<1> QED
  BY <1>5, <1>6, <1>7

\* What Unknown computes, for as much of the list as is done.
NewUpTo(s, n, f) ==
  f = [i \in 0 .. n |->
         IF i = 0 THEN << >>
         ELSE IF s[i] \in known THEN f[i - 1] ELSE Append(f[i - 1], s[i])]

LEMMA NewExists ==
  ASSUME NEW s, NEW n \in Nat
  PROVE  \E f : NewUpTo(s, n, f)
<1> DEFINE Bad == {m \in Nat : ~\E f : NewUpTo(s, m, f)}
<1>1. SUFFICES ASSUME Bad # {} PROVE FALSE
  OBVIOUS
<1>2. PICK m \in Bad : \A k \in Bad : m <= k
  BY <1>1, LeastOf
<1>3. m # 0
  <2>1. NewUpTo(s, 0, [i \in 0 .. 0 |-> << >>])
    BY DEF NewUpTo
  <2> QED
    BY <2>1
<1>4. PICK f : NewUpTo(s, m - 1, f)
  BY <1>2, <1>3
<1> DEFINE g == [i \in 0 .. m |-> IF i < m THEN f[i]
                   ELSE IF s[i] \in known THEN f[i - 1] ELSE Append(f[i - 1], s[i])]
<1>5. NewUpTo(s, m, g)
  <2>1. m \in Nat /\ m - 1 \in Nat
    BY <1>3
  <2>2. f = [i \in 0 .. m - 1 |-> IF i = 0 THEN << >>
              ELSE IF s[i] \in known THEN f[i - 1] ELSE Append(f[i - 1], s[i])]
    BY <1>4 DEF NewUpTo
  <2>3. \A i \in 0 .. m - 1 : g[i] = f[i]
    BY <2>1
  <2>4. g[m] = IF s[m] \in known THEN f[m - 1] ELSE Append(f[m - 1], s[m])
    BY <2>1
  <2>5. \A i \in 0 .. m : i # 0 => g[i - 1] = f[i - 1]
    BY <2>1, <2>3
  <2>6. \A i \in 0 .. m : g[i] = IF i = 0 THEN << >>
              ELSE IF s[i] \in known THEN g[i - 1] ELSE Append(g[i - 1], s[i])
    <3> TAKE i \in 0 .. m
    <3>1. CASE i = m
      BY <3>1, <2>1, <2>4, <2>5, <1>3
    <3>2. CASE i # m
      <4>1. i \in 0 .. m - 1
        BY <3>2, <2>1
      <4>2. g[i] = f[i] /\ (i # 0 => g[i - 1] = f[i - 1])
        BY <4>1, <2>3, <2>5
      <4>3. f[i] = IF i = 0 THEN << >>
                   ELSE IF s[i] \in known THEN f[i - 1] ELSE Append(f[i - 1], s[i])
        BY <4>1, <2>2
      <4> QED
        BY <4>1, <4>2, <4>3
    <3> QED
      BY <3>1, <3>2
  <2>7. g = [i \in 0 .. m |-> g[i]]
    OBVIOUS
  <2> HIDE DEF g
  <2> QED
    BY <2>6, <2>7 DEF NewUpTo
<1> QED
  BY <1>5

LEMMA UnknownIs ==
  ASSUME NEW q, Len(request[q].events) \in Nat
  PROVE  \E f : NewUpTo(request[q].events, Len(request[q].events), f)
                  /\ Unknown(q) = f[Len(request[q].events)]
<1> DEFINE s == request[q].events
<1>1. NewUpTo(s, Len(s), CHOOSE f : NewUpTo(s, Len(s), f))
  BY NewExists
<1>2. Unknown(q) = (CHOOSE f : NewUpTo(s, Len(s), f))[Len(s)]
  BY DEF Unknown, NewUpTo
<1> QED
  BY <1>1, <1>2

\* The events that are not known, each as often as in the list.
LEMMA UnknownEvents ==
  ASSUME NEW S, NEW q, request[q].events \in Seq(S)
  PROVE  /\ Unknown(q) \in Seq(S)
         /\ ToSet(Unknown(q)) = ToSet(request[q].events) \ known
         /\ IsInjective(request[q].events) => IsInjective(Unknown(q))
<1> DEFINE s == request[q].events
           L == Len(s)
           Right(t, n) == /\ t \in Seq(S)
                          /\ ToSet(t) = {s[i] : i \in 1 .. n} \ known
                          /\ IsInjective(s) => IsInjective(t)
<1>1. L \in Nat /\ s \in Seq(S)
  OBVIOUS
<1>2. PICK f : NewUpTo(s, L, f) /\ Unknown(q) = f[L]
  BY <1>1, UnknownIs
<1>3. \A i \in 0 .. L : f[i] = IF i = 0 THEN << >>
         ELSE IF s[i] \in known THEN f[i - 1] ELSE Append(f[i - 1], s[i])
  <2>1. f = [i \in 0 .. L |-> IF i = 0 THEN << >>
              ELSE IF s[i] \in known THEN f[i - 1] ELSE Append(f[i - 1], s[i])]
    BY <1>2 DEF NewUpTo
  <2> QED
    BY <2>1
<1> DEFINE Bad == {n \in 0 .. L : ~Right(f[n], n)}
<1>4. Bad = {}
  <2> SUFFICES ASSUME Bad # {} PROVE FALSE
    OBVIOUS
  <2>1. Bad \subseteq Nat
    BY <1>1
  <2>2. PICK n \in Bad : \A k \in Bad : n <= k
    BY <2>1, LeastOf
  <2> HIDE DEF L
  <2>3. n \in 0 .. L /\ ~Right(f[n], n)
    BY <2>2
  <2>4. n # 0
    <3>1. f[0] = << >>
      BY <1>1, <1>3
    <3>2. Right(<< >>, 0)
      BY DEF ToSet, IsInjective
    <3> QED
      BY <3>1, <3>2, <2>3
  <2>5. n - 1 \in 0 .. L /\ n \in 1 .. L
    BY <2>3, <2>4, <1>1
  <2>6. Right(f[n - 1], n - 1)
    BY <2>2, <2>5, <1>1
  <2> DEFINE t == f[n - 1]
  <2>7. f[n] = IF s[n] \in known THEN t ELSE Append(t, s[n])
    BY <2>3, <2>4, <1>3
  <2>8. t \in Seq(S) /\ s[n] \in S
    BY <2>5, <2>6, <1>1 DEF L
  <2>9. {s[i] : i \in 1 .. n} = {s[i] : i \in 1 .. n - 1} \union {s[n]}
    BY <2>5, <1>1
  <2> HIDE DEF t
  <2>10. CASE s[n] \in known
    BY <2>3, <2>6, <2>7, <2>9, <2>10 DEF t
  <2>11. CASE s[n] \notin known
    <3>1. f[n] = Append(t, s[n])
      BY <2>7, <2>11
    <3>2. Append(t, s[n]) \in Seq(S)
      BY <2>8
    <3>3. ToSet(Append(t, s[n])) = ToSet(t) \union {s[n]}
      BY <2>8, AppendSet
    <3>4. IsInjective(s) => IsInjective(Append(t, s[n]))
      <4> SUFFICES ASSUME IsInjective(s) PROVE IsInjective(Append(t, s[n]))
        OBVIOUS
      <4>1. IsInjective(t)
        BY <2>6 DEF t
      <4>2. \A i \in 1 .. n - 1 : s[i] # s[n]
        BY <1>1, <2>5 DEF IsInjective, L
      <4>3. s[n] \notin ToSet(t)
        BY <4>2, <2>6 DEF t
      <4> QED
        BY <4>1, <4>3, <2>8 DEF IsInjective, ToSet
    <3> QED
      BY <2>3, <2>6, <2>9, <2>11, <3>1, <3>2, <3>3, <3>4 DEF t
  <2> QED
    BY <2>10, <2>11
<1>5. Right(f[L], L)
  <2> HIDE DEF Right, L
  <2>1. L \in 0 .. L
    BY <1>1 DEF L
  <2> QED
    BY <1>4, <2>1
<1>6. {s[i] : i \in 1 .. L} = ToSet(s)
  BY <1>1 DEF ToSet
<1> QED
  BY <1>2, <1>5, <1>6
-----------------------------------------------------------------------------
(* Those who read the stream. *)

LEMMA Concatenated ==
  ASSUME NEW S, NEW t \in Seq(S), NEW u \in Seq(S)
  PROVE  /\ t \o u \in Seq(S)
         /\ DOMAIN (t \o u) = 1 .. Len(t) + Len(u)
         /\ \A i \in DOMAIN t : (t \o u)[i] = t[i]
         /\ \A i \in DOMAIN u : Len(t) + i \in DOMAIN (t \o u) /\ (t \o u)[Len(t) + i] = u[i]
         /\ \A k \in DOMAIN (t \o u) : k \notin DOMAIN t => k - Len(t) \in DOMAIN u
<1>1. Len(t) \in Nat /\ Len(u) \in Nat /\ DOMAIN t = 1 .. Len(t) /\ DOMAIN u = 1 .. Len(u)
  OBVIOUS
<1>2. t \o u \in Seq(S) /\ Len(t \o u) = Len(t) + Len(u)
  OBVIOUS
<1>3. DOMAIN (t \o u) = 1 .. Len(t) + Len(u)
  BY <1>2
<1>4. \A i \in 1 .. Len(t) : (t \o u)[i] = t[i]
  BY <1>1
<1>5. \A i \in 1 .. Len(u) : (t \o u)[Len(t) + i] = u[i]
  BY <1>1
<1> QED
  BY <1>1, <1>2, <1>3, <1>4, <1>5

Increasing == \A i, j \in DOMAIN stream : i < j => stream[i].id < stream[j].id

LEMMA LastIsGreatest ==
  ASSUME stream \in Seq(Entry), Increasing, stream # << >>
  PROVE  Last(stream).id \in Nat /\ \A n \in Ids : n \in Nat /\ n <= Last(stream).id
<1>1. Len(stream) \in Nat \ {0} /\ DOMAIN stream = 1 .. Len(stream)
  OBVIOUS
<1>2. \A i \in DOMAIN stream : stream[i].id \in Nat
  <2>1. \A i \in DOMAIN stream : stream[i] \in Entry
    OBVIOUS
  <2> QED
    BY <2>1 DEF Entry
<1>3. \A i \in DOMAIN stream : i < Len(stream) \/ i = Len(stream)
  BY <1>1
<1>4. Len(stream) \in DOMAIN stream
  BY <1>1
<1> QED
  BY <1>2, <1>3, <1>4 DEF Last, Ids, Increasing

LEMMA IdsAreBounded ==
  ASSUME stream \in Seq(Entry), Increasing
  PROVE  \E b \in Nat : Ids \subseteq 0 .. b
<1>1. CASE stream = << >>
  <2>1. Ids = {}
    BY <1>1 DEF Ids
  <2> QED
    BY <2>1
<1>2. CASE stream # << >>
  <2>1. Last(stream).id \in Nat /\ \A n \in Ids : n \in Nat /\ n <= Last(stream).id
    BY <1>2, LastIsGreatest
  <2> QED
    BY <2>1
<1> QED
  BY <1>1, <1>2

\* What is appended: entries of the request's events with greater ids.
LEMMA Appended ==
  ASSUME SenderTypes, Increasing, NEW q \in Requests, Taken(q), request[q].first > 0,
         stream' = stream \o Entries(q)
  PROVE  /\ stream' \in Seq(Entry)
         /\ Increasing'
         /\ Ids \subseteq Ids' /\ (0 \notin Ids => 0 \notin Ids')
         /\ \A n \in Ids' \ Ids, i \in Ids : i < n
         /\ Streamed' = Streamed \union ToSet(request[q].events)
         /\ \A i \in DOMAIN stream : stream'[i] = stream[i]
         /\ \A k \in DOMAIN stream' : k \in DOMAIN stream
              \/ (k - Len(stream) \in DOMAIN request[q].events
                    /\ stream'[k].event = request[q].events[k - Len(stream)])
<1> DEFINE e == request[q].events
           first == request[q].first
           u == Entries(q)
           L == Len(stream)
<1>1. e \in Seq(Events) /\ first \in Nat /\ stream \in Seq(Entry)
  BY DEF SenderTypes, RequestRow, Lists
<1>2. DOMAIN u = DOMAIN e /\ \A i \in DOMAIN e : u[i] = [id |-> first + i - 1, event |-> e[i]]
  BY DEF Entries
<1>0. u = [i \in DOMAIN e |-> u[i]]
  BY DEF Entries
<1>16. first > 0
  OBVIOUS
<1>17. stream = << >> \/ first > Last(stream).id
  BY DEF Taken
<1> HIDE DEF u, e, first
<1>3. u \in Seq(Entry)
  <2>1. DOMAIN e = 1 .. Len(e) /\ Len(e) \in Nat /\ \A i \in DOMAIN e : e[i] \in Events /\ i \in Nat \ {0}
    BY <1>1
  <2>2. \A i \in DOMAIN e : u[i] \in Entry
    <3> SUFFICES ASSUME NEW i \in DOMAIN e PROVE u[i] \in Entry
      OBVIOUS
    <3>1. first + i - 1 \in Nat /\ e[i] \in Events
      BY <1>1, <2>1
    <3>2. u[i] = [id |-> first + i - 1, event |-> e[i]]
      BY <1>2
    <3> QED
      BY <3>1, <3>2 DEF Entry
  <2>3. u = [i \in 1 .. Len(e) |-> u[i]]
    BY <1>0, <2>1
  <2>4. u \in [1 .. Len(e) -> Entry]
    BY <2>1, <2>2, <2>3
  <2> QED
    BY <2>1, <2>4
<1>4. /\ stream' \in Seq(Entry)
      /\ DOMAIN stream' = 1 .. L + Len(u)
      /\ \A i \in DOMAIN stream : stream'[i] = stream[i]
      /\ \A i \in DOMAIN u : L + i \in DOMAIN stream' /\ stream'[L + i] = u[i]
      /\ \A k \in DOMAIN stream' : k \notin DOMAIN stream => k - L \in DOMAIN u
  <2>1. stream' = stream \o u
    BY DEF u
  <2> HIDE DEF L
  <2> QED
    BY <1>1, <1>3, <2>1, Concatenated DEF L
<1>5. L \in Nat /\ DOMAIN stream = 1 .. L /\ Len(u) \in Nat
  BY <1>1, <1>3
<1> HIDE DEF L
<1>6. \A k \in DOMAIN stream' : k \notin DOMAIN stream =>
        /\ k > L /\ k \in Nat
        /\ k - L \in DOMAIN e
        /\ stream'[k] = [id |-> first + (k - L) - 1, event |-> e[k - L]]
  <2> SUFFICES ASSUME NEW k \in DOMAIN stream', k \notin DOMAIN stream
               PROVE  /\ k > L /\ k \in Nat
                      /\ k - L \in DOMAIN e
                      /\ stream'[k] = [id |-> first + (k - L) - 1, event |-> e[k - L]]
    OBVIOUS
  <2>1. k - L \in DOMAIN u
    BY <1>4
  <2>2. k > L /\ k \in Nat /\ L + (k - L) = k
    BY <1>4, <1>5
  <2>3. stream'[L + (k - L)] = u[k - L]
    BY <1>4, <2>1
  <2> QED
    BY <1>2, <2>1, <2>2, <2>3
<1>7. \A i \in DOMAIN stream : stream[i].id \in Nat /\ stream[i].id < first
  <2>1. CASE stream = << >>
    BY <2>1
  <2>2. CASE stream # << >>
    <3>1. first > Last(stream).id
      BY <2>2, <1>17
    <3>2. Last(stream).id \in Nat /\ \A n \in Ids : n \in Nat /\ n <= Last(stream).id
      BY <1>1, <2>2, LastIsGreatest
    <3>3. \A n \in Ids : n < first
      BY <1>1, <3>1, <3>2
    <3>4. \A i \in DOMAIN stream : stream[i].id \in Ids
      BY DEF Ids
    <3> QED
      BY <3>2, <3>3, <3>4
  <2> QED
    BY <2>1, <2>2
<1>8. \A k \in DOMAIN stream' : k \notin DOMAIN stream =>
        /\ stream'[k].id \in Nat /\ stream'[k].id >= first
        /\ stream'[k].id = first + (k - L) - 1
        /\ stream'[k].event = e[k - L]
  <2>1. \A k \in DOMAIN stream' : k \notin DOMAIN stream => first + (k - L) - 1 \in Nat /\ first + (k - L) - 1 >= first
    BY <1>1, <1>5, <1>6
  <2> SUFFICES ASSUME NEW k \in DOMAIN stream', k \notin DOMAIN stream
               PROVE  /\ stream'[k].id \in Nat /\ stream'[k].id >= first
                      /\ stream'[k].id = first + (k - L) - 1
                      /\ stream'[k].event = e[k - L]
    OBVIOUS
  <2>2. stream'[k] = [id |-> first + (k - L) - 1, event |-> e[k - L]]
    BY <1>6
  <2>3. stream'[k].id = first + (k - L) - 1 /\ stream'[k].event = e[k - L]
    BY <2>2
  <2> QED
    BY <2>1, <2>3
<1>9. Increasing'
  <2> SUFFICES ASSUME NEW i \in DOMAIN stream', NEW j \in DOMAIN stream', i < j
               PROVE  stream'[i].id < stream'[j].id
    BY DEF Increasing
  <2>1. CASE j \in DOMAIN stream
    <3>1. i \in DOMAIN stream
      BY <1>4, <1>5, <2>1
    <3> QED
      BY <1>4, <2>1, <3>1 DEF Increasing
  <2>2. CASE i \in DOMAIN stream /\ j \notin DOMAIN stream
    <3>1. stream'[i].id = stream[i].id /\ stream[i].id \in Nat /\ stream[i].id < first
      BY <1>4, <1>7, <2>2
    <3>2. stream'[j].id \in Nat /\ stream'[j].id >= first
      BY <1>8, <2>2
    <3> QED
      BY <1>1, <3>1, <3>2
  <2>3. CASE i \notin DOMAIN stream /\ j \notin DOMAIN stream
    <3>1. stream'[i].id = first + (i - L) - 1 /\ stream'[j].id = first + (j - L) - 1
      BY <1>8, <2>3
    <3>2. i \in Nat /\ j \in Nat
      BY <1>6, <2>3
    <3> QED
      BY <1>1, <1>5, <3>1, <3>2
  <2> QED
    BY <2>1, <2>2, <2>3
<1>10. DOMAIN stream \subseteq DOMAIN stream'
  BY <1>4, <1>5
<1>11. Ids \subseteq Ids' /\ \A n \in Ids' \ Ids : n \in Nat /\ n >= first
  BY <1>4, <1>8, <1>10 DEF Ids
<1>12. \A i \in Ids : i \in Nat /\ i < first
  BY <1>7 DEF Ids
<1>13. \A n \in Ids' \ Ids, i \in Ids : i < n
  BY <1>1, <1>11, <1>12
<1>14. 0 \notin Ids => 0 \notin Ids'
  BY <1>1, <1>11, <1>16
<1>15. Streamed' = Streamed \union ToSet(e)
  <2>1. \A i \in DOMAIN e : L + i \in DOMAIN stream' /\ stream'[L + i].event = e[i]
    <3> SUFFICES ASSUME NEW i \in DOMAIN e
                 PROVE  L + i \in DOMAIN stream' /\ stream'[L + i].event = e[i]
      OBVIOUS
    <3>1. stream'[L + i] = u[i] /\ L + i \in DOMAIN stream'
      BY <1>2, <1>4
    <3>2. u[i].event = e[i]
      BY <1>2
    <3> QED
      BY <3>1, <3>2
  <2>2. ToSet(e) \subseteq Streamed'
    BY <2>1 DEF ToSet, Streamed
  <2>3. Streamed \subseteq Streamed'
    BY <1>4, <1>10 DEF Streamed
  <2>4. Streamed' \subseteq Streamed \union ToSet(e)
    <3> SUFFICES ASSUME NEW k \in DOMAIN stream'
                 PROVE  stream'[k].event \in Streamed \union ToSet(e)
      BY DEF Streamed
    <3>1. CASE k \in DOMAIN stream
      BY <1>4, <3>1 DEF Streamed
    <3>2. CASE k \notin DOMAIN stream
      BY <1>6, <1>8, <3>2 DEF ToSet
    <3> QED
      BY <3>1, <3>2
  <2> QED
    BY <2>2, <2>3, <2>4
<1> QED
  BY <1>4, <1>6, <1>8, <1>9, <1>11, <1>13, <1>14, <1>15 DEF e, L

LEMMA ReadersStart ==
  ASSUME EventsInit
  PROVE  ReadersInv
BY DEF EventsInit, ReadersInv, ChunkIsNext, ReadersMissNothing, Ids

LEMMA ReadersSenders ==
  ASSUME ReadersInv, UNCHANGED readers,
         Increasing', Ids \subseteq Ids', 0 \notin Ids', \A n \in Ids' \ Ids, i \in Ids : i < n,
         stream' \in Seq(Entry)
  PROVE  ReadersInv'
<1>1. cursor' = cursor /\ archiver' = archiver /\ archived' = archived /\ follower' = follower
  BY DEF readers
<1>2. \A n \in Ids' : n \in Nat
  <2>1. \A i \in DOMAIN stream' : stream'[i] \in Entry
    OBVIOUS
  <2> QED
    BY <2>1 DEF Ids, Entry
<1>3. \A n \in Ids' \ Ids, m \in Ids \union {0} : n \in Nat /\ m \in Nat /\ m < n
  BY <1>2
<1>4. ChunkIsNext'
  <2>1. \A i \in archiver.chunk, j \in Ids' : cursor < j /\ j < i => j \in archiver.chunk
    <3> SUFFICES ASSUME NEW i \in archiver.chunk, NEW j \in Ids', cursor < j, j < i
                 PROVE  j \in archiver.chunk
      OBVIOUS
    <3>1. i \in Ids
      BY DEF ReadersInv, ChunkIsNext
    <3>2. j \in Ids
      BY <1>3, <3>1
    <3> QED
      BY <3>1, <3>2 DEF ReadersInv, ChunkIsNext
  <2> QED
    BY <1>1, <2>1 DEF ReadersInv, ChunkIsNext
<1>5. ReadersMissNothing'
  <2>1. \A m \in Ids \union {0} : {i \in Ids' : i <= m} \subseteq {i \in Ids : i <= m}
    BY <1>3
  <2>2. cursor \in Ids \union {0} /\ follower.last \in Ids \union {0}
    BY DEF ReadersInv
  <2> QED
    BY <1>1, <2>1, <2>2 DEF ReadersInv, ReadersMissNothing
<1>6. Increasing' => (\A i, j \in DOMAIN stream : i < j => stream[i].id < stream[j].id)'
  BY DEF Increasing
<1> QED
  BY <1>1, <1>4, <1>5, <1>6 DEF ReadersInv

LEMMA PageIsNext ==
  ASSUME stream \in Seq(Entry), Increasing, NEW n \in Nat
  PROVE  \A i \in Page(n, ChunkEvents), j \in IdsAfter(n) : j < i => j \in Page(n, ChunkEvents)
<1> SUFFICES ASSUME NEW i \in Page(n, ChunkEvents), NEW j \in IdsAfter(n), j < i
             PROVE  j \in Page(n, ChunkEvents)
  OBVIOUS
<1>1. PICK b \in Nat : Ids \subseteq 0 .. b
  BY IdsAreBounded
<1> DEFINE before(k) == {l \in IdsAfter(n) : l < k}
<1>2. IdsAfter(n) \subseteq Ids
  BY DEF IdsAfter, Ids
<1>3. i \in Nat /\ j \in Nat /\ \A l \in IdsAfter(n) : l \in Nat
  <2>1. i \in IdsAfter(n)
    BY DEF Page
  <2>2. \A l \in Ids : l \in Nat
    BY <1>1
  <2> HIDE DEF before
  <2>3. \A l \in IdsAfter(n) : l \in Nat
    BY <1>2, <2>2
  <2> QED
    BY <2>1, <2>3
<1>4. before(j) \subseteq before(i)
  <2> SUFFICES ASSUME NEW l \in IdsAfter(n), l < j PROVE l < i
    OBVIOUS
  <2> QED
    BY <1>3
<1>5. IsFiniteSet(before(i))
  <2>1. IsFiniteSet(0 .. b)
    BY FS_Interval
  <2>2. before(i) \subseteq 0 .. b
    BY <1>1, <1>2
  <2> HIDE DEF before
  <2> QED
    BY <2>1, <2>2, FS_Subset
<1>6. Cardinality(before(j)) <= Cardinality(before(i))
  <2> HIDE DEF before
  <2> QED
    BY <1>4, <1>5, FS_Subset
<1>7. Cardinality(before(i)) \in Nat /\ Cardinality(before(j)) \in Nat
  <2> HIDE DEF before
  <2> QED
    BY <1>4, <1>5, FS_Subset, FS_CardinalityType
<1>8. Cardinality(before(i)) < ChunkEvents /\ ChunkEvents \in Nat
  BY EventsAssumption DEF Page
<1>9. Cardinality(before(j)) < ChunkEvents
  <2> HIDE DEF before
  <2> QED
    BY <1>6, <1>7, <1>8
<1> QED
  BY <1>9 DEF Page

LEMMA ReadersStep ==
  ASSUME ReadersInv, stream \in Seq(Entry), UNCHANGED stream,
         ReadChunk \/ AddArtifact \/ UpdateArchiveCursor \/ ArchiverDies \/ StreamEvents
  PROVE  ReadersInv'
<1> USE DEF ReadersInv
<1>1. Increasing
  BY DEF Increasing
<1>2. Ids' = Ids
  BY DEF Ids
<1>3. PICK b \in Nat : Ids \subseteq 0 .. b
  BY <1>1, IdsAreBounded
<1>4. cursor \in Nat /\ follower.last \in Nat /\ \A i \in Ids : i \in Nat /\ i <= b
  BY <1>3
<1>5. \A m \in Nat : IdsAfter(m) = {i \in Ids : i > m}
  <2>1. \A m : IdsAfter(m) = Ids \ (0 .. m)
    BY DEF IdsAfter, Ids
  <2>2. \A m \in Nat, i \in Ids : i \notin 0 .. m <=> i > m
    BY <1>4
  <2> QED
    BY <2>1, <2>2
<1>6. CASE ReadChunk
  <2> DEFINE P == Page(cursor, ChunkEvents)
  <2>1. archiver' = [pc |-> "put", chunk |-> P] /\ P # {} /\ UNCHANGED <<cursor, archived, follower>>
    BY <1>6 DEF ReadChunk
  <2>2. P \subseteq Ids /\ \A i \in P : i > cursor
    BY <1>4, <1>5 DEF Page
  <2>3. \A i \in P, j \in Ids : cursor < j /\ j < i => j \in P
    BY <1>1, <1>4, <1>5, PageIsNext
  <2>4. P \in SUBSET Nat
    BY <1>4, <2>2
  <2> HIDE DEF P
  <2>5. ChunkIsNext'
    BY <1>2, <2>1, <2>2, <2>3 DEF ChunkIsNext
  <2> QED
    BY <1>2, <2>1, <2>4, <2>5 DEF ReadersMissNothing
<1>7. CASE AddArtifact
  <2>1. archiver.pc = "put" /\ archiver' = [archiver EXCEPT !.pc = "advance"]
        /\ archived' = archived \union archiver.chunk /\ UNCHANGED <<cursor, follower>>
    BY <1>7 DEF AddArtifact
  <2>2. archiver'.chunk = archiver.chunk /\ archiver'.pc = "advance"
        /\ archiver' \in [pc : {"idle", "put", "advance"}, chunk : SUBSET Nat]
    BY <2>1
  <2>3. ChunkIsNext'
    BY <1>2, <2>1, <2>2 DEF ChunkIsNext
  <2> QED
    BY <1>2, <2>1, <2>2, <2>3 DEF ReadersMissNothing
<1>8. CASE UpdateArchiveCursor
  <2> DEFINE g == Greatest(archiver.chunk)
  <2>1. archiver.pc = "advance" /\ archiver' = [pc |-> "idle", chunk |-> {}]
        /\ cursor' = g /\ UNCHANGED <<archived, follower>>
    BY <1>8 DEF UpdateArchiveCursor
  <2>2. archiver.chunk \subseteq Nat /\ archiver.chunk # {} /\ \A n \in archiver.chunk : n <= b
    BY <1>4, <2>1 DEF ChunkIsNext
  <2>3. g \in archiver.chunk /\ \A n \in archiver.chunk : n <= g
    BY <2>2, GreatestOf
  <2> HIDE DEF g
  <2>4. g \in Ids
    BY <2>3 DEF ChunkIsNext
  <2>5. {i \in Ids : i <= g} \subseteq archived
    <3> SUFFICES ASSUME NEW i \in Ids, i <= g PROVE i \in archived
      OBVIOUS
    <3>1. CASE i <= cursor
      BY <3>1 DEF ReadersMissNothing
    <3>2. CASE i > cursor
      BY <1>4, <2>1, <2>3, <2>4, <3>2 DEF ChunkIsNext
    <3> QED
      BY <1>4, <3>1, <3>2
  <2> QED
    BY <1>2, <2>1, <2>4, <2>5 DEF ReadersMissNothing, ChunkIsNext
<1>9. CASE ArchiverDies
  <2>1. archiver' = [pc |-> "idle", chunk |-> {}] /\ UNCHANGED <<cursor, archived, follower>>
    BY <1>9 DEF ArchiverDies
  <2> QED
    BY <1>2, <2>1 DEF ReadersMissNothing, ChunkIsNext
<1>10. CASE StreamEvents
  <2> DEFINE n == IdsAfter(follower.last)
             g == Greatest(n)
  <2>1. n # {} /\ follower' = [last |-> g, seen |-> follower.seen \union n]
        /\ UNCHANGED <<cursor, archiver, archived>>
    BY <1>10 DEF StreamEvents
  <2>2. n = {i \in Ids : i > follower.last}
    BY <1>4, <1>5
  <2> HIDE DEF n
  <2>3. g \in n /\ \A i \in n : i <= g
    <3>1. n \subseteq Nat /\ \A i \in n : i <= b
      BY <1>4, <2>2
    <3> QED
      BY <2>1, <3>1, GreatestOf
  <2> HIDE DEF g
  <2>4. g \in Ids
    BY <2>2, <2>3
  <2>5. {i \in Ids : i <= g} \subseteq follower.seen \union n
    <3> SUFFICES ASSUME NEW i \in Ids, i <= g PROVE i \in follower.seen \union n
      OBVIOUS
    <3>1. CASE i <= follower.last
      BY <3>1 DEF ReadersMissNothing
    <3>2. CASE i > follower.last
      BY <2>2, <3>2
    <3> QED
      BY <1>4, <3>1, <3>2
  <2>6. ChunkIsNext'
    BY <1>2, <2>1 DEF ChunkIsNext
  <2> QED
    BY <1>2, <2>1, <2>4, <2>5, <2>6 DEF ReadersMissNothing
<1> QED
  BY <1>6, <1>7, <1>8, <1>9, <1>10
-----------------------------------------------------------------------------
(* The reporters. *)

LEMMA AppendOnce ==
  ASSUME NEW S, NEW t \in Seq(S), NEW x \in S, IsInjective(t), x \notin ToSet(t)
  PROVE  IsInjective(Append(t, x))
<1>1. DOMAIN Append(t, x) = 1 .. Len(t) + 1 /\ DOMAIN t = 1 .. Len(t) /\ Len(t) \in Nat
  OBVIOUS
<1>2. \A i \in 1 .. Len(t) : Append(t, x)[i] = t[i] /\ t[i] # x
  BY <1>1 DEF ToSet
<1>3. Append(t, x)[Len(t) + 1] = x
  OBVIOUS
<1>4. \A i \in 1 .. Len(t) + 1 : i \in 1 .. Len(t) \/ i = Len(t) + 1
  BY <1>1
<1> QED
  BY <1>1, <1>2, <1>3, <1>4 DEF IsInjective

LEMMA HeadAndTail ==
  ASSUME NEW S, NEW s \in Seq(S), s # << >>
  PROVE  /\ Head(s) \in S /\ Tail(s) \in Seq(S)
         /\ ToSet(s) = ToSet(Tail(s)) \union {Head(s)}
         /\ IsInjective(s) => IsInjective(Tail(s)) /\ Head(s) \notin ToSet(Tail(s))
<1>1. DOMAIN s = 1 .. Len(s) /\ Len(s) \in Nat \ {0} /\ Head(s) = s[1]
  OBVIOUS
<1>2. DOMAIN Tail(s) = 1 .. Len(s) - 1 /\ \A i \in 1 .. Len(s) - 1 : Tail(s)[i] = s[i + 1]
  OBVIOUS
<1>3. Head(s) \in S /\ Tail(s) \in Seq(S)
  OBVIOUS
<1>4. \A i \in 1 .. Len(s) : i = 1 \/ i - 1 \in 1 .. Len(s) - 1
  BY <1>1
<1>5. ToSet(s) \subseteq ToSet(Tail(s)) \union {Head(s)}
  <2> SUFFICES ASSUME NEW i \in 1 .. Len(s), i # 1 PROVE s[i] \in ToSet(Tail(s))
    BY <1>1 DEF ToSet
  <2>1. i - 1 \in 1 .. Len(s) - 1 /\ (i - 1) + 1 = i
    BY <1>4
  <2>2. Tail(s)[i - 1] = s[i]
    BY <1>2, <2>1
  <2> QED
    BY <1>2, <2>1, <2>2 DEF ToSet
<1>6. \A i \in 1 .. Len(s) - 1 : i + 1 \in 1 .. Len(s) /\ i + 1 # 1
  BY <1>1
<1>7. ToSet(Tail(s)) \subseteq ToSet(s) /\ Head(s) \in ToSet(s)
  BY <1>1, <1>2, <1>6 DEF ToSet
<1>8. ASSUME IsInjective(s) PROVE IsInjective(Tail(s)) /\ Head(s) \notin ToSet(Tail(s))
  <2>1. \A i, j \in 1 .. Len(s) - 1 : i + 1 = j + 1 => i = j
    OBVIOUS
  <2> QED
    BY <1>1, <1>2, <1>6, <1>8, <2>1 DEF IsInjective, ToSet
<1> QED
  BY <1>3, <1>5, <1>7, <1>8

LEMMA FlatIs == \A rows : Flat(rows) = UNION {ToSet(s) : s \in ToSet(rows)}
BY DEF Flat, ToSet

LEMMA EmptyLists ==
  ToSet(<< >>) = {} /\ Flat(<< >>) = {} /\ IsInjective(<< >>)
BY DEF ToSet, Flat, IsInjective

LEMMA EmptyIsList == << >> \in Lists /\ << >> \in Logs
BY DEF Lists, Logs

LEMMA OneEvent ==
  ASSUME NEW e \in Events
  PROVE  <<e>> \in Lists /\ ToSet(<<e>>) = {e} /\ IsInjective(<<e>>)
BY DEF Lists, ToSet, IsInjective

LEMMA AppendEvent ==
  ASSUME NEW t \in Lists, NEW e \in Events
  PROVE  /\ Append(t, e) \in Lists
         /\ ToSet(Append(t, e)) = ToSet(t) \union {e}
         /\ IsInjective(t) /\ e \notin ToSet(t) => IsInjective(Append(t, e))
<1>1. t \in Seq(Events)
  BY DEF Lists
<1>2. Append(t, e) \in Seq(Events)
  BY <1>1
<1> QED
  BY <1>1, <1>2, AppendSet, AppendOnce DEF Lists

LEMMA AppendList ==
  ASSUME NEW log \in Logs, NEW s \in Lists
  PROVE  /\ Append(log, s) \in Logs
         /\ ToSet(Append(log, s)) = ToSet(log) \union {s}
         /\ Flat(Append(log, s)) = Flat(log) \union ToSet(s)
<1>1. log \in Seq(Lists)
  BY DEF Logs
<1>2. Append(log, s) \in Seq(Lists)
  BY <1>1
<1>3. ToSet(Append(log, s)) = ToSet(log) \union {s}
  BY <1>1, AppendSet
<1> QED
  BY <1>2, <1>3, FlatIs DEF Logs

LEMMA FirstEvent ==
  ASSUME NEW t \in Lists, t # << >>
  PROVE  /\ Head(t) \in Events /\ Tail(t) \in Lists
         /\ ToSet(t) = ToSet(Tail(t)) \union {Head(t)}
         /\ IsInjective(t) => IsInjective(Tail(t)) /\ Head(t) \notin ToSet(Tail(t))
<1>1. t \in Seq(Events)
  BY DEF Lists
<1> QED
  BY <1>1, HeadAndTail DEF Lists

LEMMA FirstList ==
  ASSUME NEW log \in Logs, log # << >>
  PROVE  /\ Head(log) \in Lists /\ Tail(log) \in Logs
         /\ ToSet(log) = ToSet(Tail(log)) \union {Head(log)}
         /\ Flat(log) = Flat(Tail(log)) \union ToSet(Head(log))
<1>1. log \in Seq(Lists)
  BY DEF Logs
<1>2. Head(log) \in Lists /\ Tail(log) \in Seq(Lists) /\ ToSet(log) = ToSet(Tail(log)) \union {Head(log)}
  BY <1>1, HeadAndTail
<1> QED
  BY <1>2, FlatIs DEF Logs

\* A step of one reporter, which may take a request that is free or let one go
\* that has ended.
LEMMA ReporterStep ==
  ASSUME SenderInv, NEW r \in Ranks, NEW row \in ReporterRow, NEW log \in Logs,
         reporter' = [reporter EXCEPT ![r] = row], wal' = [wal EXCEPT ![r] = log],
         UNCHANGED <<durable, known, eventSequence, stream, refused>>, gone \subseteq gone',
         request' \in [Requests -> RequestRow],
         \A q \in Requests : request'[q] = request[q] \/
           /\ request[q].pc \in {"free", "done", "failed"}
           /\ request'[q].pc \in {"free", "allocate"}
           /\ request'[q].pc = "allocate" => IsInjective(request'[q].events)
           /\ \A s \in Ranks \ {r} : reporter[s].on # q,
         HoldsOnce(row, log, r), Replays(row, log, known),
         Numbered(row, r) \intersect durable \subseteq HeldBy(row, log) \union known \union gone',
         Waits(row, request', known),
         row.on # NoSlot => \A s \in Ranks \ {r} : reporter[s].on # row.on
  PROVE  SenderInv'
<1> USE DEF SenderInv
<1>1. /\ reporter'[r] = row /\ wal'[r] = log
      /\ \A s \in Ranks \ {r} : reporter'[s] = reporter[s] /\ wal'[s] = wal[s]
  BY DEF SenderTypes
<1>2. SenderTypes'
  BY DEF SenderTypes
<1>3. ReporterInv(r)'
  BY <1>1 DEF ReporterInv, HoldsOnce, Holds, Numbered, Replays, KeepsDurable, HeldBy, Waits
<1>4. \A s \in Ranks \ {r} : ReporterInv(s)'
  <2> SUFFICES ASSUME NEW s \in Ranks \ {r} PROVE ReporterInv(s)'
    OBVIOUS
  <2>1. ReporterInv(s)
    OBVIOUS
  <2>2. reporter[s].on # NoSlot => request'[reporter[s].on] = request[reporter[s].on]
    <3>1. reporter[s].on \in Requests \union {NoSlot}
      BY DEF SenderTypes, ReporterRow
    <3> QED
      BY <3>1
  <2> QED
    BY <1>1, <2>1, <2>2 DEF ReporterInv, HoldsOnce, Holds, Numbered, Replays, KeepsDurable, HeldBy, Waits
<1>5. WaitDiffer'
  BY <1>1 DEF WaitDiffer
<1>6. Appending' = Appending /\ \A q \in Appending : request'[q] = request[q]
  BY DEF Appending
<1>7. OnTheWay' = OnTheWay /\ Streamed' = Streamed
  <2>1. Streamed' = Streamed
    BY DEF Streamed
  <2>2. OnTheWay' = UNION {ToSet(request'[q].events) : q \in Appending'}
    BY DEF OnTheWay
  <2>3. OnTheWay = UNION {ToSet(request[q].events) : q \in Appending}
    BY DEF OnTheWay
  <2> HIDE DEF SenderInv
  <2>4. OnTheWay' \subseteq OnTheWay
    BY <1>6, <2>2, <2>3
  <2>5. OnTheWay \subseteq OnTheWay'
    BY <1>6, <2>2, <2>3
  <2> QED
    BY <2>1, <2>4, <2>5
<1>8. RequestInv'
  <2>1. \A q \in Requests : request'[q].pc \in {"allocate", "append"} => IsInjective(request'[q].events)
    BY DEF RequestInv
  <2>2. RequestInv
    OBVIOUS
  <2> HIDE DEF SenderInv
  <2>3. \A q \in Appending' :
          ToSet(request'[q].events) \subseteq known' \ Streamed' /\ request'[q].first > 0
    BY <1>6, <1>7, <2>2 DEF RequestInv
  <2>4. \A p, q \in Appending' :
          p # q => ToSet(request'[p].events) \intersect ToSet(request'[q].events) = {}
    BY <1>6, <2>2 DEF RequestInv
  <2> QED
    BY <2>1, <2>3, <2>4 DEF RequestInv
<1>9. StreamInv'
  BY <1>7 DEF StreamInv
<1> QED
  BY <1>2, <1>3, <1>4, <1>5, <1>8, <1>9

\* The same where no request is concerned.
LEMMA ReporterAlone ==
  ASSUME SenderInv, NEW r \in Ranks, NEW row \in ReporterRow, NEW log \in Logs,
         reporter' = [reporter EXCEPT ![r] = row], wal' = [wal EXCEPT ![r] = log],
         UNCHANGED <<durable, request, busVars, refused, gone>>,
         row.on = reporter[r].on, row.sending = reporter[r].sending \/ row.on = NoSlot,
         HoldsOnce(row, log, r), Replays(row, log, known), KeepsDurable(row, log, r)
  PROVE  SenderInv'
<1>1. ReporterInv(r) /\ WaitDiffer /\ request \in [Requests -> RequestRow]
  BY DEF SenderInv, SenderTypes
<1>2. Waits(row, request', known)
  BY <1>1 DEF ReporterInv, Waits
<1>3. row.on # NoSlot => \A s \in Ranks \ {r} : reporter[s].on # row.on
  BY <1>1 DEF WaitDiffer
<1> QED
  BY <1>1, <1>2, <1>3, ReporterStep DEF KeepsDurable, busVars

LEMMA RowFacts ==
  ASSUME SenderInv, NEW r \in Ranks
  PROVE  LET me == reporter[r] IN
         /\ reporter[r] \in ReporterRow /\ wal[r] \in Logs /\ ReporterInv(r)
         /\ me.emitted \in Nat /\ me.pending \in Lists /\ me.latest \in SUBSET Events
         /\ me.batch \in Lists /\ me.sending \in Lists /\ me.on \in Requests \union {NoSlot}
         /\ me.rows \in Logs /\ me.retained \in Logs
         /\ me.pc \in ReporterLabel
         /\ HoldsOnce(reporter[r], wal[r], r) /\ Replays(reporter[r], wal[r], known)
         /\ KeepsDurable(reporter[r], wal[r], r) /\ Waits(reporter[r], request, known)
         /\ durable \in SUBSET Events
BY DEF SenderInv, SenderTypes, ReporterRow, ReporterInv

LEMMA EmitStep ==
  ASSUME SenderInv, NEW r \in Ranks, Emit(r)
  PROVE  SenderInv'
<1> DEFINE me == reporter[r]
           e == <<r, me.emitted + 1>>
           full == Len(me.pending) >= QueueCapacity
           row == [me EXCEPT !.emitted = @ + 1,
                     !.pending = IF full THEN @ ELSE Append(@, e),
                     !.latest = IF full /\ e \notin durable THEN {e} ELSE @]
           log == IF full /\ e \in durable THEN Append(wal[r], <<e>>) ELSE wal[r]
<1>0. /\ me \in ReporterRow /\ wal[r] \in Logs
      /\ me.emitted \in Nat /\ me.pending \in Lists /\ me.latest \in SUBSET Events
      /\ HoldsOnce(me, wal[r], r) /\ Replays(me, wal[r], known) /\ KeepsDurable(me, wal[r], r)
  BY RowFacts
<1>1. e \in Events /\ <<e>> \in Lists
  <2>1. e \in Events
    BY <1>0 DEF Events
  <2> HIDE DEF e
  <2> QED
    BY <2>1, OneEvent
<1>2. reporter' = [reporter EXCEPT ![r] = row] /\ wal' = [wal EXCEPT ![r] = log]
  BY DEF Emit, SenderInv, SenderTypes
<1>3. /\ Append(me.pending, e) \in Lists
      /\ ToSet(Append(me.pending, e)) = ToSet(me.pending) \union {e}
      /\ IsInjective(me.pending) /\ e \notin ToSet(me.pending) => IsInjective(Append(me.pending, e))
  <2> HIDE DEF e, me
  <2> QED
    BY <1>0, <1>1, AppendEvent
<1>4. e \notin Numbered(me, r) /\ Numbered(row, r) = Numbered(me, r) \union {e}
  BY <1>0 DEF Numbered, ReporterRow
<1>5. IsInjective(Append(me.pending, e))
  <2>1. e \notin ToSet(me.pending) /\ IsInjective(me.pending)
    BY <1>0, <1>4 DEF HoldsOnce, Holds
  <2> QED
    BY <1>3, <2>1
<1>7. ToSet(<<e>>) = {e} /\ IsInjective(<<e>>)
  <2> HIDE DEF e
  <2> QED
    BY <1>1, OneEvent
<1>6. /\ log \in Logs
      /\ ToSet(log) = (IF full /\ e \in durable THEN ToSet(wal[r]) \union {<<e>>} ELSE ToSet(wal[r]))
      /\ Flat(log) = (IF full /\ e \in durable THEN Flat(wal[r]) \union {e} ELSE Flat(wal[r]))
  <2> HIDE DEF e, full
  <2>1. /\ Append(wal[r], <<e>>) \in Logs
        /\ ToSet(Append(wal[r], <<e>>)) = ToSet(wal[r]) \union {<<e>>}
        /\ Flat(Append(wal[r], <<e>>)) = Flat(wal[r]) \union {e}
    BY <1>0, <1>1, <1>7, AppendList
  <2> QED
    BY <1>0, <2>1
<1>10. row \in ReporterRow
  <2> DEFINE emitted == me.emitted + 1
             pending == IF full THEN me.pending ELSE Append(me.pending, e)
             latest == IF full /\ e \notin durable THEN {e} ELSE me.latest
  <2>1. emitted \in Nat /\ pending \in Lists /\ latest \in SUBSET Events
    BY <1>0, <1>1, <1>3
  <2>2. row = [me EXCEPT !.emitted = emitted, !.pending = pending, !.latest = latest]
    OBVIOUS
  <2> HIDE DEF emitted, pending, latest, row, me
  <2> QED
    BY <1>0, <2>1, <2>2 DEF ReporterRow
<1>11. /\ row.pending = (IF full THEN me.pending ELSE Append(me.pending, e))
       /\ row.latest = (IF full /\ e \notin durable THEN {e} ELSE me.latest)
       /\ row.pc = me.pc /\ row.batch = me.batch /\ row.sending = me.sending /\ row.on = me.on
       /\ row.rows = me.rows /\ row.retained = me.retained
  BY <1>0 DEF ReporterRow
<1>12. UNCHANGED <<durable, request, busVars, refused, gone>>
       /\ (full /\ e \in durable => me.pc \notin {"replay", "replaying"})
  BY DEF Emit
<1> HIDE DEF row, log, e, full, me
<1>13. \A s : Holds(me, r, s) => Holds(row, r, s)
  BY <1>4 DEF Holds
<1>14. HoldsOnce(row, log, r)
  <2>1. Holds(row, r, row.pending)
    BY <1>0, <1>3, <1>4, <1>5, <1>11, <1>13 DEF HoldsOnce, Holds
  <2>2. Holds(row, r, row.batch) /\ Holds(row, r, row.sending)
    BY <1>0, <1>11, <1>13 DEF HoldsOnce
  <2>3. row.latest \subseteq Numbered(row, r) \ durable
    BY <1>0, <1>4, <1>11 DEF HoldsOnce
  <2>4. e \notin ToSet(me.batch) /\ e \notin ToSet(me.pending) /\ e \notin me.latest
    BY <1>0, <1>4 DEF HoldsOnce, Holds
  <2>5. ToSet(row.pending) \intersect ToSet(row.batch) = {}
    BY <1>0, <1>3, <1>11, <2>4 DEF HoldsOnce
  <2>6. row.latest \intersect (ToSet(row.pending) \union ToSet(row.batch)) = {}
    BY <1>0, <1>3, <1>11, <2>4 DEF HoldsOnce
  <2>7. Holds(row, r, <<e>>)
    BY <1>4, <1>7 DEF Holds
  <2>8. \A s \in ToSet(log) \union ToSet(row.rows) \union ToSet(row.retained) : Holds(row, r, s)
    BY <1>0, <1>6, <1>11, <1>13, <2>7 DEF HoldsOnce
  <2> QED
    BY <2>1, <2>2, <2>3, <2>5, <2>6, <2>8 DEF HoldsOnce
<1>15. Replays(row, log, known)
  BY <1>0, <1>6, <1>11, <1>12 DEF Replays
<1>16. KeepsDurable(row, log, r)
  <2>1. me.latest \intersect durable = {}
    BY <1>0 DEF HoldsOnce
  <2>2. HeldBy(me, wal[r]) \intersect durable \subseteq HeldBy(row, log)
    BY <1>3, <1>6, <1>11, <2>1 DEF HeldBy
  <2>3. e \in durable => e \in HeldBy(row, log)
    BY <1>3, <1>6, <1>11 DEF HeldBy
  <2> QED
    BY <1>0, <1>4, <2>2, <2>3 DEF KeepsDurable
<1> QED
  BY <1>2, <1>6, <1>10, <1>11, <1>12, <1>14, <1>15, <1>16, ReporterAlone DEF me

LEMMA WalSteps ==
  ASSUME SenderInv, NEW r \in Ranks, ReadWal(r) \/ ReplaceWal(r) \/ WriteWal(r) \/ WorkerRestarts(r)
  PROVE  SenderInv'
<1> DEFINE me == reporter[r]
<1>0. /\ me \in ReporterRow /\ wal[r] \in Logs /\ me.sending \in Lists
      /\ me.retained \in Logs
      /\ HoldsOnce(me, wal[r], r) /\ Replays(me, wal[r], known) /\ KeepsDurable(me, wal[r], r)
  BY RowFacts
<1>1. CASE ReadWal(r)
  <2> DEFINE row == [me EXCEPT !.pc = IF wal[r] = << >> THEN "run" ELSE "replay",
                               !.rows = wal[r], !.retained = << >>]
  <2>1. me.pc = "start" /\ UNCHANGED <<durable, wal, request, busVars, refused, gone>>
    BY <1>1 DEF ReadWal, Loop
  <2>2. reporter' = [reporter EXCEPT ![r] = row] /\ wal' = [wal EXCEPT ![r] = wal[r]]
    BY <1>1 DEF ReadWal, SenderInv, SenderTypes
  <2>3. row \in ReporterRow
    BY <1>0, EmptyIsList DEF ReporterRow, ReporterLabel
  <2>4. /\ row.pc = (IF wal[r] = << >> THEN "run" ELSE "replay")
        /\ row.rows = wal[r] /\ row.retained = << >>
        /\ row.emitted = me.emitted /\ row.latest = me.latest
        /\ row.pending = me.pending /\ row.batch = me.batch /\ row.sending = me.sending /\ row.on = me.on
    BY <1>0 DEF ReporterRow
  <2> HIDE DEF row, me
  <2>5. \A s : Holds(me, r, s) => Holds(row, r, s)
    BY <2>4 DEF Holds, Numbered
  <2>6. HoldsOnce(row, wal[r], r)
    BY <1>0, <2>4, <2>5, EmptyLists DEF HoldsOnce, Numbered
  <2>7. Replays(row, wal[r], known)
    BY <1>0, <2>1, <2>4, EmptyLists DEF Replays
  <2>8. KeepsDurable(row, wal[r], r)
    BY <1>0, <2>4 DEF KeepsDurable, HeldBy, Numbered
  <2> QED
    BY <1>0, <2>1, <2>2, <2>3, <2>4, <2>6, <2>7, <2>8, ReporterAlone DEF me
<1>2. CASE ReplaceWal(r)
  <2> DEFINE row == [me EXCEPT !.pc = "run", !.retained = << >>]
  <2>1. me.pc = "replay" /\ me.rows = << >> /\ UNCHANGED <<durable, request, busVars, refused, gone>>
    BY <1>2 DEF ReplaceWal, Loop
  <2>2. reporter' = [reporter EXCEPT ![r] = row] /\ wal' = [wal EXCEPT ![r] = me.retained]
    BY <1>2 DEF ReplaceWal, SenderInv, SenderTypes
  <2>3. row \in ReporterRow
    BY <1>0, EmptyIsList DEF ReporterRow, ReporterLabel
  <2>4. /\ row.pc = "run" /\ row.rows = me.rows /\ row.retained = << >>
        /\ row.emitted = me.emitted /\ row.latest = me.latest
        /\ row.pending = me.pending /\ row.batch = me.batch /\ row.sending = me.sending /\ row.on = me.on
    BY <1>0 DEF ReporterRow
  <2> HIDE DEF row, me
  <2>5. \A s : Holds(me, r, s) => Holds(row, r, s)
    BY <2>4 DEF Holds, Numbered
  <2>6. HoldsOnce(row, me.retained, r)
    BY <1>0, <2>4, <2>5, EmptyLists DEF HoldsOnce, Numbered
  <2>7. Replays(row, me.retained, known)
    BY <1>0, <2>1, <2>4 DEF Replays
  <2>8. Flat(wal[r]) \subseteq Flat(me.retained) \union known
    BY <1>0, <2>1, EmptyLists DEF Replays
  <2>9. KeepsDurable(row, me.retained, r)
    BY <1>0, <2>4, <2>8 DEF KeepsDurable, HeldBy, Numbered
  <2> QED
    BY <1>0, <2>1, <2>2, <2>3, <2>4, <2>6, <2>7, <2>9, ReporterAlone DEF me
<1>3. CASE WriteWal(r)
  <2> DEFINE row == [me EXCEPT !.pc = "run", !.sending = << >>]
             log == Append(wal[r], me.sending)
  <2>1. me.pc = "log" /\ UNCHANGED <<durable, request, busVars, refused, gone>>
    BY <1>3 DEF WriteWal, Loop
  <2>2. reporter' = [reporter EXCEPT ![r] = row] /\ wal' = [wal EXCEPT ![r] = log]
    BY <1>3 DEF WriteWal, SenderInv, SenderTypes
  <2>3. row \in ReporterRow
    BY <1>0, EmptyIsList DEF ReporterRow, ReporterLabel
  <2>4. /\ row.pc = "run" /\ row.rows = me.rows /\ row.retained = me.retained
        /\ row.emitted = me.emitted /\ row.latest = me.latest
        /\ row.pending = me.pending /\ row.batch = me.batch /\ row.sending = << >> /\ row.on = me.on
    BY <1>0 DEF ReporterRow
  <2>5. /\ log \in Logs
        /\ ToSet(log) = ToSet(wal[r]) \union {me.sending}
        /\ Flat(log) = Flat(wal[r]) \union ToSet(me.sending)
    BY <1>0, AppendList
  <2>7. me.on = NoSlot
    BY <1>0, <2>1 DEF Replays
  <2> HIDE DEF row, log, me
  <2>8. \A s : Holds(me, r, s) => Holds(row, r, s)
    BY <2>4 DEF Holds, Numbered
  <2>9. HoldsOnce(row, log, r)
    <3>1. Holds(row, r, << >>)
      BY EmptyLists DEF Holds
    <3> QED
      BY <1>0, <2>4, <2>5, <2>8, <3>1 DEF HoldsOnce, Numbered
  <2>10. Replays(row, log, known)
    BY <2>4, <2>7 DEF Replays
  <2>11. KeepsDurable(row, log, r)
    BY <1>0, <2>4, <2>5 DEF KeepsDurable, HeldBy, Numbered
  <2> QED
    BY <1>0, <2>1, <2>2, <2>3, <2>4, <2>5, <2>7, <2>9, <2>10, <2>11, ReporterAlone DEF me
<1>4. CASE WorkerRestarts(r)
  <2> DEFINE row == [me EXCEPT !.pc = "start"]
  <2>1. me.pc = "down" /\ UNCHANGED <<durable, wal, request, busVars, refused, gone>>
    BY <1>4 DEF WorkerRestarts, Loop
  <2>2. reporter' = [reporter EXCEPT ![r] = row] /\ wal' = [wal EXCEPT ![r] = wal[r]]
    BY <1>4 DEF WorkerRestarts, SenderInv, SenderTypes
  <2>3. row \in ReporterRow
    BY <1>0, EmptyIsList DEF ReporterRow, ReporterLabel
  <2>4. /\ row.pc = "start" /\ row.rows = me.rows /\ row.retained = me.retained
        /\ row.emitted = me.emitted /\ row.latest = me.latest
        /\ row.pending = me.pending /\ row.batch = me.batch /\ row.sending = me.sending /\ row.on = me.on
    BY <1>0 DEF ReporterRow
  <2> HIDE DEF row, me
  <2>5. HoldsOnce(row, wal[r], r) /\ KeepsDurable(row, wal[r], r)
    BY <1>0, <2>4 DEF HoldsOnce, Holds, KeepsDurable, HeldBy, Numbered
  <2>6. Replays(row, wal[r], known)
    BY <1>0, <2>1, <2>4 DEF Replays
  <2> QED
    BY <1>0, <2>1, <2>2, <2>3, <2>4, <2>5, <2>6, ReporterAlone DEF me
<1> QED
  BY <1>1, <1>2, <1>3, <1>4

\* An event goes to the batch from the queue or from the kinds of which the
\* latest is kept.
LEMMA TakeOne ==
  ASSUME SenderInv, NEW r \in Ranks, reporter[r].pc = "run",
         NEW e \in Events, NEW pending \in Lists, NEW latest \in SUBSET Events,
         reporter' = [reporter EXCEPT ![r] =
           [reporter[r] EXCEPT !.pending = pending, !.latest = latest, !.batch = Append(reporter[r].batch, e)]],
         UNCHANGED <<durable, wal, request, busVars, refused, gone>>,
         (ToSet(reporter[r].pending) \union reporter[r].latest) \intersect durable
           \subseteq ToSet(pending) \union {e},
         e \in ToSet(reporter[r].pending) \union reporter[r].latest,
         ToSet(pending) \subseteq ToSet(reporter[r].pending), latest \subseteq reporter[r].latest,
         e \notin ToSet(pending) \union latest, IsInjective(pending)
  PROVE  SenderInv'
<1> DEFINE me == reporter[r]
           batch == Append(me.batch, e)
           row == [me EXCEPT !.pending = pending, !.latest = latest, !.batch = batch]
<1>1. /\ me \in ReporterRow /\ wal[r] \in Logs
      /\ me.pending \in Lists /\ me.batch \in Lists /\ me.latest \in SUBSET Events
      /\ HoldsOnce(me, wal[r], r) /\ Replays(me, wal[r], known) /\ KeepsDurable(me, wal[r], r)
  BY RowFacts
<1>2. e \notin ToSet(me.batch) /\ e \in Numbered(me, r) /\ IsInjective(me.batch)
  BY <1>1 DEF HoldsOnce, Holds
<1>3. batch \in Lists /\ ToSet(batch) = ToSet(me.batch) \union {e} /\ IsInjective(batch)
  BY <1>1, <1>2, AppendEvent
<1>4. reporter' = [reporter EXCEPT ![r] = row] /\ wal' = [wal EXCEPT ![r] = wal[r]]
  BY DEF SenderInv, SenderTypes
<1> HIDE DEF batch
<1>5. row \in ReporterRow
  BY <1>1, <1>3 DEF ReporterRow
<1>6. /\ row.pc = "run" /\ row.rows = me.rows /\ row.retained = me.retained
      /\ row.emitted = me.emitted /\ row.latest = latest
      /\ row.pending = pending /\ row.batch = batch
      /\ row.sending = me.sending /\ row.on = me.on
  BY <1>1 DEF ReporterRow
<1>7. me.pc = "run" /\ (ToSet(me.pending) \union me.latest) \intersect durable \subseteq ToSet(pending) \union {e}
      /\ ToSet(pending) \subseteq ToSet(me.pending) /\ latest \subseteq me.latest
  OBVIOUS
<1> HIDE DEF row, me
<1>8. Numbered(row, r) = Numbered(me, r) /\ \A s : Holds(me, r, s) => Holds(row, r, s)
  BY <1>6 DEF Holds, Numbered
<1>9. HoldsOnce(row, wal[r], r)
  <2>1. Holds(row, r, row.pending) /\ Holds(row, r, row.batch) /\ Holds(row, r, row.sending)
    BY <1>1, <1>2, <1>3, <1>6, <1>7, <1>8 DEF HoldsOnce, Holds
  <2> QED
    BY <1>1, <1>3, <1>6, <1>7, <1>8, <2>1 DEF HoldsOnce
<1>10. Replays(row, wal[r], known)
  BY <1>1, <1>6, <1>7 DEF Replays
<1>11. KeepsDurable(row, wal[r], r)
  BY <1>1, <1>3, <1>6, <1>7, <1>8 DEF KeepsDurable, HeldBy
<1> QED
  BY <1>1, <1>4, <1>5, <1>6, <1>9, <1>10, <1>11, ReporterAlone DEF me

LEMMA TakeSteps ==
  ASSUME SenderInv, NEW r \in Ranks, Take(r) \/ TakeLatest(r)
  PROVE  SenderInv'
<1> DEFINE me == reporter[r]
<1>1. /\ me \in ReporterRow
      /\ me.pending \in Lists /\ me.batch \in Lists /\ me.latest \in SUBSET Events
      /\ HoldsOnce(me, wal[r], r)
  BY RowFacts
<1>2. CASE Take(r)
  <2>1. /\ me.pc = "run" /\ me.pending # << >>
        /\ UNCHANGED <<durable, wal, request, busVars, refused, gone>>
        /\ reporter' = [reporter EXCEPT ![r].pending = Tail(@), ![r].batch = Append(@, Head(me.pending))]
    BY <1>2 DEF Take, Loop
  <2>2. /\ Head(me.pending) \in Events /\ Tail(me.pending) \in Lists
        /\ ToSet(me.pending) = ToSet(Tail(me.pending)) \union {Head(me.pending)}
        /\ IsInjective(Tail(me.pending)) /\ Head(me.pending) \notin ToSet(Tail(me.pending))
    <3>1. IsInjective(me.pending)
      BY <1>1 DEF HoldsOnce, Holds
    <3> HIDE DEF me
    <3> QED
      BY <1>1, <2>1, <3>1, FirstEvent
  <2>3. reporter' = [reporter EXCEPT ![r] =
          [me EXCEPT !.pending = Tail(me.pending), !.latest = me.latest, !.batch = Append(me.batch, Head(me.pending))]]
    <3> DEFINE t == Tail(me.pending)
               b == Append(me.batch, Head(me.pending))
    <3>1. reporter' = [reporter EXCEPT ![r] = [me EXCEPT !.pending = t, !.batch = b]]
      BY <1>1, <2>1 DEF SenderInv, SenderTypes, ReporterRow
    <3> HIDE DEF t, b
    <3>2. [me EXCEPT !.pending = t, !.batch = b] = [me EXCEPT !.pending = t, !.latest = me.latest, !.batch = b]
      BY <1>1 DEF ReporterRow
    <3> QED
      BY <3>1, <3>2 DEF t, b
  <2>4. Head(me.pending) \notin me.latest /\ me.latest \intersect durable = {}
    BY <1>1, <2>2 DEF HoldsOnce
  <2> DEFINE e == Head(me.pending)
             t == Tail(me.pending)
  <2>5. /\ e \in ToSet(me.pending) \union me.latest
        /\ (ToSet(me.pending) \union me.latest) \intersect durable \subseteq ToSet(t) \union {e}
        /\ ToSet(t) \subseteq ToSet(me.pending) /\ me.latest \subseteq me.latest
        /\ e \notin ToSet(t) \union me.latest /\ IsInjective(t)
    BY <2>2, <2>4
  <2> HIDE DEF e, t
  <2>6. e \in Events /\ t \in Lists /\ me.latest \in SUBSET Events
    BY <1>1, <2>2 DEF e, t
  <2>7. reporter' = [reporter EXCEPT ![r] =
          [me EXCEPT !.pending = t, !.latest = me.latest, !.batch = Append(me.batch, e)]]
    BY <2>3 DEF e, t
  <2> QED
    BY <2>1, <2>5, <2>6, <2>7, TakeOne
<1>3. CASE TakeLatest(r)
  <2>1. PICK e \in me.latest : /\ me.pc = "run"
        /\ UNCHANGED <<durable, wal, request, busVars, refused, gone>>
        /\ reporter' = [reporter EXCEPT ![r].latest = {}, ![r].batch = Append(@, e)]
    BY <1>3 DEF TakeLatest, Loop
  <2>2. reporter' = [reporter EXCEPT ![r] =
          [me EXCEPT !.pending = me.pending, !.latest = {}, !.batch = Append(me.batch, e)]]
    BY <1>1, <2>1 DEF SenderInv, SenderTypes, ReporterRow
  <2>3. e \in Events /\ e \notin ToSet(me.pending) /\ IsInjective(me.pending)
        /\ me.latest \intersect durable = {}
    BY <1>1, <2>1 DEF HoldsOnce, Holds
  <2> QED
    BY <1>1, <2>1, <2>2, <2>3, TakeOne
<1> QED
  BY <1>2, <1>3

LEMMA RequestFacts ==
  ASSUME SenderInv, NEW q \in Requests
  PROVE  /\ request[q] \in RequestRow /\ request[q].events \in Lists /\ request[q].first \in Nat
         /\ NoRequest \in RequestRow
         /\ \A s \in Ranks : reporter[s].on = q => Waits(reporter[s], request, known) /\ reporter[s].on # NoSlot
BY EmptyIsList, EventsAssumption DEF SenderInv, SenderTypes, RequestRow, NoRequest, ReporterInv

LEMMA PostStep ==
  ASSUME SenderInv, NEW r \in Ranks, NEW q \in Requests, NEW events \in Lists,
         NEW label \in {"sending", "replaying"}, Post(r, q, label, events),
         UNCHANGED <<durable, wal, busVars, refused, gone>>,
         reporter[r].pc = IF label = "sending" THEN "run" ELSE "replay",
         label = "sending" => events = reporter[r].batch,
         label = "replaying" => reporter[r].rows # << >> /\ events = Head(reporter[r].rows)
  PROVE  SenderInv'
<1> DEFINE me == reporter[r]
           batch == IF label = "sending" THEN << >> ELSE me.batch
           row == [me EXCEPT !.pc = label, !.sending = events, !.on = q, !.batch = batch]
           asked == [pc |-> "allocate", events |-> events, first |-> 0]
<1>1. /\ me \in ReporterRow /\ wal[r] \in Logs /\ me.batch \in Lists /\ me.rows \in Logs
      /\ HoldsOnce(me, wal[r], r) /\ Replays(me, wal[r], known) /\ KeepsDurable(me, wal[r], r)
  BY RowFacts
<1>2. request[q].pc = "free" /\ request' = [request EXCEPT ![q] = asked]
  BY DEF Post
<1>3. reporter' = [reporter EXCEPT ![r] = row] /\ wal' = [wal EXCEPT ![r] = wal[r]]
  BY DEF Post, SenderInv, SenderTypes
<1>4. asked \in RequestRow
  BY DEF RequestRow
<1>5. batch \in Lists /\ (batch = me.batch \/ batch = << >>) /\ (label = "replaying" => batch = me.batch)
  BY <1>1, EmptyIsList
<1>6. me.pc = (IF label = "sending" THEN "run" ELSE "replay")
      /\ (label = "sending" => events = me.batch /\ batch = << >>)
      /\ (label = "replaying" => me.rows # << >> /\ events = Head(me.rows))
      /\ label \in {"sending", "replaying"}
  OBVIOUS
<1> HIDE DEF batch
<1>7. row \in ReporterRow
  BY <1>1, <1>5 DEF ReporterRow, ReporterLabel
<1>8. /\ row.pc = label /\ row.rows = me.rows /\ row.retained = me.retained
      /\ row.emitted = me.emitted /\ row.latest = me.latest
      /\ row.pending = me.pending /\ row.batch = batch /\ row.sending = events /\ row.on = q
  BY <1>1 DEF ReporterRow
<1>9. q # NoSlot
  BY EventsAssumption
<1>10. \A s \in Ranks : reporter[s].on # q
  <2> SUFFICES ASSUME NEW s \in Ranks, reporter[s].on = q PROVE FALSE
    OBVIOUS
  <2>1. Waits(reporter[s], request, known) /\ reporter[s].on # NoSlot
    BY RequestFacts
  <2> QED
    BY <1>2, <2>1 DEF Waits
<1>11. /\ request \in [Requests -> RequestRow] /\ request' \in [Requests -> RequestRow]
       /\ request'[q] = asked /\ \A p \in Requests \ {q} : request'[p] = request[p]
  BY <1>2, <1>4 DEF SenderInv, SenderTypes
<1>12. asked.pc = "allocate" /\ asked.events = events
  OBVIOUS
<1> HIDE DEF row, me, asked
<1>13. Numbered(row, r) = Numbered(me, r) /\ \A s : Holds(me, r, s) => Holds(row, r, s)
  BY <1>8 DEF Holds, Numbered
<1>14. Holds(me, r, events) /\ Holds(me, r, batch) /\ ToSet(batch) \subseteq ToSet(me.batch)
  <2>1. Holds(me, r, << >>)
    BY EmptyLists DEF Holds
  <2>2. CASE label = "sending"
    BY <1>1, <1>6, <2>1, <2>2, EmptyLists DEF HoldsOnce
  <2>3. CASE label = "replaying"
    <3>1. Head(me.rows) \in ToSet(me.rows)
      BY <1>1, <1>6, <2>3, FirstList
    <3> QED
      BY <1>1, <1>5, <1>6, <2>3, <3>1 DEF HoldsOnce
  <2> QED
    BY <2>2, <2>3
<1>15. HoldsOnce(row, wal[r], r)
  BY <1>1, <1>8, <1>13, <1>14 DEF HoldsOnce
<1>16. Replays(row, wal[r], known)
  BY <1>1, <1>6, <1>8, <1>9 DEF Replays
<1>17. KeepsDurable(row, wal[r], r)
  <2>1. me.sending = << >>
    BY <1>1, <1>6 DEF Replays
  <2>2. HeldBy(me, wal[r]) \subseteq HeldBy(row, wal[r])
    BY <1>5, <1>6, <1>8, <2>1, EmptyLists DEF HeldBy
  <2> QED
    BY <1>1, <1>13, <2>2 DEF KeepsDurable
<1>18. Waits(row, request', known)
  BY <1>8, <1>11, <1>12 DEF Waits
<1>19. \A p \in Requests : request'[p] = request[p] \/
           /\ request[p].pc \in {"free", "done", "failed"}
           /\ request'[p].pc \in {"free", "allocate"}
           /\ request'[p].pc = "allocate" => IsInjective(request'[p].events)
           /\ \A s \in Ranks \ {r} : reporter[s].on # p
  BY <1>2, <1>10, <1>11, <1>12, <1>14 DEF Holds
<1>20. UNCHANGED <<durable, known, eventSequence, stream, refused>> /\ gone \subseteq gone'
  BY DEF busVars
<1>21. Numbered(row, r) \intersect durable \subseteq HeldBy(row, wal[r]) \union known \union gone'
  BY <1>17, <1>20 DEF KeepsDurable
<1>22. row.on # NoSlot => \A s \in Ranks \ {r} : reporter[s].on # row.on
  BY <1>8, <1>10
<1> QED
  BY <1>1, <1>3, <1>7, <1>11, <1>15, <1>16, <1>18, <1>19, <1>20, <1>21, <1>22, ReporterStep

LEMMA PostSteps ==
  ASSUME SenderInv, NEW r \in Ranks, NEW q \in Requests, Flush(r, q) \/ Replay(r, q)
  PROVE  SenderInv'
<1>1. reporter[r].batch \in Lists /\ reporter[r].rows \in Logs
  BY RowFacts
<1>2. CASE Flush(r, q)
  BY <1>1, <1>2, PostStep DEF Flush, Loop
<1>3. CASE Replay(r, q)
  <2>1. reporter[r].rows # << >> /\ Post(r, q, "replaying", Head(reporter[r].rows))
        /\ reporter[r].pc = "replay" /\ UNCHANGED <<durable, wal, busVars, refused, gone>>
    BY <1>3 DEF Replay, Loop
  <2>2. Head(reporter[r].rows) \in Lists
    BY <1>1, <2>1, FirstList
  <2> QED
    BY <2>1, <2>2, PostStep
<1> QED
  BY <1>2, <1>3

\* The request that is let go has ended or is left to its gateway.
LEMMA LetGo ==
  ASSUME SenderInv, NEW r \in Ranks,
         request' \in [Requests -> RequestRow],
         \A q \in Requests : request'[q] = request[q] \/
           /\ q = reporter[r].on
           /\ request[q].pc \in {"done", "failed"} /\ request'[q] = NoRequest
  PROVE  \A q \in Requests : request'[q] = request[q] \/
           /\ request[q].pc \in {"free", "done", "failed"}
           /\ request'[q].pc \in {"free", "allocate"}
           /\ request'[q].pc = "allocate" => IsInjective(request'[q].events)
           /\ \A s \in Ranks \ {r} : reporter[s].on # q
<1>1. \A q \in Requests : q = reporter[r].on => \A s \in Ranks \ {r} : reporter[s].on # q
  BY EventsAssumption DEF SenderInv, WaitDiffer
<1>2. NoRequest.pc = "free"
  BY DEF NoRequest
<1> QED
  BY <1>1, <1>2

LEMMA AnsweredStep ==
  ASSUME SenderInv, NEW r \in Ranks, NEW ok \in BOOLEAN, reporter[r].on # NoSlot, Answered(r, ok),
         UNCHANGED <<durable, wal, busVars, refused, gone>>,
         ok => request[reporter[r].on].pc = "done",
         request' \in [Requests -> RequestRow],
         \A q \in Requests : request'[q] = request[q] \/
           /\ q = reporter[r].on
           /\ request[q].pc \in {"done", "failed"} /\ request'[q] = NoRequest
  PROVE  SenderInv'
<1> DEFINE me == reporter[r]
<1>1. /\ me \in ReporterRow /\ wal[r] \in Logs /\ me.rows \in Logs /\ me.retained \in Logs /\ me.sending \in Lists
      /\ HoldsOnce(me, wal[r], r) /\ Replays(me, wal[r], known) /\ KeepsDurable(me, wal[r], r)
      /\ Waits(me, request, known)
  BY RowFacts
<1>2. me.pc \in {"sending", "replaying"} /\ me.on # NoSlot
  BY <1>1 DEF Replays
<1>3. ok => ToSet(me.sending) \subseteq known
  BY <1>1 DEF Waits
<1>4. wal' = [wal EXCEPT ![r] = wal[r]] /\ \A row : Waits([row EXCEPT !.on = NoSlot], request', known)
  BY DEF SenderInv, SenderTypes, Waits
<1>5. CASE me.pc = "sending"
  <2> DEFINE label == IF ok THEN "run" ELSE "log"
             left == IF ok THEN << >> ELSE me.sending
             row == [me EXCEPT !.pc = label, !.on = NoSlot, !.sending = left]
  <2>1. reporter' = [reporter EXCEPT ![r] = row]
    BY <1>5 DEF Answered
  <2>2. label \in {"run", "log"} /\ (ok => label = "run" /\ left = << >>) /\ (~ok => label = "log" /\ left = me.sending)
    OBVIOUS
  <2>3. left \in Lists
    BY <1>1, EmptyIsList
  <2> HIDE DEF label, left
  <2>4. row \in ReporterRow
    BY <1>1, <2>2, <2>3 DEF ReporterRow, ReporterLabel
  <2>5. /\ row.pc = label /\ row.rows = me.rows /\ row.retained = me.retained
        /\ row.emitted = me.emitted /\ row.latest = me.latest
        /\ row.pending = me.pending /\ row.batch = me.batch /\ row.sending = left /\ row.on = NoSlot
    BY <1>1 DEF ReporterRow
  <2> HIDE DEF row, me
  <2>6. Numbered(row, r) = Numbered(me, r) /\ \A s : Holds(me, r, s) => Holds(row, r, s)
    BY <2>5 DEF Holds, Numbered
  <2>7. Holds(me, r, left)
    BY <1>1, <2>2, EmptyLists DEF HoldsOnce, Holds
  <2>8. HoldsOnce(row, wal[r], r)
    BY <1>1, <2>5, <2>6, <2>7 DEF HoldsOnce
  <2>9. Replays(row, wal[r], known)
    BY <2>2, <2>5 DEF Replays
  <2>10. KeepsDurable(row, wal[r], r)
    BY <1>1, <1>3, <2>2, <2>5, <2>6 DEF KeepsDurable, HeldBy
  <2>11. Waits(row, request', known)
    BY <2>5 DEF Waits
  <2> QED
    BY <1>1, <1>4, <2>1, <2>4, <2>5, <2>8, <2>9, <2>10, <2>11, LetGo, ReporterStep DEF busVars, KeepsDurable
<1>6. CASE me.pc = "replaying"
  <2> DEFINE kept == Retained(r, ok)
             row == [me EXCEPT !.pc = "replay", !.on = NoSlot, !.sending = << >>, !.rows = Tail(me.rows), !.retained = kept]
  <2>1. reporter' = [reporter EXCEPT ![r] = row]
    BY <1>6 DEF Answered
  <2>2. me.rows # << >> /\ me.sending = Head(me.rows)
    BY <1>1, <1>6 DEF Replays
  <2> DEFINE rest == Tail(me.rows)
  <2>3. /\ rest \in Logs /\ me.sending \in Lists
        /\ ToSet(me.rows) = ToSet(rest) \union {me.sending}
        /\ Flat(me.rows) = Flat(rest) \union ToSet(me.sending)
    BY <1>1, <2>2, FirstList
  <2>4. /\ kept \in Logs
        /\ ToSet(kept) = IF ok THEN ToSet(me.retained) ELSE ToSet(me.retained) \union {me.sending}
        /\ Flat(kept) = IF ok THEN Flat(me.retained) ELSE Flat(me.retained) \union ToSet(me.sending)
    <3>1. kept = IF ok THEN me.retained ELSE Append(me.retained, me.sending)
      BY <2>2 DEF Retained
    <3> HIDE DEF kept, me
    <3> QED
      BY <1>1, <3>1, AppendList
  <2> HIDE DEF kept, rest
  <2>5. row \in ReporterRow
    BY <1>1, <2>3, <2>4, EmptyIsList DEF ReporterRow, ReporterLabel, rest
  <2>6. /\ row.pc = "replay" /\ row.rows = rest /\ row.retained = kept
        /\ row.emitted = me.emitted /\ row.latest = me.latest
        /\ row.pending = me.pending /\ row.batch = me.batch /\ row.sending = << >> /\ row.on = NoSlot
    BY <1>1 DEF ReporterRow, rest
  <2> HIDE DEF row, me
  <2>7. Numbered(row, r) = Numbered(me, r) /\ \A s : Holds(me, r, s) => Holds(row, r, s)
    BY <2>6 DEF Holds, Numbered
  <2>8. HoldsOnce(row, wal[r], r)
    <3>1. Holds(row, r, << >>)
      BY EmptyLists DEF Holds
    <3>2. ToSet(kept) \subseteq ToSet(me.retained) \union ToSet(me.rows) /\ ToSet(rest) \subseteq ToSet(me.rows)
      BY <2>3, <2>4
    <3> QED
      BY <1>1, <2>6, <2>7, <3>1, <3>2 DEF HoldsOnce
  <2>9. Replays(row, wal[r], known)
    <3>1. /\ Flat(wal[r]) \subseteq Flat(me.rows) \union Flat(me.retained) \union known
          /\ Flat(me.rows) \union Flat(me.retained) \subseteq Flat(wal[r])
      BY <1>1, <1>6 DEF Replays
    <3>2. Flat(wal[r]) \subseteq Flat(rest) \union Flat(kept) \union known
      BY <1>3, <2>3, <2>4, <3>1
    <3>3. Flat(rest) \union Flat(kept) \subseteq Flat(wal[r])
      BY <2>3, <2>4, <3>1
    <3> QED
      BY <2>6, <3>2, <3>3 DEF Replays
  <2>10. KeepsDurable(row, wal[r], r)
    <3>1. ToSet(me.sending) \subseteq Flat(wal[r])
      BY <1>1, <1>6, <2>3 DEF Replays
    <3>2. HeldBy(me, wal[r]) \subseteq HeldBy(row, wal[r])
      BY <2>6, <3>1 DEF HeldBy
    <3> QED
      BY <1>1, <2>7, <3>2 DEF KeepsDurable
  <2>11. Waits(row, request', known)
    BY <2>6 DEF Waits
  <2> QED
    BY <1>1, <1>4, <2>1, <2>5, <2>6, <2>8, <2>9, <2>10, <2>11, LetGo, ReporterStep DEF busVars, KeepsDurable
<1> QED
  BY <1>2, <1>5, <1>6

LEMMA AnswerSteps ==
  ASSUME SenderInv, NEW r \in Ranks, Receive(r) \/ TimesOut(r)
  PROVE  SenderInv'
<1> DEFINE on == reporter[r].on
<1>1. on # NoSlot /\ on \in Requests
  BY RowFacts DEF Receive, TimesOut
<1>2. NoRequest \in RequestRow /\ request \in [Requests -> RequestRow]
  BY <1>1, RequestFacts DEF SenderInv, SenderTypes
<1> HIDE DEF on
<1>3. CASE Receive(r)
  <2>1. /\ request[on].pc \in {"done", "failed"} /\ Answered(r, request[on].pc = "done")
        /\ request' = [request EXCEPT ![on] = NoRequest]
        /\ UNCHANGED <<durable, wal, busVars, refused, gone>>
    BY <1>3 DEF Receive, on
  <2>2. request' \in [Requests -> RequestRow]
    BY <1>2, <2>1
  <2>3. \A q \in Requests : request'[q] = request[q] \/
           /\ q = on
           /\ request[q].pc \in {"done", "failed"} /\ request'[q] = NoRequest
    BY <1>2, <2>1
  <2>4. (request[on].pc = "done") \in BOOLEAN
    OBVIOUS
  <2> QED
    BY <1>1, <2>1, <2>2, <2>3, <2>4, AnsweredStep DEF on
<1>4. CASE TimesOut(r)
  <2>1. /\ Answered(r, FALSE)
        /\ request' = IF request[on].pc \in {"done", "failed"}
                      THEN [request EXCEPT ![on] = NoRequest] ELSE request
        /\ UNCHANGED <<durable, wal, busVars, refused, gone>>
    BY <1>4 DEF TimesOut, on
  <2>2. request' \in [Requests -> RequestRow]
    BY <1>2, <2>1
  <2>3. \A q \in Requests : request'[q] = request[q] \/
           /\ q = on
           /\ request[q].pc \in {"done", "failed"} /\ request'[q] = NoRequest
    BY <1>2, <2>1
  <2> QED
    BY <1>1, <2>1, <2>2, <2>3, AnsweredStep DEF on
<1> QED
  BY <1>3, <1>4

LEMMA DieStep ==
  ASSUME SenderInv, NEW r \in Ranks, WorkerDies(r)
  PROVE  SenderInv'
<1> DEFINE me == reporter[r]
           row == [Fresh(me.emitted) EXCEPT !.pc = "down"]
<1>1. /\ me \in ReporterRow /\ wal[r] \in Logs /\ me.emitted \in Nat
      /\ HoldsOnce(me, wal[r], r) /\ KeepsDurable(me, wal[r], r)
  BY RowFacts
<1>2. /\ reporter' = [reporter EXCEPT ![r] = row] /\ wal' = [wal EXCEPT ![r] = wal[r]]
      /\ gone' = gone \union (Volatile(r) \ Flat(wal[r]))
      /\ UNCHANGED <<durable, known, eventSequence, stream, refused>>
  BY DEF WorkerDies, SenderInv, SenderTypes, busVars
<1> DEFINE fresh == Fresh(me.emitted)
<1>3. /\ fresh \in ReporterRow /\ fresh.rows = << >> /\ fresh.retained = << >>
      /\ fresh.emitted = me.emitted /\ fresh.latest = {}
      /\ fresh.pending = << >> /\ fresh.batch = << >> /\ fresh.sending = << >> /\ fresh.on = NoSlot
  BY <1>1, EmptyIsList DEF ReporterRow, ReporterLabel, Fresh
<1> HIDE DEF fresh
<1>4. row \in ReporterRow
  BY <1>3 DEF ReporterRow, ReporterLabel, fresh
<1>5. /\ row.pc = "down" /\ row.rows = << >> /\ row.retained = << >>
      /\ row.emitted = me.emitted /\ row.latest = {}
      /\ row.pending = << >> /\ row.batch = << >> /\ row.sending = << >> /\ row.on = NoSlot
  BY <1>3 DEF ReporterRow, fresh
<1> HIDE DEF row
<1>6. /\ request' \in [Requests -> RequestRow]
      /\ \A q \in Requests : request'[q] = request[q] \/
           /\ q = reporter[r].on
           /\ request[q].pc \in {"done", "failed"} /\ request'[q] = NoRequest
  <2>1. request' = [q \in Requests |->
          IF q = reporter[r].on /\ request[q].pc \in {"done", "failed"} THEN NoRequest ELSE request[q]]
    BY DEF WorkerDies
  <2>2. request \in [Requests -> RequestRow]
    BY DEF SenderInv, SenderTypes
  <2>3. \A q \in Requests : NoRequest \in RequestRow
    BY RequestFacts
  <2> QED
    BY <2>1, <2>2, <2>3
<1> HIDE DEF me
<1>7. Numbered(row, r) = Numbered(me, r) /\ \A s : Holds(me, r, s) => Holds(row, r, s)
  BY <1>5 DEF Holds, Numbered
<1>8. HoldsOnce(row, wal[r], r)
  <2>1. Holds(row, r, << >>)
    BY EmptyLists DEF Holds
  <2> QED
    BY <1>1, <1>5, <1>7, <2>1, EmptyLists DEF HoldsOnce
<1>9. Replays(row, wal[r], known)
  BY <1>5 DEF Replays
<1>10. Numbered(row, r) \intersect durable \subseteq HeldBy(row, wal[r]) \union known \union gone'
  BY <1>1, <1>2, <1>5, <1>7 DEF KeepsDurable, HeldBy, Volatile, me
<1>11. Waits(row, request', known)
  BY <1>5 DEF Waits
<1> QED
  BY <1>1, <1>2, <1>4, <1>5, <1>6, <1>8, <1>9, <1>10, <1>11, LetGo, ReporterStep
-----------------------------------------------------------------------------
(* The gateways. *)

\* What the gateway of a request does leaves the reporters what they have.
LEMMA ReportersKeep ==
  ASSUME SenderInv, NEW q \in Requests, request[q].pc \in {"allocate", "append"},
         UNCHANGED <<durable, reporter, wal>>, known \subseteq known', gone \subseteq gone',
         NEW row \in RequestRow, request' = [request EXCEPT ![q] = row],
         Awaited(q) => row.pc \in {"append", "done", "failed"},
         row.pc \in {"append", "done"} => ToSet(request[q].events) \subseteq known'
  PROVE  (\A r \in Ranks : ReporterInv(r)') /\ WaitDiffer'
<1>1. /\ request'[q] = row /\ \A p \in Requests \ {q} : request'[p] = request[p]
  BY DEF SenderInv, SenderTypes
<1>2. WaitDiffer'
  BY DEF SenderInv, WaitDiffer
<1>3. ASSUME NEW r \in Ranks PROVE ReporterInv(r)'
  <2> DEFINE me == reporter[r]
  <2>1. HoldsOnce(me, wal[r], r) /\ Replays(me, wal[r], known) /\ KeepsDurable(me, wal[r], r)
        /\ Waits(me, request, known) /\ me.on \in Requests \union {NoSlot}
    BY RowFacts
  <2>2. reporter'[r] = me /\ wal'[r] = wal[r]
    OBVIOUS
  <2> HIDE DEF me
  <2>3. HoldsOnce(me, wal[r], r)'
    BY <2>1, <2>2 DEF HoldsOnce, Holds, Numbered, me
  <2>4. Replays(me, wal[r], known')
    BY <2>1 DEF Replays
  <2>5. Numbered(me, r) \intersect durable \subseteq HeldBy(me, wal[r]) \union known' \union gone'
    BY <2>1 DEF KeepsDurable
  <2>6. Waits(me, request', known')
    <3>1. CASE me.on = q
      <4>1. me.on # NoSlot
        BY <3>1, EventsAssumption
      <4>2. Awaited(q)
        BY <3>1 DEF Awaited, me
      <4>3. request[q].pc = "allocate" => ToSet(me.sending) = ToSet(request[q].events)
        BY <2>1, <3>1, <4>1 DEF Waits
      <4>4. request[q].pc = "append" => ToSet(me.sending) \subseteq known
        BY <2>1, <3>1, <4>1 DEF Waits
      <4> QED
        BY <1>1, <3>1, <4>1, <4>2, <4>3, <4>4 DEF Waits
    <3>2. CASE me.on # q
      BY <1>1, <2>1, <3>2 DEF Waits
    <3> QED
      BY <3>1, <3>2
  <2>7. KeepsDurable(me, wal[r], r)'
    BY <2>2, <2>5 DEF KeepsDurable, Numbered, HeldBy, me
  <2> QED
    BY <2>2, <2>3, <2>4, <2>6, <2>7 DEF ReporterInv, me
<1> QED
  BY <1>2, <1>3

LEMMA EndsRow ==
  ASSUME SenderInv, NEW q \in Requests, NEW label \in {"done", "failed"}, Ends(q, label)
  PROVE  \E row \in RequestRow :
           /\ request' = [request EXCEPT ![q] = row]
           /\ row.pc \in {"free", label} /\ (Awaited(q) => row.pc = label)
<1>1. request[q] \in RequestRow /\ NoRequest \in RequestRow /\ request \in [Requests -> RequestRow]
  BY RequestFacts DEF SenderInv, SenderTypes
<1>2. CASE Awaited(q)
  <2> DEFINE row == [request[q] EXCEPT !.pc = label]
  <2>1. row \in RequestRow /\ row.pc = label
    BY <1>1 DEF RequestRow
  <2>2. request' = [request EXCEPT ![q] = row]
    BY <1>2 DEF Ends
  <2> HIDE DEF row
  <2> QED
    BY <1>2, <2>1, <2>2
<1>3. CASE ~Awaited(q)
  BY <1>1, <1>3 DEF Ends, NoRequest
<1> QED
  BY <1>2, <1>3

\* A request that ends: what it had numbered is accounted for.
LEMMA EndStep ==
  ASSUME SenderInv, NEW q \in Requests, request[q].pc \in {"allocate", "append"},
         NEW label \in {"done", "failed"}, Ends(q, label),
         UNCHANGED <<durable, reporter, wal, known, eventSequence>>,
         stream' \in Seq(Entry), \A i, j \in DOMAIN stream' : stream'[i].event = stream'[j].event => i = j,
         refused \subseteq refused', gone \subseteq gone', Streamed \subseteq Streamed',
         Streamed' \subseteq Streamed \union ToSet(request[q].events),
         request[q].pc = "allocate" => Streamed' = Streamed,
         request[q].pc = "append" => ToSet(request[q].events) \subseteq Streamed' \union refused' \union gone',
         label = "done" => request[q].pc = "append" \/ ToSet(request[q].events) \subseteq known
  PROVE  SenderInv'
<1> DEFINE events == ToSet(request[q].events)
<1>1. PICK row \in RequestRow :
        /\ request' = [request EXCEPT ![q] = row]
        /\ row.pc \in {"free", label} /\ (Awaited(q) => row.pc = label)
  BY EndsRow
<1>2. /\ SenderTypes /\ RequestInv /\ StreamInv
  BY DEF SenderInv
<1>3. request[q].pc = "append" => events \subseteq known
  BY <1>2 DEF RequestInv, Appending
<1>4. row.pc \in {"append", "done"} => events \subseteq known'
  BY <1>1, <1>3
<1>5. Awaited(q) => row.pc \in {"append", "done", "failed"}
  BY <1>1
<1>6. (\A r \in Ranks : ReporterInv(r)') /\ WaitDiffer'
  BY <1>1, <1>4, <1>5, ReportersKeep
<1>7. SenderTypes'
  BY <1>1, <1>2 DEF SenderTypes
<1>8. /\ request'[q] = row /\ row.pc \notin {"allocate", "append"}
      /\ \A p \in Requests \ {q} : request'[p] = request[p]
  BY <1>1, <1>2 DEF SenderTypes
<1>9. Appending' = Appending \ {q} /\ \A p \in Appending' : request'[p] = request[p]
  BY <1>8 DEF Appending
<1>10. OnTheWay \subseteq OnTheWay' \union (IF request[q].pc = "append" THEN events ELSE {})
  <2> SUFFICES ASSUME NEW p \in Appending, NEW e \in ToSet(request[p].events)
               PROVE  e \in OnTheWay' \union (IF request[q].pc = "append" THEN events ELSE {})
    BY DEF OnTheWay
  <2>1. CASE p = q
    BY <2>1 DEF Appending
  <2>2. CASE p # q
    <3>1. p \in Appending' /\ e \in ToSet(request'[p].events)
      BY <1>9, <2>2
    <3> QED
      BY <3>1 DEF OnTheWay
  <2> QED
    BY <2>1, <2>2
<1> HIDE DEF events
<1>11. \A p \in Appending' : ToSet(request[p].events) \intersect Streamed' = {}
  <2> SUFFICES ASSUME NEW p \in Appending' PROVE ToSet(request[p].events) \intersect Streamed' = {}
    OBVIOUS
  <2>1. ToSet(request[p].events) \intersect Streamed = {} /\ p # q /\ p \in Appending
    BY <1>2, <1>9 DEF RequestInv
  <2>2. CASE request[q].pc = "allocate"
    BY <2>1, <2>2
  <2>3. CASE request[q].pc = "append"
    <3>1. q \in Appending
      BY <2>3 DEF Appending
    <3>2. ToSet(request[p].events) \intersect events = {}
      BY <1>2, <2>1, <3>1 DEF RequestInv, events
    <3> QED
      BY <2>1, <3>2 DEF events
  <2> QED
    BY <2>2, <2>3
<1>12. RequestInv'
  <2>1. \A p \in Requests : request'[p].pc \in {"allocate", "append"} => IsInjective(request'[p].events)
    BY <1>2, <1>8 DEF RequestInv
  <2>2. \A p \in Appending' : ToSet(request'[p].events) \subseteq known' \ Streamed' /\ request'[p].first > 0
    BY <1>2, <1>9, <1>11 DEF RequestInv
  <2>3. \A p, s \in Appending' : p # s => ToSet(request'[p].events) \intersect ToSet(request'[s].events) = {}
    BY <1>2, <1>9 DEF RequestInv
  <2> QED
    BY <2>1, <2>2, <2>3 DEF RequestInv
<1>13. StreamInv'
  <2>1. Streamed' \subseteq known'
    BY <1>2, <1>3 DEF StreamInv, events
  <2>2. known' \subseteq OnTheWay' \union Streamed' \union refused' \union gone'
    BY <1>2, <1>10 DEF StreamInv, events
  <2> QED
    BY <2>1, <2>2 DEF StreamInv
<1> QED
  BY <1>6, <1>7, <1>12, <1>13 DEF SenderInv

LEMMA AllocateStep ==
  ASSUME SenderInv, NEW q \in Requests, AllocateSequences(q)
  PROVE  SenderInv'
<1> DEFINE new == Unknown(q)
           events == ToSet(request[q].events)
<1>1. SenderTypes /\ RequestInv /\ StreamInv /\ request[q].events \in Lists
  BY RequestFacts DEF SenderInv
<1>2. /\ request[q].pc = "allocate" /\ known' = known \union ToSet(new)
      /\ eventSequence' = eventSequence + Len(new)
      /\ IF new = << >> THEN Ends(q, "done")
         ELSE request' = [request EXCEPT ![q] =
                [pc |-> "append", events |-> new, first |-> eventSequence + 1]]
      /\ UNCHANGED <<durable, reporter, wal, stream, refused, gone>>
  BY DEF AllocateSequences
<1>3. IsInjective(request[q].events)
  BY <1>1, <1>2 DEF RequestInv
<1>4. new \in Lists /\ ToSet(new) = events \ known /\ IsInjective(new)
  BY <1>1, <1>3, UnknownEvents DEF Lists
<1>5. Len(new) \in Nat /\ ToSet(new) \subseteq Events
  BY <1>4 DEF Lists, ToSet
<1> HIDE DEF new, events
<1>6. Streamed' = Streamed
  BY <1>2 DEF Streamed
<1>7. CASE new = << >>
  <2>1. ToSet(new) = {} /\ Len(new) = 0
    BY <1>7, EmptyLists
  <2>2. events \subseteq known /\ known' = known
    BY <1>2, <1>4, <2>1
  <2>3. eventSequence' = eventSequence
    BY <1>1, <1>2, <2>1 DEF SenderTypes
  <2>4. /\ stream' \in Seq(Entry)
        /\ \A i, j \in DOMAIN stream' : stream'[i].event = stream'[j].event => i = j
    BY <1>1, <1>2 DEF SenderTypes, StreamInv
  <2> QED
    BY <1>2, <1>6, <1>7, <2>2, <2>3, <2>4, EndStep DEF events
<1>8. CASE new # << >>
  <2> DEFINE row == [pc |-> "append", events |-> new, first |-> eventSequence + 1]
  <2>1. request' = [request EXCEPT ![q] = row]
    BY <1>2, <1>8
  <2>2. row \in RequestRow /\ row.pc = "append" /\ row.events = new /\ row.first > 0
    BY <1>1, <1>4 DEF RequestRow, SenderTypes
  <2> HIDE DEF row
  <2>3. events \subseteq known'
    BY <1>2, <1>4
  <2>4. (\A r \in Ranks : ReporterInv(r)') /\ WaitDiffer'
    BY <1>2, <2>1, <2>2, <2>3, ReportersKeep DEF events
  <2>5. SenderTypes'
    BY <1>1, <1>2, <1>5, <2>1, <2>2 DEF SenderTypes
  <2>6. request'[q] = row /\ \A p \in Requests \ {q} : request'[p] = request[p]
    BY <1>1, <2>1 DEF SenderTypes
  <2>7. Appending' = Appending \union {q} /\ q \notin Appending
    BY <1>2, <2>2, <2>6 DEF Appending
  <2>8. \A p \in Appending : request'[p] = request[p] /\ ToSet(request[p].events) \intersect ToSet(new) = {}
    BY <1>1, <1>4, <2>6, <2>7 DEF RequestInv, Appending
  <2>9. OnTheWay' = OnTheWay \union ToSet(new)
    <3>1. OnTheWay' \subseteq OnTheWay \union ToSet(new)
      BY <2>2, <2>6, <2>7, <2>8 DEF OnTheWay
    <3>2. OnTheWay \subseteq OnTheWay'
      BY <2>7, <2>8 DEF OnTheWay
    <3>3. ToSet(new) \subseteq OnTheWay'
      BY <2>2, <2>6, <2>7 DEF OnTheWay
    <3> QED
      BY <3>1, <3>2, <3>3
  <2>10. RequestInv'
    <3>1. \A p \in Requests : request'[p].pc \in {"allocate", "append"} => IsInjective(request'[p].events)
      BY <1>1, <1>4, <2>2, <2>6 DEF RequestInv
    <3>2. ToSet(new) \subseteq known' \ Streamed
      BY <1>1, <1>2, <1>4 DEF StreamInv
    <3>3. \A p \in Appending' : ToSet(request'[p].events) \subseteq known' \ Streamed' /\ request'[p].first > 0
      BY <1>1, <1>2, <1>6, <2>2, <2>6, <2>7, <2>8, <3>2 DEF RequestInv
    <3>4. \A p, s \in Appending' : p # s => ToSet(request'[p].events) \intersect ToSet(request'[s].events) = {}
      BY <1>1, <2>2, <2>6, <2>7, <2>8 DEF RequestInv
    <3> QED
      BY <3>1, <3>3, <3>4 DEF RequestInv
  <2>11. StreamInv'
    <3>1. Streamed' \subseteq known'
      BY <1>1, <1>2, <1>6 DEF StreamInv
    <3>2. known' \subseteq OnTheWay' \union Streamed' \union refused' \union gone'
      BY <1>1, <1>2, <1>6, <2>9 DEF StreamInv
    <3>3. \A i, j \in DOMAIN stream' : stream'[i].event = stream'[j].event => i = j
      BY <1>1, <1>2 DEF StreamInv
    <3> QED
      BY <3>1, <3>2, <3>3 DEF StreamInv
  <2> QED
    BY <2>4, <2>5, <2>10, <2>11 DEF SenderInv
<1> QED
  BY <1>7, <1>8

LEMMA FailSteps ==
  ASSUME SenderInv, NEW q \in Requests, RedisFails(q) \/ GatewayDies(q)
  PROVE  SenderInv'
<1>1. /\ stream \in Seq(Entry) /\ \A i, j \in DOMAIN stream : stream[i].event = stream[j].event => i = j
  BY DEF SenderInv, SenderTypes, StreamInv
<1>2. /\ Ends(q, "failed") /\ request[q].pc \in {"allocate", "append"}
      /\ UNCHANGED <<durable, reporter, wal, known, eventSequence, stream>>
      /\ refused \subseteq refused' /\ gone \subseteq gone'
      /\ request[q].pc = "append" => ToSet(request[q].events) \subseteq refused' \union gone'
  BY DEF RedisFails, GatewayDies, busVars
<1>3. Streamed' = Streamed
  BY <1>2 DEF Streamed
<1> QED
  BY <1>1, <1>2, <1>3, EndStep

LEMMA AppendStep ==
  ASSUME SenderInv, Increasing, NEW q \in Requests, AppendToStream(q)
  PROVE  /\ SenderInv' /\ stream' \in Seq(Entry) /\ Increasing'
         /\ Ids \subseteq Ids' /\ (0 \notin Ids => 0 \notin Ids')
         /\ \A n \in Ids' \ Ids, i \in Ids : i < n
<1> DEFINE events == request[q].events
<1>1. /\ request[q].pc = "append" /\ q \in Appending
      /\ UNCHANGED <<durable, reporter, wal, known, eventSequence, gone>>
  BY DEF AppendToStream, Appending
<1>2. /\ stream \in Seq(Entry) /\ SenderTypes
      /\ \A i, j \in DOMAIN stream : stream[i].event = stream[j].event => i = j
  BY DEF SenderInv, SenderTypes, StreamInv
<1>3. /\ IsInjective(events) /\ ToSet(events) \intersect Streamed = {}
      /\ request[q].first > 0
  BY <1>1 DEF SenderInv, RequestInv
<1>4. CASE Taken(q)
  <2>1. stream' = stream \o Entries(q) /\ Ends(q, "done") /\ refused' = refused
    BY <1>4 DEF AppendToStream
  <2>2. /\ stream' \in Seq(Entry)
        /\ Increasing'
        /\ Ids \subseteq Ids' /\ (0 \notin Ids => 0 \notin Ids')
        /\ \A n \in Ids' \ Ids, i \in Ids : i < n
        /\ Streamed' = Streamed \union ToSet(events)
        /\ \A i \in DOMAIN stream : stream'[i] = stream[i]
        /\ \A k \in DOMAIN stream' : k \in DOMAIN stream
             \/ (k - Len(stream) \in DOMAIN events /\ stream'[k].event = events[k - Len(stream)])
    BY <1>2, <1>3, <1>4, <2>1, Appended
  <2>3. \A k \in DOMAIN stream' : k \in Nat
    BY <2>2
  <2>4. Len(stream) \in Nat
    BY <1>2
  <2> HIDE DEF events
  <2>5. \A i, j \in DOMAIN stream' : stream'[i].event = stream'[j].event => i = j
    <3> SUFFICES ASSUME NEW i \in DOMAIN stream', NEW j \in DOMAIN stream', stream'[i].event = stream'[j].event
                 PROVE  i = j
      OBVIOUS
    <3>1. \A k \in DOMAIN stream : stream'[k].event \in Streamed
      BY <2>2 DEF Streamed
    <3>2. \A k \in DOMAIN stream' : k \notin DOMAIN stream => stream'[k].event \in ToSet(events)
      BY <2>2 DEF ToSet
    <3>3. CASE i \in DOMAIN stream /\ j \in DOMAIN stream
      BY <1>2, <2>2, <3>3
    <3>4. CASE i \notin DOMAIN stream /\ j \notin DOMAIN stream
      <4>1. i - Len(stream) = j - Len(stream)
        BY <1>3, <2>2, <3>4 DEF IsInjective
      <4> QED
        BY <2>3, <2>4, <4>1
    <3> QED
      BY <1>3, <3>1, <3>2, <3>3, <3>4
  <2>6. SenderInv'
    BY <1>1, <2>1, <2>2, <2>5, EndStep DEF events
  <2> QED
    BY <2>2, <2>6
<1>5. CASE ~Taken(q)
  <2>1. /\ refused' = refused \union ToSet(events) /\ Ends(q, "failed") /\ stream' = stream
    BY <1>5 DEF AppendToStream
  <2>2. Streamed' = Streamed /\ Ids' = Ids /\ Increasing'
    BY <2>1 DEF Streamed, Ids, Increasing
  <2>3. SenderInv'
    BY <1>1, <1>2, <2>1, <2>2, EndStep
  <2> QED
    BY <1>2, <2>1, <2>2, <2>3
<1> QED
  BY <1>4, <1>5
-----------------------------------------------------------------------------
EventsInv == SenderInv /\ ReadersInv

LEMMA EventsStart ==
  ASSUME EventsInit
  PROVE  EventsInv
<1> USE DEF EventsInit
<1>1. reporter = [r \in Ranks |-> Fresh(0)] /\ request = [q \in Requests |-> NoRequest]
  OBVIOUS
<1>2. \A q \in Requests : NoRequest \in RequestRow /\ request[q] = NoRequest /\ request[q].pc = "free"
  BY EmptyIsList DEF NoRequest, RequestRow
<1> DEFINE fresh == Fresh(0)
<1>3. /\ fresh.pc = "start" /\ fresh.rows = << >> /\ fresh.retained = << >>
      /\ fresh.emitted = 0 /\ fresh.latest = {}
      /\ fresh.pending = << >> /\ fresh.batch = << >> /\ fresh.sending = << >> /\ fresh.on = NoSlot
      /\ fresh \in ReporterRow
  BY EmptyIsList DEF Fresh, ReporterRow, ReporterLabel
<1> HIDE DEF fresh
<1>4. SenderTypes
  <2>1. durable \in SUBSET Events
    BY EventsAssumption DEF Events
  <2>2. reporter \in [Ranks -> ReporterRow] /\ wal \in [Ranks -> Logs]
    BY <1>3, EmptyIsList DEF fresh
  <2>3. request \in [Requests -> RequestRow]
    BY <1>1, <1>2
  <2>4. stream \in Seq(Entry) /\ eventSequence \in Nat /\ known \in SUBSET Events
    OBVIOUS
  <2> QED
    BY <2>1, <2>2, <2>3, <2>4 DEF SenderTypes
<1>5. ASSUME NEW r \in Ranks PROVE ReporterInv(r)
  <2>1. reporter[r] = fresh /\ wal[r] = << >>
    BY DEF fresh
  <2>2. Numbered(fresh, r) = {}
    BY <1>3 DEF Numbered
  <2>3. HoldsOnce(fresh, << >>, r)
    BY <1>3, <2>2, EmptyLists DEF HoldsOnce, Holds
  <2>4. Replays(fresh, << >>, known) /\ KeepsDurable(fresh, << >>, r) /\ Waits(fresh, request, known)
    BY <1>3, <2>2 DEF Replays, KeepsDurable, Waits
  <2> QED
    BY <2>1, <2>3, <2>4 DEF ReporterInv
<1>6. WaitDiffer
  BY <1>3 DEF WaitDiffer, fresh
<1>7. Appending = {} /\ Streamed = {}
  BY <1>2 DEF Appending, Streamed
<1>8. RequestInv /\ StreamInv
  BY <1>2, <1>7 DEF RequestInv, StreamInv
<1> QED
  BY <1>4, <1>5, <1>6, <1>8, ReadersStart DEF SenderInv, EventsInv

\* A step that leaves the stream as it is leaves its readers what they have.
LEMMA ReadersKeep ==
  ASSUME EventsInv, UNCHANGED <<stream, readers>>
  PROVE  ReadersInv'
<1>1. stream \in Seq(Entry) /\ Increasing /\ 0 \notin Ids
  BY DEF EventsInv, SenderInv, SenderTypes, ReadersInv, Increasing
<1>2. Ids' = Ids /\ Increasing' /\ stream' \in Seq(Entry)
  BY <1>1 DEF Ids, Increasing
<1> QED
  BY <1>1, <1>2, ReadersSenders DEF EventsInv

LEMMA SendersKeep ==
  ASSUME SenderInv, UNCHANGED senders
  PROVE  SenderInv'
<1>1. UNCHANGED <<durable, reporter, wal, request, known, eventSequence, stream, refused, gone>>
  BY DEF senders
<1>2. SenderTypes' /\ WaitDiffer'
  BY <1>1 DEF SenderInv, SenderTypes, WaitDiffer
<1>3. ASSUME NEW r \in Ranks PROVE ReporterInv(r)'
  <2>1. HoldsOnce(reporter[r], wal[r], r)'
    BY <1>1 DEF SenderInv, ReporterInv, HoldsOnce, Holds, Numbered
  <2>2. Replays(reporter[r], wal[r], known)' /\ Waits(reporter[r], request, known)'
    BY <1>1 DEF SenderInv, ReporterInv, Replays, Waits, Flat
  <2>3. KeepsDurable(reporter[r], wal[r], r)'
    BY <1>1 DEF SenderInv, ReporterInv, KeepsDurable, HeldBy, Numbered, Flat
  <2> QED
    BY <2>1, <2>2, <2>3 DEF ReporterInv
<1>4. Appending' = Appending /\ OnTheWay' = OnTheWay /\ Streamed' = Streamed
  BY <1>1 DEF Appending, OnTheWay, Streamed
<1>5. RequestInv' /\ StreamInv'
  BY <1>1, <1>4 DEF SenderInv, RequestInv, StreamInv
<1> QED
  BY <1>2, <1>3, <1>5 DEF SenderInv

LEMMA EventsStep ==
  ASSUME EventsInv, [EventsNext]_eventsVars
  PROVE  EventsInv'
<1>0. SenderInv /\ ReadersInv
  BY DEF EventsInv
<1>1. ASSUME NEW r \in Ranks,
             Emit(r) \/ Deliver(r) \/ TimesOut(r) \/ WorkerDies(r) \/ WorkerRestarts(r)
      PROVE  EventsInv'
  <2>1. SenderInv'
    BY <1>0, <1>1, EmitStep, WalSteps, TakeSteps, PostSteps, AnswerSteps, DieStep DEF Deliver
  <2>2. UNCHANGED <<stream, readers>>
    BY <1>1 DEF Emit, Deliver, TimesOut, WorkerDies, WorkerRestarts, ReadWal, ReplaceWal, Take, TakeLatest,
                Receive, WriteWal, Flush, Replay, busVars
  <2> QED
    BY <2>1, <2>2, ReadersKeep DEF EventsInv
<1>2. ASSUME NEW q \in Requests, AllocateSequences(q) \/ RedisFails(q) \/ GatewayDies(q)
      PROVE  EventsInv'
  <2>1. SenderInv'
    BY <1>0, <1>2, AllocateStep, FailSteps
  <2>2. UNCHANGED <<stream, readers>>
    BY <1>2 DEF AllocateSequences, RedisFails, GatewayDies, busVars
  <2> QED
    BY <2>1, <2>2, ReadersKeep DEF EventsInv
<1>3. ASSUME NEW q \in Requests, AppendToStream(q) PROVE EventsInv'
  <2>1. Increasing /\ 0 \notin Ids /\ UNCHANGED readers
    BY <1>0, <1>3 DEF ReadersInv, Increasing, AppendToStream
  <2>2. /\ SenderInv' /\ stream' \in Seq(Entry) /\ Increasing'
        /\ Ids \subseteq Ids' /\ 0 \notin Ids'
        /\ \A n \in Ids' \ Ids, i \in Ids : i < n
    BY <1>0, <1>3, <2>1, AppendStep
  <2> QED
    BY <1>0, <2>1, <2>2, ReadersSenders DEF EventsInv
<1>4. ASSUME ReadChunk \/ AddArtifact \/ UpdateArchiveCursor \/ ArchiverDies \/ StreamEvents
      PROVE  EventsInv'
  <2>1. UNCHANGED senders
    BY <1>4 DEF ReadChunk, AddArtifact, UpdateArchiveCursor, ArchiverDies, StreamEvents
  <2>2. UNCHANGED stream /\ stream \in Seq(Entry)
    BY <1>0, <2>1 DEF senders, SenderInv, SenderTypes
  <2> QED
    BY <1>0, <1>4, <2>1, <2>2, SendersKeep, ReadersStep DEF EventsInv
<1>5. ASSUME UNCHANGED eventsVars PROVE EventsInv'
  <2>1. UNCHANGED senders /\ UNCHANGED <<stream, readers>>
    BY <1>5 DEF eventsVars, senders, busVars
  <2> QED
    BY <1>0, <2>1, SendersKeep, ReadersKeep DEF EventsInv
<1> QED
  BY <1>1, <1>2, <1>3, <1>4, <1>5 DEF EventsNext

\* Reporters, requests, the sequence numbers of the controller, the Redis stream
\* and its readers agree on where each event of a training attempt is.
THEOREM EventsInvariant == EventsSpec => []EventsInv
<1>1. EventsInit => EventsInv
  BY EventsStart
<1>2. EventsInv /\ [EventsNext]_eventsVars => EventsInv'
  BY EventsStep
<1> QED
  BY <1>1, <1>2, PTL DEF EventsSpec

LEMMA OnceInStream ==
  ASSUME stream \in Seq(Entry), \A i, j \in DOMAIN stream : stream[i].event = stream[j].event => i = j
  PROVE  StreamedOnce
<1> DEFINE f == [i \in 1 .. Len(stream) |-> stream[i].event]
<1>1. Len(stream) \in Nat /\ DOMAIN stream = 1 .. Len(stream)
  OBVIOUS
<1>2. f \in Bijection(1 .. Len(stream), Streamed)
  BY <1>1 DEF Bijection, Injection, Surjection, IsInjective, Streamed
<1>3. ExistsBijection(1 .. Len(stream), Streamed)
  BY <1>2 DEF ExistsBijection
<1> QED
  BY <1>1, <1>3, FS_CountingElements DEF StreamedOnce

\* The Redis stream has each event at most once, however often the reporters
\* post it and the requests that carry it overlap.
THEOREM StreamsOnce == EventsSpec => []StreamedOnce
<1>1. EventsInv => StreamedOnce
  BY OnceInStream DEF EventsInv, SenderInv, SenderTypes, StreamInv
<1> QED
  BY <1>1, EventsInvariant, PTL

\* Neither the archiver's cursor nor a follower of the stream passes an event
\* that it has not read, though appends of several requests overlap.
THEOREM ReadersMissNone == EventsSpec => []ReadersMissNothing
<1>1. EventsInv => ReadersMissNothing
  BY DEF EventsInv, ReadersInv
<1> QED
  BY <1>1, EventsInvariant, PTL

LEMMA KeptOrRefused ==
  ASSUME EventsInv
  PROVE  LostOnlyByRefusal
<1> SUFFICES ASSUME NEW r \in Ranks, NEW e \in Numbered(reporter[r], r) \intersect durable
             PROVE  e \in Safe \union refused
  BY DEF LostOnlyByRefusal, Emitted, Numbered
<1>1. KeepsDurable(reporter[r], wal[r], r)
  BY DEF EventsInv, SenderInv, ReporterInv
<1>2. HeldBy(reporter[r], wal[r]) \subseteq Held
  BY DEF HeldBy, Held, Volatile
<1>3. OnTheWay \subseteq Handled
  BY DEF OnTheWay, Handled, Appending
<1>4. known \subseteq OnTheWay \union Streamed \union refused \union gone
  BY DEF EventsInv, SenderInv, StreamInv
<1> QED
  BY <1>1, <1>2, <1>3, <1>4 DEF KeepsDurable, Safe

\* An event that may not be dropped is lost only where Redis refused it or with
\* a process that died.
THEOREM OnlyRefusalLoses == EventsSpec => []LostOnlyByRefusal
<1>1. EventsInv => LostOnlyByRefusal
  BY KeptOrRefused
<1> QED
  BY <1>1, EventsInvariant, PTL
=============================================================================
