----------------------------- MODULE VectorSync -----------------------------
(***************************************************************************)
(* The delivery of committed index revisions to the vector index: the rows *)
(* of rag_outbox_events (db/local_store.py), the workers that claim them   *)
(* (RAGIndexCoordinator.execute_claimed_outbox) and what a synchronisation *)
(* does to the points of the Qdrant collection, call by call               *)
(* (QdrantVectorIndex.sync_project in indexing/vector_index.py).           *)
(*                                                                         *)
(* Revisions are numbered in the order they commit; the last one is the    *)
(* active one.  A chunk's identity contains the hash of its content and a  *)
(* point's identity is its chunk's (_point_id drops the revision), so the  *)
(* revisions that share a chunk share its point, and points[c] is the      *)
(* revision_id of its payload.  The pages of a scroll are one read.        *)
(***************************************************************************)
EXTENDS Naturals, FiniteSets

CONSTANTS
  Chunks,       \* the chunks of all revisions
  LastRevision, \* bound: the last revision that any deployment commits
  ChunksOf,     \* the chunks of each revision
  Workers,      \* worker ids; a supervisor restarts a worker under its id
  MaxAttempts,  \* rag_outbox_events.max_attempts
  Deployments,  \* bounds: the workers that run, the revisions that are
                \* committed and the workers that die together
  None          \* NULL

Revisions == 1 .. LastRevision

ASSUME VectorAssumption ==
  /\ LastRevision \in Nat \ {0}
  /\ ChunksOf \in [Revisions -> SUBSET Chunks]
  /\ IsFiniteSet(Workers)
  /\ MaxAttempts \in Nat \ {0}
  /\ Deployments \subseteq [workers : SUBSET Workers, revisions : Revisions, crashes : Nat]
  /\ None \notin Workers

VARIABLES
  deployed, \* the deployment
  active,   \* projects.active_index_revision; 0 before the first commit
  event,    \* rag_outbox_events.status; "absent" before the commit
  attempt,  \* rag_outbox_events.attempt
  owner,    \* rag_outbox_events.lease_owner
  lapsed,   \* the events whose lease_expires_at has passed
  points,   \* the revision_id in each point's payload; 0 for no point
  frame,    \* what each worker is doing
  crashes

outbox == <<event, attempt, owner, lapsed>>
vars == <<deployed, active, outbox, points, frame, crashes>>

Label == {"idle", "check", "list", "scroll", "upsert", "relabel", "delete",
          "complete", "fail", "down"}

\* missing: the chunks still to be upserted; reused: those whose point was
\* there; stale: the points that are to go.
Frame == [pc : Label, rev : 0 .. LastRevision, missing : SUBSET Chunks,
          reused : SUBSET Chunks, stale : SUBSET Chunks]

NoFrame(label) ==
  [pc |-> label, rev |-> 0, missing |-> {}, reused |-> {}, stale |-> {}]

At(w, label) == frame[w].pc = label
Enter(w, f) == frame' = [frame EXCEPT ![w] = f]
Goto(w, label) == Enter(w, [frame[w] EXCEPT !.pc = label])
Syncing(w) == frame[w].pc \notin {"idle", "down"}

Init ==
  /\ deployed \in Deployments
  /\ active = 0
  /\ event = [r \in Revisions |-> "absent"]
  /\ attempt = [r \in Revisions |-> 0]
  /\ owner = [r \in Revisions |-> None]
  /\ lapsed = {}
  /\ points = [c \in Chunks |-> 0]
  /\ frame = [w \in Workers |-> NoFrame("idle")]
  /\ crashes = 0
-----------------------------------------------------------------------------
(* The store. *)

\* The commit of an index revision replaces the chunks and the pointer and
\* inserts the event, in one transaction (module IndexJobs has the rest).
CommitIndexRevision ==
  /\ active < deployed.revisions
  /\ active' = active + 1
  /\ event' = [event EXCEPT ![active + 1] = "pending"]
  /\ UNCHANGED <<deployed, attempt, owner, lapsed, points, frame, crashes>>

\* Retry delays let any claimable event be the first.
\* Mutant: the bound on the attempts is dropped.
ClaimableForever(r) ==
  event[r] = "pending" \/ (event[r] = "delivering" /\ r \in lapsed)
Claimable(r) ==
  /\ event[r] = "pending" \/ (event[r] = "delivering" /\ r \in lapsed)
  /\ attempt[r] < MaxAttempts

ClaimRagOutbox(w, r) ==
  /\ At(w, "idle")
  /\ Claimable(r)
  /\ event' = [event EXCEPT ![r] = "delivering"]
  /\ attempt' = [attempt EXCEPT ![r] = @ + 1]
  /\ owner' = [owner EXCEPT ![r] = w]
  /\ lapsed' = lapsed \ {r}
  /\ Enter(w, [NoFrame("check") EXCEPT !.rev = r])
  /\ UNCHANGED <<deployed, active, points, crashes>>

\* The row is found by its owner alone; every other write clears the owner.
\* Mutants: the row is found by its id; the budget is off by one.
FoundToFailById(w) == TRUE
FoundToFail(w) == owner[frame[w].rev] = w
FailedStatusLate(r) == IF attempt[r] > MaxAttempts THEN "dead_letter" ELSE "pending"
FailedStatus(r) == IF attempt[r] >= MaxAttempts THEN "dead_letter" ELSE "pending"

Release(r, s) ==
  /\ event' = [event EXCEPT ![r] = s]
  /\ owner' = [owner EXCEPT ![r] = None]
  /\ lapsed' = lapsed \ {r}
  /\ UNCHANGED attempt

\* A lease that was lost raises out of the worker's loop and ends it.
FailRagOutbox(w) ==
  /\ At(w, "fail")
  /\ IF FoundToFail(w)
     THEN Release(frame[w].rev, FailedStatus(frame[w].rev)) /\ Enter(w, NoFrame("idle"))
     ELSE UNCHANGED outbox /\ Enter(w, NoFrame("down"))
  /\ UNCHANGED <<deployed, active, points, crashes>>

CompleteRagOutbox(w) ==
  /\ At(w, "complete")
  /\ IF event[frame[w].rev] = "delivering" /\ owner[frame[w].rev] = w
     THEN Release(frame[w].rev, "delivered") /\ Enter(w, NoFrame("idle"))
     ELSE UNCHANGED outbox /\ Goto(w, "fail")
  /\ UNCHANGED <<deployed, active, points, crashes>>
-----------------------------------------------------------------------------
(* sync_project: one step per call of the store or of Qdrant. *)

CheckActive(w) ==
  /\ At(w, "check")
  /\ Goto(w, IF frame[w].rev = active THEN "list" ELSE "fail")
  /\ UNCHANGED <<deployed, active, outbox, points, crashes>>

\* Another revision may have been committed since: its chunks are refused.
\* Mutant: the chunks are not compared with the revision.
ChunksRefusedNever(w) == FALSE
ChunksRefused(w) == ChunksOf[active] # {} /\ frame[w].rev # active

ListChunks(w) ==
  /\ At(w, "list")
  /\ Enter(w, IF ChunksRefused(w) THEN [frame[w] EXCEPT !.pc = "fail"]
              ELSE [frame[w] EXCEPT !.pc = "scroll", !.missing = ChunksOf[active]])
  /\ UNCHANGED <<deployed, active, outbox, points, crashes>>

Scroll(w) ==
  /\ At(w, "scroll")
  /\ LET existing == {c \in Chunks : points[c] # 0} IN
     Enter(w, [frame[w] EXCEPT !.pc = "upsert",
                               !.missing = frame[w].missing \ existing,
                               !.reused = frame[w].missing \intersect existing,
                               !.stale = existing \ frame[w].missing])
  /\ UNCHANGED <<deployed, active, outbox, points, crashes>>

\* A batch of the chunks that had no point: embedded and upserted.
Upsert(w) ==
  /\ At(w, "upsert")
  /\ IF frame[w].missing = {}
     THEN Goto(w, "relabel") /\ UNCHANGED points
     ELSE \E c \in frame[w].missing :
            /\ points' = [points EXCEPT ![c] = frame[w].rev]
            /\ Enter(w, [frame[w] EXCEPT !.missing = @ \ {c}])
  /\ UNCHANGED <<deployed, active, outbox, crashes>>

\* The revision of the reused points is set; a point that was deleted since
\* stays deleted.  Mutant: the reused points keep their old revision.
RelabelledNever(w) == points
Relabelled(w) ==
  [c \in Chunks |-> IF c \in frame[w].reused /\ points[c] # 0 THEN frame[w].rev ELSE points[c]]

Relabel(w) ==
  /\ At(w, "relabel")
  /\ points' = Relabelled(w)
  /\ Goto(w, "delete")
  /\ UNCHANGED <<deployed, active, outbox, crashes>>

DeleteStale(w) ==
  /\ At(w, "delete")
  /\ points' = [c \in Chunks |-> IF c \in frame[w].stale THEN 0 ELSE points[c]]
  /\ Goto(w, "complete")
  /\ UNCHANGED <<deployed, active, outbox, crashes>>

\* The embedding service, Qdrant or the alias raises.
SyncRaises(w) ==
  /\ frame[w].pc \in {"scroll", "upsert", "relabel", "delete", "complete"}
  /\ Goto(w, "fail")
  /\ UNCHANGED <<deployed, active, outbox, points, crashes>>

Execute(w) ==
  \/ CheckActive(w) \/ ListChunks(w) \/ Scroll(w) \/ Upsert(w) \/ Relabel(w)
  \/ DeleteStale(w) \/ SyncRaises(w) \/ CompleteRagOutbox(w) \/ FailRagOutbox(w)
-----------------------------------------------------------------------------
\* No heartbeat extends the lease of an event.
LeaseLapses(r) ==
  /\ owner[r] # None
  /\ r \notin lapsed
  /\ lapsed' = lapsed \union {r}
  /\ UNCHANGED <<deployed, active, event, attempt, owner, points, frame, crashes>>

Crash(w) ==
  /\ ~At(w, "down")
  /\ crashes < deployed.crashes
  /\ crashes' = crashes + 1
  /\ Enter(w, NoFrame("down"))
  /\ UNCHANGED <<deployed, active, outbox, points>>

Restart(w) ==
  /\ At(w, "down")
  /\ Enter(w, NoFrame("idle"))
  /\ UNCHANGED <<deployed, active, outbox, points, crashes>>

Next ==
  \/ CommitIndexRevision
  \/ \E w \in deployed.workers :
       Execute(w) \/ Crash(w) \/ Restart(w) \/ \E r \in Revisions : ClaimRagOutbox(w, r)
  \/ \E r \in Revisions : LeaseLapses(r)

Spec == Init /\ [][Next]_vars

\* Workers poll, finish what they claimed and are restarted, and time passes.
Fairness ==
  /\ \A w \in Workers :
       /\ WF_vars(Execute(w))
       /\ WF_vars(Restart(w))
       /\ WF_vars(w \in deployed.workers /\ \E r \in Revisions : ClaimRagOutbox(w, r))
  /\ \A r \in Revisions : WF_vars(LeaseLapses(r))
FairSpec == Spec /\ Fairness
-----------------------------------------------------------------------------
(* Properties. *)

\* Every variable has its type; an event is never claimed more often than
\* max_attempts.
TypeOK ==
  /\ deployed \in Deployments
  /\ active \in 0 .. LastRevision
  /\ event \in [Revisions -> {"absent", "pending", "delivering", "delivered", "dead_letter"}]
  /\ attempt \in [Revisions -> 0 .. MaxAttempts]
  /\ owner \in [Revisions -> Workers \union {None}]
  /\ lapsed \in SUBSET Revisions
  /\ points \in [Chunks -> 0 .. LastRevision]
  /\ frame \in [Workers -> Frame]
  /\ crashes \in Nat

\* A point that carries a revision is a chunk of that revision, even when a
\* commit comes between the reads of the pointer and of the chunks: a filter
\* by revision never yields a chunk of another.
LabelsAreTrue == \A c \in Chunks : points[c] # 0 => c \in ChunksOf[points[c]]

\* An event that was delivered stays delivered, whatever a worker whose lease
\* lapsed does when it is late.
DeliveryIsFinal ==
  [][\A r \in Revisions : event[r] = "delivered" => event'[r] = "delivered"]_vars

\* Where one worker synchronises at a time: once the active revision is
\* delivered and no synchronisation is under way, the points that carry it are
\* exactly its chunks, so that semantic search finds all of the active revision.
\* With two workers the late one relabels or deletes points of the other.
DeliveredIsSearchable ==
  Cardinality(deployed.workers) = 1 /\ active # 0 /\ event[active] = "delivered" /\ (\A w \in Workers : ~Syncing(w))
    => {c \in Chunks : points[c] = active} = ChunksOf[active]

\* While no worker dies, every event is delivered or given up.
EventsSettle ==
  deployed.crashes = 0 =>
  \A r \in Revisions : event[r] = "pending" ~> event[r] \in {"delivered", "dead_letter"}
=============================================================================
