------------------------ MODULE CheckpointPromotion ------------------------
(***************************************************************************)
(* The checkpoints of one training job from their upload to the pointer    *)
(* that names the released one (TrainingWorkspaceService in                *)
(* training_workspace.py): artifacts that are verified and registered,     *)
(* checkpoints that are committed from them, evaluations and promotion.    *)
(*                                                                         *)
(* A content stands for a manifest and its hash, a uri for the key under   *)
(* which a worker uploads it.  Each call of the store or of the object     *)
(* store is a step, since gateways serve several requests at a time and    *)
(* one may die between two calls.                                          *)
(***************************************************************************)
EXTENDS Naturals, FiniteSets

CONSTANTS
  Servers,         \* requests the gateways serve at a time
  Uris, Contents,
  Steps,           \* the optimizer steps at which workers save
  MinimumStep,     \* spec.promotion.minimum_step
  Evaluations,     \* evaluation ids
  Unset            \* NULL

ASSUME PromotionAssumption ==
  /\ Steps \subseteq Nat
  /\ MinimumStep \in Nat
  /\ Unset \notin Contents \union Uris \union Steps

VARIABLES
  object,      \* what the object store has under each key
  artifact,    \* training_artifacts.sha256 by uri
  checkpoint,  \* checkpoint_versions by step
  evaluation,  \* evaluation_runs by id
  latest,      \* the checkpoint that latest.json names
  server       \* the requests

promotionVars == <<object, artifact, checkpoint, evaluation, latest, server>>

NoCheckpoint == [uri |-> Unset, content |-> Unset, reload |-> FALSE, promoted |-> FALSE]
NoEvaluation == [step |-> Unset, passes |-> FALSE]
Waiting == [pc |-> "idle", uri |-> Unset, content |-> Unset, step |-> Unset, reload |-> FALSE]

PromotionInit ==
  /\ object = [u \in Uris |-> Unset]
  /\ artifact = [u \in Uris |-> Unset]
  /\ checkpoint = [s \in Steps |-> NoCheckpoint]
  /\ evaluation = [e \in Evaluations |-> NoEvaluation]
  /\ latest = Unset
  /\ server = [h \in Servers |-> Waiting]

ServerAt(h, label) == server[h].pc = label
Becomes(h, f) == server' = [server EXCEPT ![h] = f]
Proceeds(h, label) == Becomes(h, [server[h] EXCEPT !.pc = label])
Committed(s) == checkpoint[s].uri # Unset
-----------------------------------------------------------------------------
\* A worker uses a presigned URL, as often as it likes until the URL expires.
PutObject(u, c) ==
  /\ object[u] # c
  /\ object' = [object EXCEPT ![u] = c]
  /\ UNCHANGED <<artifact, checkpoint, evaluation, latest, server>>

\* verify_and_register_artifact: the stored hash is compared, then the row is
\* inserted; a row of the same uri gets the new hash.
HeadArtifact(h, u, c) ==
  /\ ServerAt(h, "idle")
  /\ object[u] = c
  /\ Becomes(h, [Waiting EXCEPT !.pc = "register", !.uri = u, !.content = c])
  /\ UNCHANGED <<object, artifact, checkpoint, evaluation, latest>>

AddTrainingArtifact(h) ==
  /\ ServerAt(h, "register")
  /\ artifact' = [artifact EXCEPT ![server[h].uri] = server[h].content]
  /\ Becomes(h, Waiting)
  /\ UNCHANGED <<object, checkpoint, evaluation, latest>>

\* commit_checkpoint: the artifacts are listed, the manifest is downloaded
\* and compared with the hash of the request, the row is inserted.
BeginCommitCheckpoint(h, u, c, s, reload) ==
  /\ ServerAt(h, "idle")
  /\ artifact[u] = c
  /\ Becomes(h, [pc |-> "verify", uri |-> u, content |-> c, step |-> s, reload |-> reload])
  /\ UNCHANGED <<object, artifact, checkpoint, evaluation, latest>>

VerifyCheckpointObjects(h) ==
  /\ ServerAt(h, "verify")
  /\ IF object[server[h].uri] = server[h].content THEN Proceeds(h, "commit") ELSE Becomes(h, Waiting)
  /\ UNCHANGED <<object, artifact, checkpoint, evaluation, latest>>

NewCheckpoint(f) ==
  [uri |-> f.uri, content |-> f.content, reload |-> f.reload, promoted |-> FALSE]

\* The row that a conflict on the step leaves: the old one.
\* Mutant: the later commit wins.
OnConflictReplace(old, new) == new
OnConflict(old, new) == old

AddCheckpoint(h) ==
  /\ ServerAt(h, "commit")
  /\ checkpoint' = [checkpoint EXCEPT ![server[h].step] =
       IF Committed(server[h].step) THEN OnConflict(@, NewCheckpoint(server[h]))
       ELSE NewCheckpoint(server[h])]
  /\ Becomes(h, Waiting)
  /\ UNCHANGED <<object, artifact, evaluation, latest>>

\* commit_evaluation: of a checkpoint that exists; what it reads before the
\* insert never changes afterwards.
CommitEvaluation(e, s, passes) ==
  /\ evaluation[e] = NoEvaluation
  /\ Committed(s)
  /\ evaluation' = [evaluation EXCEPT ![e] = [step |-> s, passes |-> passes]]
  /\ UNCHANGED <<object, artifact, checkpoint, latest, server>>

\* promote_checkpoint: the checks, the flag, the pointer.
\* Mutant: any passing evaluation of the job counts.
PassingEvaluationsOfJob(s) == {e \in Evaluations : evaluation[e].passes}
PassingEvaluations(s) == {e \in Evaluations : evaluation[e].passes /\ evaluation[e].step = s}

BeginPromote(h, s) ==
  /\ ServerAt(h, "idle")
  /\ Committed(s)
  /\ s >= MinimumStep
  /\ checkpoint[s].reload
  /\ PassingEvaluations(s) # {}
  /\ Becomes(h, [Waiting EXCEPT !.pc = "mark", !.step = s])
  /\ UNCHANGED <<object, artifact, checkpoint, evaluation, latest>>

MarkPromoted(h) ==
  /\ ServerAt(h, "mark")
  /\ checkpoint' = [checkpoint EXCEPT ![server[h].step].promoted = TRUE]
  /\ Proceeds(h, "point")
  /\ UNCHANGED <<object, artifact, evaluation, latest>>

PutLatest(h) ==
  /\ ServerAt(h, "point")
  /\ latest' = server[h].step
  /\ Becomes(h, Waiting)
  /\ UNCHANGED <<object, artifact, checkpoint, evaluation>>

\* The gateway dies, or a call of a store raises.
ServerFails(h) ==
  /\ ~ServerAt(h, "idle")
  /\ Becomes(h, Waiting)
  /\ UNCHANGED <<object, artifact, checkpoint, evaluation, latest>>

PromotionNext ==
  \/ \E u \in Uris, c \in Contents : PutObject(u, c)
  \/ \E e \in Evaluations, s \in Steps, passes \in BOOLEAN : CommitEvaluation(e, s, passes)
  \/ \E h \in Servers :
       \/ \E u \in Uris, c \in Contents : HeadArtifact(h, u, c)
       \/ AddTrainingArtifact(h)
       \/ \E u \in Uris, c \in Contents, s \in Steps, reload \in BOOLEAN :
            BeginCommitCheckpoint(h, u, c, s, reload)
       \/ VerifyCheckpointObjects(h) \/ AddCheckpoint(h)
       \/ \E s \in Steps : BeginPromote(h, s)
       \/ MarkPromoted(h) \/ PutLatest(h) \/ ServerFails(h)

PromotionSpec == PromotionInit /\ [][PromotionNext]_promotionVars
-----------------------------------------------------------------------------
(* Properties. *)

Proven(s) ==
  /\ checkpoint[s].reload
  /\ s >= MinimumStep
  /\ \E e \in Evaluations : evaluation[e] = [step |-> s, passes |-> TRUE]

\* What is promoted is proven: it reloads, it is late enough and an evaluation
\* of this very checkpoint passed.  And latest.json never names a checkpoint
\* whose promotion is not recorded, wherever the gateway dies and however two
\* promotions interleave.
ReleasedIsProven ==
  /\ \A s \in Steps : checkpoint[s].promoted => Proven(s)
  /\ latest # Unset => checkpoint[latest].promoted

\* What is committed at a step stays, also when a worker that was given up
\* commits the step again from another upload: an evaluation and a promotion
\* are of the manifest they looked at.
CheckpointIsImmutable ==
  [][\A s \in Steps : Committed(s) =>
       /\ [checkpoint'[s] EXCEPT !.promoted = FALSE] = [checkpoint[s] EXCEPT !.promoted = FALSE]
       /\ checkpoint[s].promoted => checkpoint'[s].promoted]_promotionVars
=============================================================================
