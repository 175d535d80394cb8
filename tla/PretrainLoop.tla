---------------------------- MODULE PretrainLoop ----------------------------
(***************************************************************************)
(* The pretraining loop (run_pretraining_loop in model_ops/pretrain_loop.py)*)
(* over the stream of rank-partitioned batches (TokenShardStream in        *)
(* model_ops/data_loader.py): optimizer steps, validation and early        *)
(* stopping, the checkpoints in the output directory and their manifests,  *)
(* the death of the process at any point and its restart from the latest   *)
(* checkpoint.                                                             *)
(*                                                                         *)
(* The ranks of a run step together, so one process stands for all of      *)
(* them.  A model is the sequence of its optimizer updates and an update   *)
(* the set of the batches it was made of; a batch is named by its epoch    *)
(* and its place in the stream before it is dealt to the ranks.  The same  *)
(* seeds, profile, shards and tokenizer are given to every start: the      *)
(* checks that compare those never fail here.  DeepSpeed saves through its *)
(* own engine and an initial checkpoint is not given.                      *)
(***************************************************************************)
EXTENDS Naturals, Sequences, FiniteSetsExt

CONSTANTS
  Plans,          \* the arguments a run may have
  MaxTrainerDeaths \* bound: how often the process dies

ASSUME PretrainAssumption ==
  /\ Plans \subseteq
       [strategy : {"none", "fsdp"},
        worlds : SUBSET (Nat \ {0}),  \* the world sizes it is started with
        steps : Nat \ {0}, accumulation : Nat \ {0},
        batches : Nat \ {0},          \* available_batches_per_rank, of one rank per world
        validate : Nat, checkpoint : Nat, patience : Nat,
        losses : SUBSET (Nat \ {0})]
  /\ MaxTrainerDeaths \in Nat

VARIABLES
  plan,
  checkpoints,    \* the directories checkpoint-step-<n>
  bestManifest,   \* best_checkpoint_manifest.json
  lastManifest,   \* checkpoint_manifest.json
  trainer,        \* the process
  publication,    \* the checkpoints committed to the workspace
  trainerDeaths

pretrainVars ==
  <<plan, checkpoints, bestManifest, lastManifest, trainer, publication, trainerDeaths>>

\* metrics: the validation losses the payload carries; 0 for a missing one.
Absent == [state |-> "absent", updates |-> <<>>, world |-> 0, metrics |-> <<0, 0>>]
Torn == [Absent EXCEPT !.state = "torn"]

\* The digests of a manifest's files are the content they were taken of.
NoManifest == [step |-> 0, files |-> Absent]

NoTrainer ==
  [pc |-> "down", world |-> 1, updates |-> <<>>, epoch |-> 0, offset |-> 0,
   loss |-> 0, best |-> 0, unimproved |-> 0, stopped |-> FALSE, saving |-> "final"]

PretrainInit ==
  /\ plan \in Plans
  /\ checkpoints = [n \in 1 .. plan.steps |-> Absent]
  /\ bestManifest = NoManifest /\ lastManifest = NoManifest
  /\ trainer = NoTrainer
  /\ publication = {}
  /\ trainerDeaths = 0

CompletedSteps == Len(trainer.updates)
TrainerAt(label) == trainer.pc = label
Now(label) == [trainer EXCEPT !.pc = label]
-----------------------------------------------------------------------------
(* Start and resume. *)

\* latest_checkpoint: a directory counts as soon as its model.pt exists.
Found == {n \in DOMAIN checkpoints : checkpoints[n].state # "absent"}

\* _validate_checkpoint_training_invariants on every rank: the world and the
\* rank that wrote the trainer state, which is rank 0: no other rank passes.
ContractHolds(c, w) == c.world = w /\ \A r \in 0 .. w - 1 : r = 0
Loads(c, w) == c.state = "whole" /\ ContractHolds(c, w)

\* The cursor that the resumed stream starts at.
\* Mutant: the stream starts over.
CursorAtZero(n, w) == [epoch |-> 0, offset |-> 0]
Cursor(n, w) ==
  [epoch |-> (n * plan.accumulation) \div plan.batches,
   offset |-> (n * plan.accumulation) % plan.batches]

\* A world of several ranks cannot save without a sharding strategy.
StartTrainer(w) ==
  /\ TrainerAt("down")
  /\ LET n == IF Found = {} THEN 0 ELSE Max(Found)
         refused == n # 0 /\ (~Loads(checkpoints[n], w) \/ n >= plan.steps) IN
     trainer' =
       IF refused THEN [NoTrainer EXCEPT !.pc = "refused", !.world = w]
       ELSE [NoTrainer EXCEPT !.pc = "train", !.world = w,
               !.updates = IF n = 0 THEN <<>> ELSE checkpoints[n].updates,
               !.epoch = Cursor(n, w).epoch, !.offset = Cursor(n, w).offset]
  /\ UNCHANGED <<plan, checkpoints, bestManifest, lastManifest, publication, trainerDeaths>>
-----------------------------------------------------------------------------
(* The loop. *)

\* next_training_batch: the place that is read when the iterator is at
\* <<e, o>>; an exhausted epoch is followed by the next.
Place(e, o) == IF o < plan.batches THEN <<e, o>> ELSE <<e + 1, 0>>
Places ==
  LET read[k \in 1 .. plan.accumulation] ==
        IF k = 1 THEN Place(trainer.epoch, trainer.offset)
        ELSE Place(read[k - 1][1], read[k - 1][2] + 1)
  IN read

\* TokenShardStream._batches: of every group of as many batches as there are
\* ranks, each rank takes its own.
Dealt(place) ==
  {<<place[1], place[2] * trainer.world + r>> : r \in 0 .. trainer.world - 1}

Due(every, n) == every > 0 /\ n % every = 0

\* What follows a step, its validation and its saves.
AfterSaves(n) == IF n < plan.steps THEN "train" ELSE "save_final"
AfterValidation(n) == IF Due(plan.checkpoint, n) THEN "save_periodic" ELSE AfterSaves(n)

TrainStep ==
  /\ TrainerAt("train")
  /\ LET n == CompletedSteps + 1
         last == Places[plan.accumulation] IN
     trainer' = [trainer EXCEPT
       !.updates = Append(@, UNION {Dealt(Places[k]) : k \in 1 .. plan.accumulation}),
       !.epoch = last[1], !.offset = last[2] + 1,
       !.pc = IF Due(plan.validate, n) THEN "validate" ELSE AfterValidation(n)]
  /\ UNCHANGED <<plan, checkpoints, bestManifest, lastManifest, publication, trainerDeaths>>

\* best_val_loss is infinite at every start.
ValidateModel(loss) ==
  /\ TrainerAt("validate")
  /\ LET better == trainer.best = 0 \/ loss < trainer.best
         stops == plan.patience > 0 /\ trainer.unimproved + 1 >= plan.patience IN
     trainer' = [trainer EXCEPT
       !.loss = loss,
       !.best = IF better THEN loss ELSE @,
       !.unimproved = IF better THEN 0 ELSE @ + 1,
       !.stopped = ~better /\ stops,
       !.pc = CASE better -> "save_best"
                [] ~better /\ stops -> "save_final"
                [] OTHER -> AfterValidation(CompletedSteps)]
  /\ UNCHANGED <<plan, checkpoints, bestManifest, lastManifest, publication, trainerDeaths>>
-----------------------------------------------------------------------------
(* save_training_checkpoint. *)

\* The metrics that each of the saves is given.
Metrics(kind) ==
  CASE kind = "best"     -> <<trainer.loss, trainer.best>>
    [] kind = "periodic" -> <<trainer.loss, 0>>
    [] OTHER             -> <<trainer.loss, trainer.best>>

\* One process writes model.pt in place.  The ranks of fsdp write beside it
\* and remove a directory of the same step first.
BeginSave(kind) ==
  /\ TrainerAt([best |-> "save_best", periodic |-> "save_periodic", final |-> "save_final",
                best_final |-> "save_best_final"][kind])
  /\ trainer' = [Now("write") EXCEPT !.saving = kind]
  /\ checkpoints' = [checkpoints EXCEPT
       ![CompletedSteps] = IF plan.strategy = "fsdp" THEN Absent ELSE Torn]
  /\ UNCHANGED <<plan, bestManifest, lastManifest, publication, trainerDeaths>>

WriteCheckpoint ==
  /\ TrainerAt("write")
  /\ trainer' = Now("manifest")
  /\ checkpoints' = [checkpoints EXCEPT
       ![CompletedSteps] = [state |-> "whole", updates |-> trainer.updates,
                            world |-> trainer.world, metrics |-> Metrics(trainer.saving)]]
  /\ UNCHANGED <<plan, bestManifest, lastManifest, publication, trainerDeaths>>

\* A run in which no validation was better takes its final checkpoint for best.
AfterManifest ==
  CASE trainer.saving = "best"     -> AfterValidation(CompletedSteps)
    [] trainer.saving = "periodic" -> AfterSaves(CompletedSteps)
    [] trainer.saving = "final"    -> IF trainer.best = 0 THEN "save_best_final" ELSE "reload"
    [] OTHER                       -> "reload"

WriteManifest ==
  /\ TrainerAt("manifest")
  /\ LET manifest == [step |-> CompletedSteps, files |-> checkpoints[CompletedSteps]] IN
     IF trainer.saving \in {"best", "best_final"}
     THEN bestManifest' = manifest /\ UNCHANGED lastManifest
     ELSE lastManifest' = manifest /\ UNCHANGED bestManifest
  /\ trainer' = Now(AfterManifest)
  /\ UNCHANGED <<plan, checkpoints, publication, trainerDeaths>>
-----------------------------------------------------------------------------
(* The end of a run. *)

\* The latest checkpoint is loaded again on every rank and compared.
ReloadCheckpoint ==
  /\ TrainerAt("reload")
  /\ LET c == checkpoints[Max(Found)] IN
     trainer' = Now(IF Loads(c, trainer.world) /\ c.updates = trainer.updates
                    THEN "publish" ELSE "refused")
  /\ UNCHANGED <<plan, checkpoints, bestManifest, lastManifest, publication, trainerDeaths>>

\* Every file must have the digest that the manifest gives it; module
\* CheckpointPromotion has the workspace's side.
PublishCheckpoint ==
  /\ TrainerAt("publish")
  /\ IF checkpoints[lastManifest.step] = lastManifest.files
     THEN publication' = publication \union {lastManifest} /\ trainer' = Now("report")
     ELSE trainer' = Now("refused") /\ UNCHANGED publication
  /\ UNCHANGED <<plan, checkpoints, bestManifest, lastManifest, trainerDeaths>>

WriteReport ==
  /\ TrainerAt("report")
  /\ trainer' = Now("done")
  /\ UNCHANGED <<plan, checkpoints, bestManifest, lastManifest, publication, trainerDeaths>>

\* Killed, or ended by a loss that is not finite, a failed write or upload.
TrainerDies ==
  /\ ~(trainer.pc \in {"down", "refused", "done"})
  /\ trainerDeaths < MaxTrainerDeaths
  /\ trainerDeaths' = trainerDeaths + 1
  /\ trainer' = NoTrainer
  /\ UNCHANGED <<plan, checkpoints, bestManifest, lastManifest, publication>>

PretrainNext ==
  \/ \E w \in plan.worlds : StartTrainer(w)
  \/ TrainStep
  \/ \E loss \in plan.losses : ValidateModel(loss)
  \/ \E kind \in {"best", "periodic", "final", "best_final"} : BeginSave(kind)
  \/ WriteCheckpoint \/ WriteManifest
  \/ ReloadCheckpoint \/ PublishCheckpoint \/ WriteReport
  \/ TrainerDies

PretrainSpec == PretrainInit /\ [][PretrainNext]_pretrainVars
-----------------------------------------------------------------------------
(* Properties. *)

\* The updates of n uninterrupted steps of a world of w ranks: step s takes
\* the next micro-batches of every rank, epoch after epoch.
Uninterrupted(n, w) ==
  [s \in 1 .. n |->
     {<<m \div plan.batches, (m % plan.batches) * w + r>> :
        m \in (s - 1) * plan.accumulation .. s * plan.accumulation - 1, r \in 0 .. w - 1}]

\* However often the run died and was restarted, on whatever world it was
\* tried, what is being trained, every whole checkpoint and every published
\* one are those of an uninterrupted run: no batch is skipped, taken twice or
\* dealt to two ranks.
ResumeIsExact ==
  /\ trainer.updates = Uninterrupted(CompletedSteps, trainer.world)
  /\ \A n \in DOMAIN checkpoints : checkpoints[n].state = "whole"
       => checkpoints[n].updates = Uninterrupted(n, checkpoints[n].world)
  /\ \A p \in publication : p.files.updates = Uninterrupted(p.step, p.files.world)
=============================================================================
