----------------------------- MODULE DataPipeline -----------------------------
(***************************************************************************)
(* Runs of the data pipeline (learning/data_pipeline.py) in one work       *)
(* directory: the lock file, and the stages from the crawl to the dataset  *)
(* version.  A stage is one step, the training two.                        *)
(*                                                                         *)
(* A file is known by the run whose crawl its content comes from, or       *)
(* "promoted" for the train split of a production run; a shard manifest is *)
(* the run that wrote it as well, since it carries the time.  What the     *)
(* stages measure and the gates decide is a choice; reports and uploads,   *)
(* which only read files and write their own, are left out.  The shards of *)
(* the crawl are module Crawl's, the steps of the training PretrainLoop's. *)
(***************************************************************************)
EXTENDS Naturals, Sequences

CONSTANTS Runs,      \* the commands given for the directory
          MaxKills   \* bound: commands killed

Nothing == "nothing"

ASSUME PipelineAssumption == MaxKills \in Nat /\ Nothing \notin Runs

VARIABLES
  production,  \* production_mode
  lockFile,    \* .pipeline.lock: its owner and whether it is over a day old
  files,       \* the last content of each file of the directory
  command,     \* each run
  ledger,      \* versions/ledger.jsonl
  overtaken,   \* history: going runs whose lock was removed by another
  kills

pipelineVars == <<production, lockFile, files, command, ledger, overtaken, kills>>

NoLock == [owner |-> Nothing, stale |-> FALSE]
NoTraining == [data |-> {}, manifest |-> Nothing]

PipelineInit ==
  /\ production \in BOOLEAN
  /\ lockFile = NoLock
  /\ files = [clean |-> Nothing, filtered |-> Nothing, training |-> Nothing,
              tokenizer |-> Nothing, shards |-> Nothing, shardsOf |-> {},
              checkpoint |-> NoTraining]
  /\ command = [r \in Runs |-> [pc |-> "new", reads |-> Nothing]]
  /\ ledger = << >>
  /\ overtaken = {}
  /\ kills = 0

CommandAt(r, pc) == command[r].pc = pc
GoesTo(r, pc) == command' = [command EXCEPT ![r].pc = pc]

-----------------------------------------------------------------------------
(* PipelineRunLock *)

\* The lock is a day old, of a run that goes on or of one that died.
Age ==
  /\ lockFile.owner # Nothing /\ lockFile' = [lockFile EXCEPT !.stale = TRUE]
  /\ UNCHANGED <<production, files, command, ledger, overtaken, kills>>

CheckLock(r) ==
  /\ CommandAt(r, "new") /\ GoesTo(r, IF lockFile.stale THEN "unlink" ELSE "create")
  /\ UNCHANGED <<production, lockFile, files, ledger, overtaken, kills>>

\* The lock is removed by r: a run that still goes on has none then.
Removed(r) ==
  /\ lockFile' = NoLock
  /\ overtaken' = overtaken \union
       {q \in Runs \ {r} : lockFile.owner = q /\ command[q].pc # "dead"}

\* Whatever lock is there now.
Unlink(r) ==
  /\ CommandAt(r, "unlink")
  /\ IF lockFile = NoLock THEN GoesTo(r, "failed") ELSE GoesTo(r, "create")
  /\ Removed(r)
  /\ UNCHANGED <<production, files, ledger, kills>>

\* Mutant: the file is opened without O_EXCL.
MayTruncate(lock) == TRUE
MayCreate(lock) == lock = NoLock

CreateLock(r) ==
  /\ CommandAt(r, "create")
  /\ IF MayCreate(lockFile)
     THEN lockFile' = [NoLock EXCEPT !.owner = r] /\ GoesTo(r, "crawl")
     ELSE GoesTo(r, "failed") /\ UNCHANGED lockFile
  /\ UNCHANGED <<production, files, ledger, overtaken, kills>>

InLock(r) == command[r].pc \notin {"new", "unlink", "create", "failed", "complete", "dead"}

\* A run's exit removes the lock file that is there, its own or not.
Leave(r, pc) ==
  /\ GoesTo(r, pc)
  /\ Removed(r)
  /\ UNCHANGED <<production, kills>>

\* A stage raised, or a gate refused.
StageFails(r) == InLock(r) /\ Leave(r, "failed") /\ UNCHANGED <<files, ledger>>

Kill(r) ==
  /\ InLock(r) /\ kills < MaxKills /\ kills' = kills + 1
  /\ GoesTo(r, "dead")
  /\ UNCHANGED <<production, lockFile, files, ledger, overtaken>>

-----------------------------------------------------------------------------
(* _run_data_pipeline_locked *)
Stage(r, pc, next) ==
  /\ CommandAt(r, pc) /\ GoesTo(r, next)
  /\ UNCHANGED <<production, lockFile, ledger, overtaken, kills>>

\* Shards of other runs are deleted first.
CrawlStage(r) == Stage(r, "crawl", "filter") /\ files' = [files EXCEPT !.clean = r]

\* License, benchmark and near-duplicate filters, and the checks after them.
FilterStage(r) ==
  Stage(r, "filter", "gate") /\ files' = [files EXCEPT !.filtered = files.clean]

\* The gate, balance and mix, or the promoted train split in production.
GateStage(r) ==
  /\ Stage(r, "gate", "tokenize")
  /\ files' = [files EXCEPT !.training = IF production THEN "promoted" ELSE files.filtered]

TokenizerStage(r) ==
  Stage(r, "tokenize", "shard") /\ files' = [files EXCEPT !.tokenizer = files.training]

ShardStage(r) ==
  /\ Stage(r, "shard", "train")
  /\ files' = [files EXCEPT !.shards = r, !.shardsOf = {files.training, files.tokenizer}]

\* Only a run that is not production may skip the training.
SkipTraining(r) == ~production /\ Stage(r, "train", "version") /\ UNCHANGED files

\* Mutant: a checkpoint of another dataset is resumed.
ResumesAny(checkpoint, manifest) == TRUE
\* expected_dataset_manifest_sha256 of load_checkpoint.
Resumes(checkpoint, manifest) ==
  checkpoint = NoTraining \/ checkpoint.manifest = manifest

StartTraining(r) ==
  /\ CommandAt(r, "train") /\ Resumes(files.checkpoint, files.shards)
  /\ command' = [command EXCEPT ![r].pc = "training", ![r].reads = files.shards]
  /\ UNCHANGED <<production, lockFile, files, ledger, overtaken, kills>>

\* A save names the manifest that is there by then.
SaveCheckpoint(r, next) ==
  /\ Stage(r, "training", next)
  /\ files' = [files EXCEPT !.checkpoint =
       [data |-> @.data \union {command[r].reads}, manifest |-> files.shards]]

\* The artifacts are hashed, and the version is of what they are now.
Publish(r) ==
  /\ CommandAt(r, "version") /\ Leave(r, "complete")
  /\ ledger' = Append(ledger, [run |-> r, files |-> files, trained |-> command[r].reads # Nothing])
  /\ UNCHANGED files

PipelineNext ==
  \/ Age
  \/ \E r \in Runs :
       \/ CheckLock(r) \/ Unlink(r) \/ CreateLock(r) \/ StageFails(r) \/ Kill(r)
       \/ CrawlStage(r) \/ FilterStage(r) \/ GateStage(r) \/ TokenizerStage(r)
       \/ ShardStage(r) \/ SkipTraining(r) \/ StartTraining(r)
       \/ \E next \in {"training", "version"} : SaveCheckpoint(r, next)
       \/ Publish(r)

PipelineSpec == PipelineInit /\ [][PipelineNext]_pipelineVars

-----------------------------------------------------------------------------
(* A version of the ledger names the files of the run that made it, and    *)
(* the checkpoint evaluated for it was trained on the version's shards     *)
(* alone, whatever runs failed or died in the directory before, unless a   *)
(* lock was taken away from a run: one of more than a day, or one of two   *)
(* that found the lock of a dead run (PipelineRunLock, load_checkpoint).   *)
VersionIsOfOneRun ==
  overtaken = {} =>
    \A n \in DOMAIN ledger :
      LET v == ledger[n] IN
      /\ v.files.clean = v.run /\ v.files.filtered = v.run /\ v.files.shards = v.run
      /\ v.files.shardsOf = {v.files.training}
      /\ v.files.training \in {v.run, "promoted"}
      /\ v.trained => v.files.checkpoint = [data |-> {v.run}, manifest |-> v.run]
=============================================================================
