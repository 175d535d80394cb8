------------------------- MODULE QualificationLadder -------------------------
(***************************************************************************)
(* The defensive qualification campaign (run_defensive_stage in            *)
(* evaluation/qualification_campaign.py): a ladder of training stages, each *)
(* behind the promotion of the one before.  A command trains its stage in  *)
(* the one directory all stages train in, compares the checkpoint it       *)
(* selects with the one the stage before selected, decides, and records    *)
(* the decision in campaign_state.json.                                    *)
(*                                                                         *)
(* Training (PretrainLoop) is counted in validations, one per position;    *)
(* the curriculum of a stage is Segment of them.  The prompt suite gives   *)
(* the model of each position a score.  The gates that look neither at the *)
(* training target, the files nor the score are one choice.  The inputs    *)
(* are the same in every command and one command runs at a time: the code  *)
(* checks the first and trusts the operator with the second.               *)
(***************************************************************************)
EXTENDS Integers, Sequences

CONSTANTS
  StageCount, Segment,  \* the ladder
  ImprovementFrom,      \* require_improvement_from_stage
  CheckpointEvery,
  Scores,
  MaxStageDeaths        \* bound: how often a command dies

ASSUME LadderAssumption ==
  /\ StageCount \in Nat \ {0} /\ Segment \in Nat \ {0}
  /\ ImprovementFrom \in Nat /\ CheckpointEvery \in Nat \ {0}
  /\ Scores \subseteq Int
  /\ MaxStageDeaths \in Nat

VARIABLES
  quality,        \* the score of the model at every position; 0: the initial checkpoint
  ladder,         \* campaign_state.json: the stage records
  stageReports,   \* the stages with a qualification_stage_report.json
  latest,         \* the last of the checkpoints in train/
  bestOfTrain,    \* train/best_checkpoint_manifest.json: its position, its hashes right
  stageRun,       \* the command
  stageDeaths

ladderVars ==
  <<quality, ladder, stageReports, latest, bestOfTrain, stageRun, stageDeaths>>

Target(s) == s * Segment
Positions == 0 .. Target(StageCount)

NoStageRun == [pc |-> "idle", stage |-> 0, at |-> 0, validated |-> FALSE]
Promoted(s) == \E k \in DOMAIN ladder : ladder[k].stage = s /\ ladder[k].promoted
Recorded(s) == \E k \in DOMAIN ladder : ladder[k].stage = s

LadderInit ==
  /\ quality \in [Positions -> Scores]
  /\ ladder = << >>
  /\ stageReports = {}
  /\ latest = 0
  /\ bestOfTrain = [at |-> 0, intact |-> FALSE]
  /\ stageRun = NoStageRun
  /\ stageDeaths = 0

\* Mutant: the stage before need only be recorded.
UnlockedByRecord(s) == s = 1 \/ Recorded(s - 1)
\* _prior_stage
Unlocked(s) == s = 1 \/ Promoted(s - 1)

\* Training goes on from the latest checkpoint, which must be before the target.
StartStage(s) ==
  /\ stageRun.pc = "idle"
  /\ Unlocked(s) /\ ~Recorded(s)
  /\ latest < Target(s)
  /\ stageRun' = [pc |-> "train", stage |-> s, at |-> latest, validated |-> FALSE]
  /\ UNCHANGED <<quality, ladder, stageReports, latest, bestOfTrain, stageDeaths>>

\* The first validation of a run is the best so far.  A periodic save at the
\* step of the best one rewrites its payload with other metrics.
TrainToValidation(better, stops) ==
  /\ stageRun.pc = "train"
  /\ LET n == stageRun.at + 1
         periodic == n % CheckpointEvery = 0 /\ ~stops IN
     /\ ~stageRun.validated => better
     /\ stops => ~better
     /\ stageRun' = [stageRun EXCEPT !.at = n, !.validated = TRUE,
          !.pc = IF stops \/ n = Target(stageRun.stage) THEN "save" ELSE "train"]
     /\ bestOfTrain' = IF better THEN [at |-> n, intact |-> ~periodic] ELSE bestOfTrain
     /\ latest' = IF better \/ periodic THEN n ELSE latest
  /\ UNCHANGED <<quality, ladder, stageReports, stageDeaths>>

\* The last save carries the metrics of a best one at the same step.
SaveFinal ==
  /\ stageRun.pc = "save"
  /\ latest' = stageRun.at
  /\ bestOfTrain' = [bestOfTrain EXCEPT !.intact = @ \/ bestOfTrain.at = stageRun.at]
  /\ stageRun' = [stageRun EXCEPT !.pc = "judge"]
  /\ UNCHANGED <<quality, ladder, stageReports, stageDeaths>>
-----------------------------------------------------------------------------
\* The checkpoint to compare with: the file the stage before recorded, which
\* is the file that every stage writes.
BaselineOf(s) == IF s = 1 THEN 0 ELSE bestOfTrain.at
ScoreDelta(s) == quality[bestOfTrain.at] - quality[BaselineOf(s)]

\* The integrity gate of evaluate_checkpoint: the files are what the manifest says.
EvaluationPasses == bestOfTrain.intact

\* Mutant: a run that stopped early may be promoted.
PassesAnywhere(s, others) ==
  /\ others /\ EvaluationPasses
  /\ ScoreDelta(s) >= 0
  /\ s >= ImprovementFrom => ScoreDelta(s) > 0
\* decide_stage
Passes(s, others) ==
  /\ others /\ EvaluationPasses
  /\ stageRun.at = Target(s)
  /\ ScoreDelta(s) >= 0
  /\ s >= ImprovementFrom => ScoreDelta(s) > 0

\* The hash of the selected manifest says which position it is of.
DecideStage(others) ==
  /\ stageRun.pc = "judge"
  /\ LET s == stageRun.stage IN
     ladder' = Append(ladder,
       [stage |-> s, promoted |-> Passes(s, others), steps |-> stageRun.at,
        selected |-> bestOfTrain.at, delta |-> ScoreDelta(s)])
  /\ stageRun' = [stageRun EXCEPT !.pc = "report"]
  /\ UNCHANGED <<quality, stageReports, latest, bestOfTrain, stageDeaths>>

WriteStageReport ==
  /\ stageRun.pc = "report"
  /\ stageReports' = stageReports \union {stageRun.stage}
  /\ stageRun' = NoStageRun
  /\ UNCHANGED <<quality, ladder, latest, bestOfTrain, stageDeaths>>

StageRunDies ==
  /\ stageRun.pc # "idle"
  /\ stageDeaths < MaxStageDeaths
  /\ stageDeaths' = stageDeaths + 1
  /\ stageRun' = NoStageRun
  /\ UNCHANGED <<quality, ladder, stageReports, latest, bestOfTrain>>

LadderNext ==
  \/ \E s \in 1 .. StageCount : StartStage(s)
  \/ \E better, stops \in BOOLEAN : TrainToValidation(better, stops)
  \/ SaveFinal
  \/ \E others \in BOOLEAN : DecideStage(others)
  \/ WriteStageReport
  \/ StageRunDies

LadderSpec == LadderInit /\ [][LadderNext]_ladderVars
-----------------------------------------------------------------------------
StageRecords ==
  [stage : 1 .. StageCount, promoted : BOOLEAN, steps : Positions,
   selected : Positions, delta : Int]

\* The types of the campaign's files and of the command.
LadderTypeOK ==
  /\ quality \in [Positions -> Scores]
  /\ ladder \in Seq(StageRecords)
  /\ stageReports \subseteq 1 .. StageCount
  /\ latest \in Positions
  /\ bestOfTrain \in [at : Positions, intact : BOOLEAN]
  /\ stageRun \in [pc : {"idle", "train", "save", "judge", "report"},
                   stage : 0 .. StageCount, at : Positions, validated : BOOLEAN]
  /\ stageDeaths \in 0 .. MaxStageDeaths

\* The recorded stages are the ladder's in order, all but the last of them
\* promoted, and a promotion is of a run that reached its target with a
\* checkpoint selected from the stage's own part of the training: stages that
\* were begun several times, died or stopped early are promoted on nothing less
\* (_prior_stage, decide_stage and the resume of run_pretraining_loop).
StagesAreEarned ==
  \A k \in DOMAIN ladder :
    /\ ladder[k].stage = k
    /\ k < Len(ladder) => ladder[k].promoted
    /\ ladder[k].promoted =>
         /\ ladder[k].steps = Target(k)
         /\ ladder[k].selected \in Target(k - 1) + 1 .. Target(k)

\* What a stage records as its improvement is the difference of its checkpoint
\* to the one that the stage before selected: "measured checkpoint improvement"
\* and the comparison before and after (run_defensive_stage, compare_checkpoints).
ImprovementIsMeasured ==
  \A k \in DOMAIN ladder :
    ladder[k].delta =
      quality[ladder[k].selected] - quality[IF k = 1 THEN 0 ELSE ladder[k - 1].selected]
=============================================================================
