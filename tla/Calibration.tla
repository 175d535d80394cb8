----------------------------- MODULE Calibration -----------------------------
(***************************************************************************)
(* The calibration ladder (learning/calibration_gate.py) on the review     *)
(* records of DatasetReview: a stage samples records for review, it is     *)
(* finalized once they are reviewed, and a passed decision lets the next   *)
(* stage begin, a dataset be built and the dataset be promoted.            *)
(*                                                                         *)
(* Finalizing reads the SQLite authority record by record and table by     *)
(* table, without a transaction, while reviewers go on.  A validation is   *)
(* one step.  The governance files (sources, legal evidence, roster,       *)
(* policy, benchmarks) are one number that a change increases; crawled     *)
(* rows are immutable, so the checks on them and the thresholds are one    *)
(* choice; development runs, which authorize nothing, are left out.        *)
(***************************************************************************)
EXTENDS DatasetReview, Sequences

CONSTANTS MaxGovernance,     \* bound: changes of the governance files
          MaxCalibrations,   \* bound: stages run
          MaxFinalizations   \* bound: finalize commands, between all

VARIABLES
  governance,
  calibrations,   \* the work directories: manifest and decision file
  finalizer,      \* the finalize command that is running
  finalizations,
  datasets        \* versions built on a decision, with what became of them

calibrationVars == <<governance, calibrations, finalizer, finalizations, datasets>>

NoDecision == [status |-> "none", stamp |-> 0, evidence |-> << >>]
NoFinalizer == [pc |-> "idle", of |-> 0, todo |-> {}, pending |-> {}, checks |-> FALSE,
         evidence |-> << >>, item |-> << >>]

CalibrationInit ==
  /\ governance = 0
  /\ calibrations = << >>
  /\ finalizer = NoFinalizer
  /\ finalizations = 0
  /\ datasets = << >>

Evidence(status, given, adjudicated) ==
  [status |-> status, votes |-> given, adjudication |-> adjudicated]

\* _authority_evidence of one bound record as it is now.
CurrentEvidence(bound) ==
  [i \in bound |-> Evidence(review[i].status, votes[i], adjudication[i])]

Paired(given) == \E r, q \in Reviewers : r # q /\ given[r] # "none" /\ given[q] # "none"

\* Mutant: without pending == 0.
SampleIsPaired(evidence) == \A i \in DOMAIN evidence : Paired(evidence[i].votes)
\* all_sample_records_have_two_reviews: paired == sample_count and pending == 0
SampleReviewed(evidence) ==
  \A i \in DOMAIN evidence :
    Paired(evidence[i].votes) /\ evidence[i].status \in Judged

\* validate_advancement_decision without the chain to the stage before.
Replays(c) ==
  /\ c.decision.status = "passed"
  /\ c.governance = governance
  /\ SampleReviewed(CurrentEvidence(c.bound))
  /\ CurrentEvidence(c.bound) = c.decision.evidence

\* The manifest holds the hash of the decision it was begun on.
PriorHolds(c) ==
  c.prior # 0 => /\ calibrations[c.prior].decision.stamp = c.priorStamp
                 /\ Replays(calibrations[c.prior])

Advances(c, stage) == c.stage = stage /\ Replays(c) /\ PriorHolds(c)

\* run_calibration: a fresh directory each time, the samples enqueued for two
\* reviews, the records enqueued before kept as they are.
RunCalibration(stage, bound, prior) ==
  /\ backend = "sqlite"
  /\ Len(calibrations) < MaxCalibrations
  /\ IF stage = "calibration_200" THEN prior = 0
     ELSE prior \in DOMAIN calibrations /\ Advances(calibrations[prior], "calibration_200")
  /\ review' = [i \in Items |->
       IF i \in bound /\ review[i].status = "absent" THEN Review("pending", TRUE)
       ELSE review[i]]
  /\ calibrations' = Append(calibrations,
       [stage |-> stage, bound |-> bound, governance |-> governance, prior |-> prior,
        priorStamp |-> IF prior = 0 THEN 0 ELSE calibrations[prior].decision.stamp,
        decision |-> NoDecision])
  /\ UNCHANGED <<backend, assignments, votes, adjudication, seen, governance, finalizer,
                 finalizations, datasets>>

\* finalize_calibration up to the review records.
BeginFinalize(n) ==
  LET c == calibrations[n]
  IN  /\ finalizer.pc = "idle" /\ finalizations < MaxFinalizations
      /\ finalizations' = finalizations + 1
      /\ finalizer' = [NoFinalizer EXCEPT
           !.pc = "first", !.of = n, !.todo = c.bound,
           !.checks = c.governance = governance /\ PriorHolds(c)]
      /\ UNCHANGED <<reviewVars, governance, calibrations, datasets>>

\* Its first reading, which tells a blocked calibration from a failed one.
FirstReading ==
  /\ finalizer.pc = "first"
  /\ \E i \in finalizer.todo :
       LET rest == finalizer.todo \ {i}
           unsettled == IF review[i].status \in Judged THEN {} ELSE {i}
       IN  finalizer' = [finalizer EXCEPT
             !.pending = @ \union unsettled,
             !.pc = IF rest = {} THEN "item" ELSE @,
             !.todo = IF rest = {} THEN calibrations[finalizer.of].bound ELSE rest]
  /\ UNCHANGED <<reviewVars, governance, calibrations, finalizations, datasets>>

\* The replay reads the row of an item, then its decisions, then the
\* adjudication; all that counts is what the replay reads.
ReadItem ==
  /\ finalizer.pc = "item"
  /\ \E i \in finalizer.todo :
       finalizer' = [finalizer EXCEPT
         !.pc = "decisions", !.item = <<i, Evidence(review[i].status, << >>, "none")>>]
  /\ UNCHANGED <<reviewVars, governance, calibrations, finalizations, datasets>>

ReadDecisions ==
  /\ finalizer.pc = "decisions"
  /\ finalizer' = [finalizer EXCEPT
       !.pc = "adjudication", !.item[2].votes = votes[finalizer.item[1]]]
  /\ UNCHANGED <<reviewVars, governance, calibrations, finalizations, datasets>>

ReadAdjudication ==
  /\ finalizer.pc = "adjudication"
  /\ LET i == finalizer.item[1]
         read == [finalizer.item[2] EXCEPT !.adjudication = adjudication[i]]
         rest == finalizer.todo \ {i}
     IN  finalizer' = [finalizer EXCEPT
           !.evidence = [j \in DOMAIN @ \union {i} |-> IF j = i THEN read ELSE @[j]],
           !.todo = rest, !.item = << >>,
           !.pc = IF rest = {} THEN "decide" ELSE "item"]
  /\ UNCHANGED <<reviewVars, governance, calibrations, finalizations, datasets>>

\* checks.update(replay_checks): the replay's answer replaces the first one's.
GatePasses(checks, evidence) == checks /\ SampleReviewed(evidence)

\* The file is replaced; its time makes its hash another one.
WriteDecision ==
  /\ finalizer.pc = "decide"
  /\ \E thresholds \in BOOLEAN :
       LET passed == thresholds /\ GatePasses(finalizer.checks, finalizer.evidence)
           status == IF passed THEN "passed"
                     ELSE IF finalizer.pending # {} THEN "blocked" ELSE "failed"
       IN  calibrations' = [calibrations EXCEPT ![finalizer.of].decision =
             [status |-> status, stamp |-> @.stamp + 1, evidence |-> finalizer.evidence]]
  /\ finalizer' = NoFinalizer
  /\ UNCHANGED <<reviewVars, governance, finalizations, datasets>>

ChangeGovernance ==
  /\ governance < MaxGovernance
  /\ governance' = governance + 1
  /\ UNCHANGED <<reviewVars, calibrations, finalizer, finalizations, datasets>>

\* build_production_dataset, as far as the decision it is built on.
BuildDataset(n) ==
  /\ Len(datasets) < 1
  /\ Advances(calibrations[n], "calibration_5k")
  /\ datasets' = Append(datasets,
       [of |-> n, stamp |-> calibrations[n].decision.stamp, promoted |-> FALSE])
  /\ UNCHANGED <<reviewVars, governance, calibrations, finalizer, finalizations>>

\* validate_dataset_manifest_for_promotion and record_promotion.
PromoteDataset(d) ==
  /\ ~datasets[d].promoted
  /\ calibrations[datasets[d].of].decision.stamp = datasets[d].stamp
  /\ Advances(calibrations[datasets[d].of], "calibration_5k")
  /\ datasets' = [datasets EXCEPT ![d].promoted = TRUE]
  /\ UNCHANGED <<reviewVars, governance, calibrations, finalizer, finalizations>>

CalibrationNext ==
  \/ ReviewNext /\ UNCHANGED calibrationVars
  \/ \E stage \in {"calibration_200", "calibration_5k"}, bound \in SUBSET Items,
        prior \in 0..MaxCalibrations : bound # {} /\ RunCalibration(stage, bound, prior)
  \/ \E n \in DOMAIN calibrations : BeginFinalize(n) \/ BuildDataset(n)
  \/ FirstReading \/ ReadItem \/ ReadDecisions \/ ReadAdjudication \/ WriteDecision
  \/ ChangeGovernance
  \/ \E d \in DOMAIN datasets : PromoteDataset(d)

CalibrationSpec ==
  ReviewInit /\ CalibrationInit /\ [][CalibrationNext]_<<reviewVars, calibrationVars>>
------------------------------------------------------------------------------
(* What a passed decision was made on stays what the authority says of its   *)
(* records: nothing that reviewers do later, and nothing they did while the  *)
(* records were read one by one, makes its evidence differ.                  *)
PassedStaysReplayable ==
  \A n \in DOMAIN calibrations :
    calibrations[n].decision.status = "passed" =>
      calibrations[n].decision.evidence = CurrentEvidence(calibrations[n].bound)
==============================================================================
