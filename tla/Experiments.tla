----------------------------- MODULE Experiments -----------------------------
(***************************************************************************)
(* One scientific experiment (learning/ablation_runner.py): its arms are   *)
(* planned, evidence is admitted arm by arm into an evidence directory, a   *)
(* run compares what the directory holds, the comparison is decided and    *)
(* the decision promoted.  verify_promotion_chain replays the whole chain  *)
(* before anything is built on a promotion.                                *)
(*                                                                         *)
(* Every command is a process of its own, commands overlap, and each may   *)
(* die between the opening of a file and its contents or between two files. *)
(* A digest is the text it was taken of.  The arms are the candidates of a *)
(* tokenizer selection in the order of their vocabularies, one seed each;  *)
(* an arm's reports are one score, 0 when it fails a hard gate.            *)
(***************************************************************************)
EXTENDS Naturals, FiniteSetsExt

CONSTANTS
  Arms, ArmScores,
  Superior,        \* from this difference on the confidence intervals are apart
  EvidenceDirs,    \* --evidence-dir
  Analysts,        \* the commands that run at the same time
  MaxAnalystDeaths \* bound

ASSUME ExperimentAssumption ==
  /\ Arms \subseteq Nat \ {0} /\ IsFiniteSet(Arms) /\ Arms # {}
  /\ ArmScores \subseteq Nat /\ Superior \in Nat
  /\ MaxAnalystDeaths \in Nat

VARIABLES
  manifestSound,       \* the manifest and every input it binds are as planned
  artifactsSound,      \* the arms' reports and checkpoints are as admitted
  armEvidence,         \* <directory>/<arm>.json
  armReports,          \* arm_reports.json
  comparison,          \* statistical_comparison.json
  experimentDecision,  \* experiment_decision.json
  promotionDecision,   \* promotion_decision.json
  analysts,
  analystDeaths

experimentVars ==
  <<manifestSound, artifactsSound, armEvidence, armReports, comparison,
    experimentDecision, promotionDecision, analysts, analystDeaths>>

Missing == [is |-> "missing"]
TornFile == [is |-> "torn"]
File(text) == [is |-> "whole", text |-> text]
Exists(file) == file # Missing

Resting == [pc |-> "idle"]
Evidences == EvidenceDirs \X Arms

ExperimentInit ==
  /\ manifestSound = TRUE
  /\ artifactsSound = Evidences
  /\ armEvidence = [e \in Evidences |-> Missing]
  /\ armReports = Missing /\ comparison = Missing
  /\ experimentDecision = Missing /\ promotionDecision = Missing
  /\ analysts = [c \in Analysts |-> Resting]
  /\ analystDeaths = 0

Doing(c, label) == analysts[c].pc = label
Goes(c, to) == analysts' = [analysts EXCEPT ![c] = to]
-----------------------------------------------------------------------------
(* admit-arm: _exclusive_json opens the file before it writes it. *)

OpenEvidence(c, e, score) ==
  /\ Doing(c, "idle") /\ manifestSound /\ e \in artifactsSound
  /\ ~Exists(armEvidence[e])
  /\ armEvidence' = [armEvidence EXCEPT ![e] = TornFile]
  /\ Goes(c, [pc |-> "admit", of |-> e, score |-> score])
  /\ UNCHANGED <<manifestSound, artifactsSound, armReports, comparison,
                 experimentDecision, promotionDecision, analystDeaths>>

WriteEvidence(c) ==
  /\ Doing(c, "admit")
  /\ armEvidence' = [armEvidence EXCEPT ![analysts[c].of] = File(analysts[c].score)]
  /\ Goes(c, Resting)
  /\ UNCHANGED <<manifestSound, artifactsSound, armReports, comparison,
                 experimentDecision, promotionDecision, analystDeaths>>

\* verify_artifacts: the file parses and what it binds is unchanged.
EvidenceHolds(e) == armEvidence[e].is = "whole" /\ e \in artifactsSound

\* _load_arm_evidence
Loaded(d) == [dir |-> d, arms |-> {a \in Arms : EvidenceHolds(<<d, a>>)}]
-----------------------------------------------------------------------------
(* run, which is also resume and compare. *)

\* compare_tokenizer_candidates: the smallest of the best, unless a smaller
\* one's interval overlaps with its; 0 for none.
CompareCandidates(score) ==
  LET eligible == {a \in Arms : score[a] > 0}
      best == Max({score[a] : a \in eligible})
      candidate == Min({a \in eligible : score[a] = best}) IN
  IF \/ eligible = {}
     \/ \E a \in eligible : a < candidate /\ best - score[a] < Superior
  THEN 0 ELSE candidate

Selected(d) == CompareCandidates([a \in Arms |-> armEvidence[<<d, a>>].text])

\* Mutant: the arms that are missing are left out of the comparison.
CompareAdmitted(reports) ==
  LET score == [a \in reports.arms |-> armEvidence[<<reports.dir, a>>].text] IN
  [reports |-> reports,
   selected |-> IF reports.arms = {} THEN 0
                ELSE Min({a \in reports.arms : score[a] = Max({score[b] : b \in reports.arms})})]
\* compare_experiment: blocked unless every planned arm is admitted.
CompareExperiment(reports) ==
  [reports |-> reports,
   selected |-> IF reports.arms = Arms THEN Selected(reports.dir) ELSE 0]

LoadEvidence(c, d) ==
  /\ Doing(c, "idle") /\ manifestSound
  /\ ~Exists(experimentDecision) /\ ~Exists(promotionDecision)
  /\ Goes(c, [pc |-> "reports", text |-> Loaded(d)])
  /\ UNCHANGED <<manifestSound, artifactsSound, armEvidence, armReports, comparison,
                 experimentDecision, promotionDecision, analystDeaths>>

WriteArmReports(c) ==
  /\ Doing(c, "reports")
  /\ armReports' = File(analysts[c].text)
  /\ Goes(c, [analysts[c] EXCEPT !.pc = "comparison"])
  /\ UNCHANGED <<manifestSound, artifactsSound, armEvidence, comparison,
                 experimentDecision, promotionDecision, analystDeaths>>

\* The digest in the comparison is of the file as it is now, which another
\* run may have replaced.
WriteComparison(c) ==
  /\ Doing(c, "comparison")
  /\ comparison' = File([CompareExperiment(analysts[c].text) EXCEPT !.reports = armReports.text])
  /\ Goes(c, Resting)
  /\ UNCHANGED <<manifestSound, artifactsSound, armEvidence, armReports,
                 experimentDecision, promotionDecision, analystDeaths>>
-----------------------------------------------------------------------------
(* decide and promote. *)

DecideExperiment(c) ==
  /\ Doing(c, "idle") /\ manifestSound
  /\ ~Exists(experimentDecision) /\ Exists(comparison)
  /\ Goes(c, [pc |-> "decide", text |-> comparison.text])
  /\ UNCHANGED <<manifestSound, artifactsSound, armEvidence, armReports, comparison,
                 experimentDecision, promotionDecision, analystDeaths>>

PromoteExperiment(c) ==
  /\ Doing(c, "idle")
  /\ ~Exists(promotionDecision) /\ experimentDecision.is = "whole"
  /\ Goes(c, [pc |-> "promote", text |-> experimentDecision.text])
  /\ UNCHANGED <<manifestSound, artifactsSound, armEvidence, armReports, comparison,
                 experimentDecision, promotionDecision, analystDeaths>>

\* A file that another command has opened is not opened again.
OpenDecision(c) ==
  /\ \/ /\ Doing(c, "decide")
        /\ IF Exists(experimentDecision) THEN Goes(c, Resting)
           ELSE Goes(c, [analysts[c] EXCEPT !.pc = "decided"])
        /\ experimentDecision' = IF Exists(experimentDecision) THEN experimentDecision ELSE TornFile
        /\ UNCHANGED promotionDecision
     \/ /\ Doing(c, "promote")
        /\ IF Exists(promotionDecision) THEN Goes(c, Resting)
           ELSE Goes(c, [analysts[c] EXCEPT !.pc = "promoted"])
        /\ promotionDecision' = IF Exists(promotionDecision) THEN promotionDecision ELSE TornFile
        /\ UNCHANGED experimentDecision
  /\ UNCHANGED <<manifestSound, artifactsSound, armEvidence, armReports, comparison, analystDeaths>>

WriteDecisionFile(c) ==
  /\ \/ /\ Doing(c, "decided")
        /\ experimentDecision' = File(analysts[c].text)
        /\ UNCHANGED promotionDecision
     \/ /\ Doing(c, "promoted")
        /\ promotionDecision' = File(analysts[c].text)
        /\ UNCHANGED experimentDecision
  /\ Goes(c, Resting)
  /\ UNCHANGED <<manifestSound, artifactsSound, armEvidence, armReports, comparison, analystDeaths>>
-----------------------------------------------------------------------------
(* What happens to the commands and to the files they depend on. *)

AnalystDies(c) ==
  /\ ~Doing(c, "idle")
  /\ analystDeaths < MaxAnalystDeaths
  /\ analystDeaths' = analystDeaths + 1
  /\ Goes(c, Resting)
  /\ UNCHANGED <<manifestSound, artifactsSound, armEvidence, armReports, comparison,
                 experimentDecision, promotionDecision>>

\* A dataset, suite or tokenizer file, or a checkpoint that is trained on.
BoundFileChanges ==
  /\ \/ manifestSound' = FALSE /\ UNCHANGED artifactsSound
     \/ /\ \E e \in artifactsSound : artifactsSound' = artifactsSound \ {e}
        /\ UNCHANGED manifestSound
  /\ UNCHANGED <<armEvidence, armReports, comparison, experimentDecision,
                 promotionDecision, analysts, analystDeaths>>

ExperimentNext ==
  \/ \E c \in Analysts :
       \/ \E e \in Evidences, score \in ArmScores : OpenEvidence(c, e, score)
       \/ \E d \in EvidenceDirs : LoadEvidence(c, d)
       \/ WriteEvidence(c) \/ WriteArmReports(c) \/ WriteComparison(c)
       \/ DecideExperiment(c) \/ PromoteExperiment(c)
       \/ OpenDecision(c) \/ WriteDecisionFile(c)
       \/ AnalystDies(c)
  \/ BoundFileChanges

ExperimentSpec == ExperimentInit /\ [][ExperimentNext]_experimentVars
-----------------------------------------------------------------------------
\* verify_promotion_chain, now.
PromotionVerifies ==
  /\ promotionDecision.is = "whole"
  /\ promotionDecision = experimentDecision
  /\ experimentDecision = comparison
  /\ manifestSound
  /\ Exists(armReports) /\ comparison.text.reports = armReports.text
  /\ armReports.text.arms = Arms
  /\ \A a \in Arms : EvidenceHolds(<<armReports.text.dir, a>>)

\* A promotion whose chain verifies is of a candidate that the complete evidence
\* of one directory selects, as it was admitted: runs that overlap, that began
\* before the last arm was admitted, or that died between their files, are
\* refused or selected on as much (run, decide and promote write their files
\* one by one, verify_promotion_chain replays them).
PromotionIsOnAdmittedEvidence ==
  PromotionVerifies /\ promotionDecision.text.selected # 0 =>
    \E d \in EvidenceDirs :
      /\ \A a \in Arms : armEvidence[<<d, a>>].is = "whole"
      /\ promotionDecision.text.selected = Selected(d)
=============================================================================
