----------------------------- MODULE ModelProofs -----------------------------
(***************************************************************************)
(* What TLC checks of the native server, of the qualification campaign and *)
(* of the training loop on small instances, for any requests, slots and    *)
(* queue, a ladder of any length, and training runs of any plans.          *)
(***************************************************************************)
EXTENDS Serving, QualificationLadder, PretrainLoop,
        FiniteSetTheorems, SequenceTheorems, WellFoundedInduction, TLAPS

-----------------------------------------------------------------------------
(* Serving. *)

\* The requests that have a slot, or whose thread has one after they left.
Charged ==
  {r \in Requests : serving[r] \in {"generating", "background"}} \union generating

\* Every thread that runs has been charged to a slot, and no slot is given
\* back while the thread it was taken for runs.
SlotsCharged ==
  /\ slots \in Nat
  /\ serving \in [Requests -> {"none", "waiting", "generating", "background"}]
  /\ IsFiniteSet(Charged)
  /\ slots + Cardinality(Charged) <= MaxConcurrent

LEMMA ChargedShrinks ==
  ASSUME IsFiniteSet(Charged), Charged' \subseteq Charged
  PROVE  IsFiniteSet(Charged') /\ Cardinality(Charged') <= Cardinality(Charged)
         /\ Cardinality(Charged') \in Nat /\ Cardinality(Charged) \in Nat
BY FS_Subset, FS_CardinalityType

LEMMA SlotTaken ==
  ASSUME SlotsCharged, NEW r \in Requests, Acquire(r)
  PROVE  SlotsCharged'
<1>1. Charged' = Charged \union {r}
  BY DEF Charged, SlotsCharged, Acquire, Moves
<1>2. /\ IsFiniteSet(Charged') /\ Cardinality(Charged) \in Nat
      /\ Cardinality(Charged') = Cardinality(Charged) \/ Cardinality(Charged') = Cardinality(Charged) + 1
  BY <1>1, FS_AddElement, FS_CardinalityType DEF SlotsCharged
<1>3. slots > 0 /\ slots' = slots - 1 /\ slots' \in Nat
  BY DEF SlotsCharged, Acquire
<1>4. serving' \in [Requests -> {"none", "waiting", "generating", "background"}]
  BY DEF SlotsCharged, Acquire, Moves
<1>5. slots' + Cardinality(Charged') <= MaxConcurrent
  BY <1>2, <1>3, ServingAssumption DEF SlotsCharged
<1> QED
  BY <1>2, <1>3, <1>4, <1>5 DEF SlotsCharged

LEMMA SlotGivenBack ==
  ASSUME SlotsCharged, NEW r \in Requests, AnswerRequest(r) \/ ReleaseAfterCompletion(r)
  PROVE  SlotsCharged'
<1>1. r \in Charged /\ Charged' = Charged \ {r}
  BY DEF Charged, SlotsCharged, AnswerRequest, ReleaseAfterCompletion, ReleaseSlot, Moves
<1>2. /\ IsFiniteSet(Charged') /\ Cardinality(Charged) \in Nat
      /\ Cardinality(Charged') = Cardinality(Charged) - 1
  BY <1>1, FS_RemoveElement, FS_CardinalityType DEF SlotsCharged
<1>3. slots' = slots + 1 /\ slots' \in Nat
  BY DEF SlotsCharged, AnswerRequest, ReleaseAfterCompletion, ReleaseSlot
<1>4. serving' \in [Requests -> {"none", "waiting", "generating", "background"}]
  BY DEF SlotsCharged, AnswerRequest, ReleaseAfterCompletion, Moves
<1>5. slots' + Cardinality(Charged') <= MaxConcurrent
  BY <1>2, <1>3, ServingAssumption DEF SlotsCharged
<1> QED
  BY <1>2, <1>3, <1>4, <1>5 DEF SlotsCharged

LEMMA SlotKept ==
  ASSUME SlotsCharged, NEW r \in Requests,
         Arrive(r) \/ QueueTimeout(r) \/ ThreadEnds(r) \/ GenerationTimeout(r) \/ Depart(r)
  PROVE  SlotsCharged'
<1>1. Charged' \subseteq Charged
  BY DEF Charged, SlotsCharged, Arrive, QueueTimeout, ThreadEnds, GenerationTimeout, Depart, Moves
<1>2. slots' = slots
  BY DEF Arrive, QueueTimeout, ThreadEnds, GenerationTimeout, Depart
<1>3. serving' \in [Requests -> {"none", "waiting", "generating", "background"}]
  BY DEF SlotsCharged, Arrive, QueueTimeout, ThreadEnds, GenerationTimeout, Depart, Moves
<1>4. slots' + Cardinality(Charged') <= MaxConcurrent
  BY <1>1, <1>2, ChargedShrinks, ServingAssumption DEF SlotsCharged
<1> QED
  BY <1>1, <1>2, <1>3, <1>4, ChargedShrinks DEF SlotsCharged

LEMMA SlotsStep ==
  ASSUME SlotsCharged, [ServingNext]_servingVars
  PROVE  SlotsCharged'
<1>1. CASE ServingNext
  BY <1>1, SlotTaken, SlotGivenBack, SlotKept DEF ServingNext
<1>2. CASE UNCHANGED servingVars
  BY <1>2 DEF servingVars, SlotsCharged, Charged
<1> QED
  BY <1>1, <1>2

\* No more generations run at a time than there are slots, whatever requests
\* time out and whichever clients leave (NativeServer of native_serving.py).
THEOREM NoOverlap == ServingSpec => []GenerationsDoNotOverlap
<1>1. ServingInit => SlotsCharged
  <2>1. ServingInit => Charged = {}
    BY DEF ServingInit, Charged
  <2> QED
    BY <2>1, FS_EmptySet, ServingAssumption DEF ServingInit, SlotsCharged
<1>2. SlotsCharged => GenerationsDoNotOverlap
  <2> SUFFICES ASSUME SlotsCharged PROVE Cardinality(generating) <= MaxConcurrent
    BY DEF GenerationsDoNotOverlap
  <2>1. generating \subseteq Charged
    BY DEF Charged
  <2>2. /\ Cardinality(generating) <= Cardinality(Charged)
        /\ Cardinality(generating) \in Nat /\ Cardinality(Charged) \in Nat
    BY <2>1, FS_Subset, FS_CardinalityType DEF SlotsCharged
  <2> QED
    BY <2>2, ServingAssumption DEF SlotsCharged
<1> QED
  BY <1>1, <1>2, SlotsStep, PTL DEF ServingSpec

-----------------------------------------------------------------------------
(* The qualification campaign. *)

LEMMA TargetGrows ==
  ASSUME NEW s \in Nat, NEW t \in Nat, s <= t
  PROVE  Target(s) \in Nat /\ Target(t) \in Nat /\ Target(s) <= Target(t)
<1>1. t - s \in Nat /\ t = s + (t - s)
  OBVIOUS
<1>2. (t - s) * Segment \in Nat /\ s * Segment \in Nat /\ t * Segment \in Nat
  BY <1>1, LadderAssumption
<1>3. t * Segment = s * Segment + (t - s) * Segment
  BY <1>1, LadderAssumption
<1> QED
  BY <1>2, <1>3 DEF Target

LEMMA PositionsOfStage ==
  ASSUME NEW s \in 0 .. StageCount
  PROVE  Target(s) \in Nat /\ 0 .. Target(s) \subseteq Positions
<1>1. Target(s) \in Nat /\ Target(StageCount) \in Nat /\ Target(s) <= Target(StageCount)
  BY TargetGrows, LadderAssumption
<1> QED
  BY <1>1 DEF Positions

EveryStagePromoted == \A k \in DOMAIN ladder : ladder[k].promoted

\* A command works on the stage after the recorded ones, from where they ended,
\* and what it will select is of its own part of the training.
CommandIsEarned ==
  stageRun.pc \in {"train", "save", "judge"} =>
    /\ stageRun.stage = Len(ladder) + 1
    /\ EveryStagePromoted
    /\ stageRun.at \in Target(Len(ladder)) .. Target(stageRun.stage)
    /\ stageRun.pc = "train" => stageRun.at < Target(stageRun.stage)
    /\ stageRun.validated => bestOfTrain.at \in Target(Len(ladder)) + 1 .. stageRun.at
    /\ stageRun.pc # "train" => stageRun.validated
    /\ stageRun.pc = "judge" => latest = stageRun.at

LadderInv ==
  /\ LadderTypeOK
  /\ stageRun.pc # "idle" => stageRun.stage \in 1 .. StageCount
  /\ StagesAreEarned
  /\ CommandIsEarned
  /\ EveryStagePromoted => latest >= Target(Len(ladder))

LEMMA LadderStarts ==
  ASSUME LadderInit
  PROVE  LadderInv
<1>1. 0 \in Positions /\ Target(0) = 0
  BY PositionsOfStage, LadderAssumption DEF Target
<1>2. LadderTypeOK
  BY <1>1, LadderAssumption DEF LadderInit, LadderTypeOK, NoStageRun
<1> QED
  BY <1>1, <1>2 DEF LadderInit, LadderInv, StagesAreEarned, CommandIsEarned, NoStageRun

\* A step that leaves the ladder's own files and the training alone.
LEMMA LadderRests ==
  ASSUME LadderInv, stageRun' = NoStageRun,
         UNCHANGED <<quality, ladder, latest, bestOfTrain>>,
         stageReports' \subseteq 1 .. StageCount, stageDeaths' \in 0 .. MaxStageDeaths
  PROVE  LadderInv'
<1>1. 0 \in Positions
  BY PositionsOfStage, LadderAssumption
<1>2. LadderTypeOK'
  BY <1>1, LadderAssumption DEF LadderInv, LadderTypeOK, NoStageRun
<1>3. StagesAreEarned' /\ EveryStagePromoted' = EveryStagePromoted
  BY DEF LadderInv, StagesAreEarned, EveryStagePromoted
<1> QED
  BY <1>2, <1>3 DEF LadderInv, CommandIsEarned, NoStageRun

LEMMA LadderStarted ==
  ASSUME LadderInv, NEW s \in 1 .. StageCount, StartStage(s)
  PROVE  LadderInv'
<1>1. Len(ladder) \in Nat /\ DOMAIN ladder = 1 .. Len(ladder)
  BY DEF LadderInv, LadderTypeOK
<1>2. \A k \in 1 .. Len(ladder) : ladder[k].stage = k /\ (k < Len(ladder) => ladder[k].promoted)
  BY <1>1 DEF LadderInv, StagesAreEarned
<1>3. s \notin 1 .. Len(ladder)
  BY <1>1, <1>2 DEF StartStage, Recorded
<1>4. s = 1 \/ (s - 1 \in 1 .. Len(ladder) /\ ladder[s - 1].promoted)
  BY <1>1, <1>2 DEF StartStage, Unlocked, Promoted
<1>5. s = Len(ladder) + 1 /\ EveryStagePromoted
  BY <1>1, <1>2, <1>3, <1>4 DEF EveryStagePromoted
<1>6. latest \in Target(Len(ladder)) .. Target(s) /\ latest < Target(s)
  <2>1. Target(Len(ladder)) \in Nat /\ Target(s) \in Nat /\ Target(StageCount) \in Nat
    BY <1>1, TargetGrows, LadderAssumption
  <2>2. latest \in Nat
    BY <2>1 DEF LadderInv, LadderTypeOK, Positions
  <2> QED
    BY <1>5, <2>1, <2>2 DEF LadderInv, StartStage
<1>7. LadderTypeOK'
  BY LadderAssumption DEF LadderInv, LadderTypeOK, StartStage
<1>8. StagesAreEarned' /\ EveryStagePromoted' /\ ladder' = ladder /\ latest' = latest
  BY <1>5 DEF LadderInv, StagesAreEarned, EveryStagePromoted, StartStage
<1>9. stageRun' = [pc |-> "train", stage |-> s, at |-> latest, validated |-> FALSE]
  BY DEF StartStage
<1>10. CommandIsEarned'
  BY <1>5, <1>6, <1>8, <1>9 DEF CommandIsEarned
<1> QED
  BY <1>5, <1>7, <1>8, <1>9, <1>10 DEF LadderInv

LEMMA LadderTrains ==
  ASSUME LadderInv, NEW better \in BOOLEAN, NEW stops \in BOOLEAN,
         TrainToValidation(better, stops)
  PROVE  LadderInv'
<1> DEFINE n == stageRun.at + 1
           s == stageRun.stage
<1>1. Len(ladder) \in Nat /\ s \in 1 .. StageCount /\ s = Len(ladder) + 1
  BY DEF LadderInv, LadderTypeOK, CommandIsEarned, TrainToValidation
<1>2. Target(Len(ladder)) \in Nat /\ Target(s) \in Nat /\ 0 .. Target(s) \subseteq Positions
  BY <1>1, PositionsOfStage, TargetGrows, LadderAssumption
<1>3. n \in Target(Len(ladder)) + 1 .. Target(s) /\ n \in Positions /\ stageRun.at \in Nat
  BY <1>1, <1>2 DEF LadderInv, CommandIsEarned, TrainToValidation
<1>4. stageRun' = [stageRun EXCEPT !.at = n, !.validated = TRUE,
                     !.pc = IF stops \/ n = Target(s) THEN "save" ELSE "train"]
  BY DEF TrainToValidation
<1>5. bestOfTrain' \in [at : Positions, intact : BOOLEAN] /\ latest' \in {n, latest}
  BY <1>3 DEF LadderInv, LadderTypeOK, TrainToValidation
<1>6. bestOfTrain'.at \in Target(Len(ladder)) + 1 .. n
  <2>1. CASE better
    BY <1>2, <1>3, <2>1 DEF TrainToValidation
  <2>2. CASE ~better
    BY <1>2, <1>3, <2>2 DEF LadderInv, CommandIsEarned, TrainToValidation
  <2> QED
    BY <2>1, <2>2
<1>7. LadderTypeOK'
  BY <1>3, <1>4, <1>5 DEF LadderInv, LadderTypeOK, TrainToValidation
<1>8. UNCHANGED ladder /\ StagesAreEarned' /\ EveryStagePromoted'
  BY DEF LadderInv, StagesAreEarned, EveryStagePromoted, CommandIsEarned, TrainToValidation
<1>9. /\ stageRun'.stage = s /\ stageRun'.at = n /\ stageRun'.validated
      /\ stageRun'.pc = IF stops \/ n = Target(s) THEN "save" ELSE "train"
  BY <1>4 DEF LadderInv, LadderTypeOK
<1>10. CommandIsEarned'
  BY <1>1, <1>2, <1>3, <1>6, <1>8, <1>9 DEF CommandIsEarned
<1>11. latest' >= Target(Len(ladder))
  BY <1>2, <1>3, <1>5 DEF LadderInv, CommandIsEarned, TrainToValidation
<1> QED
  BY <1>1, <1>7, <1>8, <1>9, <1>10, <1>11 DEF LadderInv

LEMMA LadderSaves ==
  ASSUME LadderInv, SaveFinal
  PROVE  LadderInv'
<1>1. LadderTypeOK'
  BY DEF LadderInv, LadderTypeOK, SaveFinal
<1>2. UNCHANGED ladder /\ StagesAreEarned' /\ EveryStagePromoted'
  BY DEF LadderInv, StagesAreEarned, EveryStagePromoted, CommandIsEarned, SaveFinal
<1>3. /\ stageRun'.stage = stageRun.stage /\ stageRun'.at = stageRun.at
      /\ stageRun'.validated = stageRun.validated /\ stageRun'.pc = "judge"
      /\ bestOfTrain'.at = bestOfTrain.at /\ latest' = stageRun.at
  BY DEF LadderInv, LadderTypeOK, SaveFinal
<1>4. CommandIsEarned'
  BY <1>2, <1>3 DEF LadderInv, CommandIsEarned, SaveFinal
<1>5. latest' >= Target(Len(ladder))
  BY <1>3, TargetGrows DEF LadderInv, LadderTypeOK, CommandIsEarned, SaveFinal
<1> QED
  BY <1>1, <1>2, <1>3, <1>4, <1>5 DEF LadderInv, SaveFinal

LEMMA LadderDecides ==
  ASSUME LadderInv, NEW others \in BOOLEAN, DecideStage(others)
  PROVE  LadderInv'
<1> DEFINE s == stageRun.stage
           record == [stage |-> s, promoted |-> Passes(s, others), steps |-> stageRun.at,
                      selected |-> bestOfTrain.at, delta |-> ScoreDelta(s)]
<1>1. Len(ladder) \in Nat /\ s \in 1 .. StageCount /\ s = Len(ladder) + 1 /\ s - 1 = Len(ladder)
  BY DEF LadderInv, LadderTypeOK, CommandIsEarned, DecideStage
<1>2. stageRun.at \in Positions /\ bestOfTrain.at \in Positions /\ 0 \in Positions
  BY PositionsOfStage, LadderAssumption DEF LadderInv, LadderTypeOK
<1>3. ScoreDelta(s) \in Int
  <2>1. BaselineOf(s) \in Positions
    BY <1>2 DEF BaselineOf
  <2>2. \A p \in Positions : quality[p] \in Int
    BY LadderAssumption DEF LadderInv, LadderTypeOK
  <2>3. quality[bestOfTrain.at] \in Int /\ quality[BaselineOf(s)] \in Int
    BY <1>2, <2>1, <2>2
  <2> QED
    BY <2>3 DEF ScoreDelta
<1>4. Passes(s, others) \in BOOLEAN
  BY <1>2 DEF Passes, EvaluationPasses, LadderInv, LadderTypeOK
<1>5. record \in StageRecords
  BY <1>1, <1>2, <1>3, <1>4 DEF StageRecords
<1>6. ladder' = Append(ladder, record)
  BY DEF DecideStage
<1>7. /\ ladder' \in Seq(StageRecords) /\ Len(ladder') = s /\ DOMAIN ladder' = 1 .. s
      /\ ladder'[s] = record /\ \A k \in 1 .. Len(ladder) : ladder'[k] = ladder[k]
      /\ DOMAIN ladder = 1 .. Len(ladder)
  BY <1>1, <1>5, <1>6 DEF LadderInv, LadderTypeOK
<1>8. LadderTypeOK'
  BY <1>7 DEF LadderInv, LadderTypeOK, DecideStage
<1>9. record.promoted =>
        record.steps = Target(s) /\ record.selected \in Target(s - 1) + 1 .. Target(s)
  BY <1>1 DEF Passes, LadderInv, CommandIsEarned, DecideStage
<1>10. \A k \in 1 .. Len(ladder) : ladder[k].promoted
  BY <1>7 DEF LadderInv, CommandIsEarned, EveryStagePromoted, DecideStage
<1>11. StagesAreEarned'
  <2> SUFFICES ASSUME NEW k \in 1 .. s
               PROVE  /\ ladder'[k].stage = k
                      /\ k < s => ladder'[k].promoted
                      /\ ladder'[k].promoted =>
                           /\ ladder'[k].steps = Target(k)
                           /\ ladder'[k].selected \in Target(k - 1) + 1 .. Target(k)
    BY <1>7 DEF StagesAreEarned, Target
  <2>1. CASE k = s
    BY <1>7, <1>9, <2>1
  <2>2. CASE k # s
    <3>1. k \in 1 .. Len(ladder) /\ ladder'[k] = ladder[k] /\ ladder[k].promoted
      BY <1>1, <1>7, <1>10, <2>2
    <3>2. /\ ladder[k].stage = k /\ ladder[k].steps = Target(k)
          /\ ladder[k].selected \in Target(k - 1) + 1 .. Target(k)
      BY <1>7, <3>1 DEF LadderInv, StagesAreEarned
    <3> QED
      BY <3>1, <3>2
  <2> QED
    BY <2>1, <2>2
<1>12. EveryStagePromoted' => latest' >= Target(s)
  <2>1. EveryStagePromoted' => record.promoted
    BY <1>1, <1>7 DEF EveryStagePromoted
  <2>2. latest' = stageRun.at /\ Target(s) \in Nat
    BY <1>1, TargetGrows DEF LadderInv, CommandIsEarned, DecideStage
  <2> QED
    BY <1>9, <2>1, <2>2
<1>13. stageRun'.pc = "report" /\ stageRun'.stage = s
  BY DEF DecideStage, LadderInv, LadderTypeOK
<1> QED
  BY <1>1, <1>7, <1>8, <1>11, <1>12, <1>13 DEF LadderInv, CommandIsEarned

LEMMA LadderStep ==
  ASSUME LadderInv, [LadderNext]_ladderVars
  PROVE  LadderInv'
<1>1. CASE WriteStageReport
  BY <1>1, LadderRests DEF WriteStageReport, LadderInv, LadderTypeOK
<1>2. CASE StageRunDies
  BY <1>2, LadderRests, LadderAssumption DEF StageRunDies, LadderInv, LadderTypeOK
<1>3. CASE UNCHANGED ladderVars
  BY <1>3 DEF ladderVars, LadderInv, LadderTypeOK, StagesAreEarned, CommandIsEarned,
              EveryStagePromoted
<1> QED
  BY <1>1, <1>2, <1>3, LadderStarted, LadderTrains, LadderSaves, LadderDecides DEF LadderNext

\* The campaign's files and its command keep their types
\* (qualification_campaign.py, pretrain_loop.py).
THEOREM LadderTypes == LadderSpec => []LadderTypeOK
<1>1. LadderInv => LadderTypeOK
  BY DEF LadderInv
<1> QED
  BY <1>1, LadderStarts, LadderStep, PTL DEF LadderSpec

\* Whatever commands begin, die, stop early or are repeated, the recorded
\* stages are the ladder's in order, each promoted on its own full training
\* (_prior_stage, decide_stage and the resume of run_pretraining_loop).
THEOREM StagesEarned == LadderSpec => []StagesAreEarned
<1>1. LadderInv => StagesAreEarned
  BY DEF LadderInv
<1> QED
  BY <1>1, LadderStarts, LadderStep, PTL DEF LadderSpec

-----------------------------------------------------------------------------
(* The training loop. *)

\* The order of the naturals is well-founded.
LEMMA NatOrder ==
  \E R : IsWellFoundedOn(R, Nat) /\ \A m, n \in Nat : <<m, n>> \in R <=> m < n
<1> DEFINE R == OpToRel(<, Nat)
<1>1. IsWellFoundedOn(R, Nat)
  BY NatLessThanWellFounded
<1>2. \A m, n \in Nat : <<m, n>> \in R <=> m < n
  BY DEF OpToRel
<1> HIDE DEF R
<1> QED
  BY <1>1, <1>2

\* Every set of naturals has a least member: induction without an operator for
\* its hypothesis.
LEMMA LeastOf ==
  ASSUME NEW T, T \subseteq Nat, T # {}
  PROVE  \E n \in T : \A m \in T : n <= m
<1>1. PICK R : IsWellFoundedOn(R, Nat) /\ \A m, n \in Nat : <<m, n>> \in R <=> m < n
  BY NatOrder
<1>2. PICK n \in T : \A m \in T : ~(<<m, n>> \in R)
  <2>1. IsWellFoundedOn(R, Nat)
    BY <1>1
  <2> QED
    BY <2>1, WFMin
<1>3. \A m \in T : ~(m < n)
  BY <1>1, <1>2
<1>4. \A m \in T : n <= m
  BY <1>3
<1> QED
  BY <1>4

\* A bounded one has a greatest.
LEMMA MaxOf ==
  ASSUME NEW T, T \subseteq Nat, T # {}, NEW b \in Nat, \A n \in T : n <= b
  PROVE  Max(T) \in T /\ \A n \in T : n <= Max(T)
<1> DEFINE D == {b - n : n \in T}
<1>1. D \subseteq Nat /\ D # {}
  <2>1. \A n \in T : n \in Nat /\ n <= b
    OBVIOUS
  <2>2. \A n \in T : b - n \in Nat
    BY <2>1
  <2> QED
    BY <2>2
<1>2. PICK d \in D : \A e \in D : d <= e
  BY <1>1, LeastOf
<1>3. PICK g \in T : d = b - g
  BY <1>2
<1>4. \A n \in T : g >= n
  BY <1>2, <1>3
<1> QED
  BY <1>4 DEF Max

-----------------------------------------------------------------------------
(* Where the stream of batches stands. *)

\* What division and its remainder are.
LEMMA DivMod ==
  ASSUME NEW b \in Nat \ {0}, NEW m \in Nat
  PROVE  m \div b \in Nat /\ m % b \in 0 .. b - 1 /\ m = (m \div b) * b + (m % b)
OBVIOUS

\* The only multiple of b between -b and b is zero.
LEMMA Multiple ==
  ASSUME NEW b \in Nat \ {0}, NEW d \in Int, d * b < b, -b < d * b
  PROVE  d = 0
<1>1. CASE d >= 1
  BY <1>1
<1>2. CASE d <= -1
  BY <1>2
<1> QED
  BY <1>1, <1>2

\* Nothing else is.
LEMMA DivModUnique ==
  ASSUME NEW b \in Nat \ {0}, NEW m \in Nat, NEW e \in Nat, NEW o \in 0 .. b - 1, m = e * b + o
  PROVE  m \div b = e /\ m % b = o
<1> DEFINE f == m \div b
           p == m % b
<1>1. f \in Nat /\ p \in 0 .. b - 1 /\ m = f * b + p
  BY DivMod
<1> HIDE DEF f, p
<1>2. (e - f) * b = p - o
  BY <1>1
<1>3. (e - f) * b < b /\ -b < (e - f) * b
  BY <1>1, <1>2
<1>4. e - f = 0
  BY <1>1, <1>3, Multiple
<1>5. e = f
  BY <1>1, <1>4
<1> QED
  BY <1>1, <1>5 DEF f, p

\* The place after the last batch of an epoch is the first of the next.
LEMMA PlaceIs ==
  ASSUME NEW m \in Nat, NEW e \in Nat, NEW o \in Nat, plan.batches \in Nat \ {0},
         o <= plan.batches, m = e * plan.batches + o
  PROVE  Place(e, o) = <<m \div plan.batches, m % plan.batches>>
<1> DEFINE b == plan.batches
<1>1. b \in Nat \ {0}
  OBVIOUS
<1>2. CASE o < b
  <2>1. o \in 0 .. b - 1
    BY <1>1, <1>2
  <2>2. m \div b = e /\ m % b = o
    BY <1>1, <2>1, DivModUnique
  <2> QED
    BY <1>2, <2>2 DEF Place
<1>3. CASE ~(o < b)
  <2> HIDE DEF b
  <2>3. o = b /\ m = e * b + b
    BY <1>1, <1>3 DEF b
  <2>4. (e + 1) * b = e * b + b
    BY <1>1
  <2>1. m = (e + 1) * b + 0 /\ 0 \in 0 .. b - 1 /\ e + 1 \in Nat
    BY <1>1, <2>3, <2>4
  <2>2. m \div b = e + 1 /\ m % b = 0
    BY <1>1, <2>1, DivModUnique
  <2> QED
    BY <1>3, <2>2 DEF Place, b
<1> QED
  BY <1>2, <1>3

\* What the recursive function of Places is.
Reads(f) ==
  f = [k \in 1 .. plan.accumulation |->
         IF k = 1 THEN Place(trainer.epoch, trainer.offset)
         ELSE Place(f[k - 1][1], f[k - 1][2] + 1)]

\* An optimizer step reads the next places of the stream.
LEMMA PlacesAre ==
  ASSUME plan.batches \in Nat \ {0}, plan.accumulation \in Nat \ {0},
         trainer.epoch \in Nat, trainer.offset \in Nat, trainer.offset <= plan.batches,
         NEW m \in Nat, m = trainer.epoch * plan.batches + trainer.offset
  PROVE  \A k \in 1 .. plan.accumulation :
           Places[k] = <<(m + k - 1) \div plan.batches, (m + k - 1) % plan.batches>>
<1> DEFINE b == plan.batches
           a == plan.accumulation
           g == [k \in 1 .. a |-> <<(m + k - 1) \div b, (m + k - 1) % b>>]
<1>1. b \in Nat \ {0} /\ a \in Nat \ {0}
  OBVIOUS
<1>2. \A k \in 1 .. a : g[k] = IF k = 1 THEN Place(trainer.epoch, trainer.offset)
                               ELSE Place(g[k - 1][1], g[k - 1][2] + 1)
  <2> SUFFICES ASSUME NEW k \in 1 .. a
               PROVE  g[k] = IF k = 1 THEN Place(trainer.epoch, trainer.offset)
                             ELSE Place(g[k - 1][1], g[k - 1][2] + 1)
    OBVIOUS
  <2>1. m + k - 1 \in Nat /\ g[k] = <<(m + k - 1) \div b, (m + k - 1) % b>>
    BY <1>1
  <2>2. CASE k = 1
    <3>1. g[k] = <<m \div b, m % b>>
      BY <1>1, <2>1, <2>2
    <3> QED
      BY <2>2, <3>1, PlaceIs
  <2>3. CASE k # 1
    <3> DEFINE e == (m + (k - 1) - 1) \div b
               o == (m + (k - 1) - 1) % b
    <3>1. k - 1 \in 1 .. a /\ m + (k - 1) - 1 \in Nat
      BY <1>1, <2>3
    <3>2. g[k - 1] = <<e, o>>
      BY <3>1
    <3>3. e \in Nat /\ o \in 0 .. b - 1 /\ m + (k - 1) - 1 = e * b + o
      BY <1>1, <3>1, DivMod
    <3> HIDE DEF e, o
    <3>4. o + 1 \in Nat /\ o + 1 <= b /\ m + k - 1 = e * b + (o + 1)
      BY <1>1, <3>3
    <3>5. Place(e, o + 1) = <<(m + k - 1) \div b, (m + k - 1) % b>>
      BY <2>1, <3>3, <3>4, PlaceIs
    <3> HIDE DEF g
    <3> QED
      BY <2>1, <2>3, <3>2, <3>5
  <2> QED
    BY <2>2, <2>3
<1>3. Reads(g)
  <2>1. g = [k \in 1 .. a |-> g[k]]
    OBVIOUS
  <2> HIDE DEF g
  <2> QED
    BY <1>2, <2>1 DEF Reads
<1>4. Reads(Places)
  <2>1. Reads(CHOOSE f : Reads(f))
    BY <1>3
  <2>2. Places = CHOOSE f : Reads(f)
    BY DEF Places, Reads
  <2> QED
    BY <2>1, <2>2
<1>5. \A k \in 1 .. a : Places[k] = IF k = 1 THEN Place(trainer.epoch, trainer.offset)
                                    ELSE Place(Places[k - 1][1], Places[k - 1][2] + 1)
  BY <1>4 DEF Reads
<1> DEFINE Bad == {k \in 1 .. a : Places[k] # g[k]}
<1> HIDE DEF g
<1>6. Bad = {}
  <2> SUFFICES ASSUME Bad # {} PROVE FALSE
    OBVIOUS
  <2>1. Bad \subseteq Nat
    OBVIOUS
  <2>2. PICK k \in Bad : \A j \in Bad : k <= j
    BY <2>1, LeastOf
  <2>3. k # 1
    BY <1>2, <1>5, <2>2
  <2>4. k - 1 \in 1 .. a /\ k - 1 \notin Bad
    BY <1>1, <2>2, <2>3
  <2>5. Places[k - 1] = g[k - 1]
    BY <2>4
  <2> QED
    BY <1>2, <1>5, <2>2, <2>3, <2>5
<1> QED
  BY <1>6 DEF g

\* The batches of the micro-batches from m on.
NextUpdate(m) ==
  {<<j \div plan.batches, (j % plan.batches) * trainer.world + r>> :
     j \in m .. m + plan.accumulation - 1, r \in 0 .. trainer.world - 1}

\* An optimizer step takes the next micro-batches of the stream.
LEMMA StepTakes ==
  ASSUME plan.batches \in Nat \ {0}, plan.accumulation \in Nat \ {0},
         trainer.epoch \in Nat, trainer.offset \in Nat, trainer.offset <= plan.batches,
         NEW m \in Nat, m = trainer.epoch * plan.batches + trainer.offset
  PROVE  UNION {Dealt(Places[k]) : k \in 1 .. plan.accumulation} = NextUpdate(m)
<1> DEFINE b == plan.batches
           a == plan.accumulation
           deals(k) == {<<(m + k - 1) \div b, ((m + k - 1) % b) * trainer.world + r>> : r \in 0 .. trainer.world - 1}
<1>1. \A k \in 1 .. a : Dealt(Places[k]) = deals(k)
  <2>1. \A k \in 1 .. a : Places[k] = <<(m + k - 1) \div b, (m + k - 1) % b>>
    BY PlacesAre
  <2> QED
    BY <2>1 DEF Dealt
<1>2. UNION {Dealt(Places[k]) : k \in 1 .. a} = UNION {deals(k) : k \in 1 .. a}
  <2> HIDE DEF deals
  <2> QED
    BY <1>1
<1>3. \A j \in m .. m + a - 1 : j - m + 1 \in 1 .. a /\ m + (j - m + 1) - 1 = j
  OBVIOUS
<1>4. \A k \in 1 .. a : m + k - 1 \in m .. m + a - 1
  OBVIOUS
<1>5. UNION {deals(k) : k \in 1 .. a} \subseteq NextUpdate(m)
  <2> SUFFICES ASSUME NEW k \in 1 .. a, NEW r \in 0 .. trainer.world - 1
               PROVE  <<(m + k - 1) \div b, ((m + k - 1) % b) * trainer.world + r>> \in NextUpdate(m)
    OBVIOUS
  <2> DEFINE j == m + k - 1
  <2>1. j \in m .. m + a - 1
    BY <1>4
  <2> HIDE DEF j
  <2>2. <<j \div b, (j % b) * trainer.world + r>> \in NextUpdate(m)
    BY <2>1 DEF NextUpdate
  <2> QED
    BY <2>2 DEF j
<1>6. NextUpdate(m) \subseteq UNION {deals(k) : k \in 1 .. a}
  <2> SUFFICES ASSUME NEW j \in m .. m + a - 1, NEW r \in 0 .. trainer.world - 1
               PROVE  <<j \div b, (j % b) * trainer.world + r>> \in UNION {deals(k) : k \in 1 .. a}
    BY DEF NextUpdate
  <2> DEFINE k == j - m + 1
  <2>1. k \in 1 .. a /\ m + k - 1 = j
    BY <1>3
  <2> HIDE DEF k
  <2>2. <<j \div b, (j % b) * trainer.world + r>> \in deals(k)
    BY <2>1
  <2> QED
    BY <2>1, <2>2
<1> QED
  BY <1>2, <1>5, <1>6

-----------------------------------------------------------------------------
(* The loop. *)

Update == SUBSET (Nat \X Nat)
Kind == {"best", "periodic", "final", "best_final"}
Going == {"train", "validate", "save_best", "save_periodic", "save_final", "save_best_final",
          "write", "manifest", "reload", "publish", "report", "done"}
TrainerRow ==
  [pc : Going \union {"down", "refused"}, world : Nat \ {0}, updates : Seq(Update),
   epoch : Nat, offset : Nat, loss : Nat, best : Nat, unimproved : Nat,
   stopped : BOOLEAN, saving : Kind]
Checkpoint ==
  [state : {"absent", "torn", "whole"}, updates : Seq(Update), world : Nat, metrics : Nat \X Nat]
Manifest == [step : Nat, files : Checkpoint]

PretrainTypes ==
  /\ plan \in Plans
  /\ checkpoints \in [1 .. plan.steps -> Checkpoint]
  /\ bestManifest \in Manifest
  /\ lastManifest \in Manifest
  /\ trainer \in TrainerRow
  /\ publication \subseteq Manifest
  /\ trainerDeaths \in Nat

\* The stream stands where the updates end; there is a step to take, or one has
\* been taken; the checkpoint a manifest is written of is the one just saved.
StreamStands ==
  /\ trainer.offset <= plan.batches
  /\ trainer.epoch * plan.batches + trainer.offset = CompletedSteps * plan.accumulation
StepsAreCounted ==
  /\ trainer.pc = "train" => CompletedSteps < plan.steps
  /\ trainer.pc \in Going \ {"train"} => CompletedSteps \in 1 .. plan.steps
ManifestIsOfSaved ==
  /\ trainer.pc = "manifest" => checkpoints[CompletedSteps].updates = trainer.updates
                                  /\ checkpoints[CompletedSteps].world = trainer.world
  /\ lastManifest.files.updates = Uninterrupted(lastManifest.step, lastManifest.files.world)

PretrainInv ==
  PretrainTypes /\ StreamStands /\ StepsAreCounted /\ ManifestIsOfSaved /\ ResumeIsExact

\* The numbers of a plan that the stream depends on.
LEMMA PlanFacts ==
  ASSUME PretrainTypes
  PROVE  /\ plan.steps \in Nat \ {0} /\ plan.accumulation \in Nat \ {0} /\ plan.batches \in Nat \ {0}
         /\ plan.worlds \subseteq Nat \ {0} /\ plan.losses \subseteq Nat \ {0}
BY PretrainAssumption DEF PretrainTypes

\* The types of the parts of what is being trained.
LEMMA TrainerFacts ==
  ASSUME PretrainTypes
  PROVE  /\ trainer.world \in Nat \ {0} /\ trainer.updates \in Seq(Update)
         /\ trainer.epoch \in Nat /\ trainer.offset \in Nat /\ trainer.loss \in Nat
         /\ trainer.best \in Nat /\ trainer.unimproved \in Nat /\ trainer.saving \in Kind
         /\ CompletedSteps \in Nat
<1>1. trainer \in TrainerRow
  BY DEF PretrainTypes
<1>2. trainer.updates \in Seq(Update)
  BY <1>1 DEF TrainerRow
<1> HIDE DEF Update
<1>3. CompletedSteps \in Nat
  BY <1>2 DEF CompletedSteps
<1> QED
  BY <1>1, <1>2, <1>3 DEF TrainerRow

\* The batches that step s of a world of w ranks takes.
TakenBy(s, w) ==
  {<<m \div plan.batches, (m % plan.batches) * w + r>> :
     m \in (s - 1) * plan.accumulation .. s * plan.accumulation - 1, r \in 0 .. w - 1}

\* What a step takes is a set of places in the epochs.
LEMMA TakenByIs ==
  ASSUME PretrainTypes, NEW s \in Nat \ {0}, NEW w \in Nat
  PROVE  TakenBy(s, w) \in Update
<1> DEFINE b == plan.batches
           a == plan.accumulation
<1>1. b \in Nat \ {0} /\ a \in Nat \ {0}
  BY PlanFacts
<1> SUFFICES ASSUME NEW m \in (s - 1) * a .. s * a - 1, NEW r \in 0 .. w - 1
             PROVE  m \div b \in Nat /\ (m % b) * w + r \in Nat
  BY DEF Update, TakenBy
<1>2. (s - 1) * a \in Nat /\ s * a - 1 \in Int
  BY <1>1
<1>3. m \in Nat
  <2> DEFINE lo == (s - 1) * a
             hi == s * a - 1
  <2> HIDE DEF lo, hi
  <2>1. lo \in Nat /\ hi \in Int /\ m \in lo .. hi
    BY <1>2 DEF lo, hi
  <2> QED
    BY <2>1
<1>4. m \div b \in Nat /\ m % b \in 0 .. b - 1
  BY <1>1, <1>3, DivMod
<1> DEFINE p == m % b
<1> HIDE DEF p
<1>5. p \in Nat
  BY <1>1, <1>4 DEF p
<1>6. p * w + r \in Nat
  BY <1>5
<1> QED
  BY <1>4, <1>6 DEF p

\* An uninterrupted run is the sequence of what its steps take.
LEMMA UninterruptedIs ==
  ASSUME PretrainTypes, NEW n \in Nat, NEW w \in Nat
  PROVE  /\ Uninterrupted(n, w) \in Seq(Update) /\ Len(Uninterrupted(n, w)) = n
         /\ \A s \in 1 .. n : Uninterrupted(n, w)[s] = TakenBy(s, w)
<1> DEFINE U == Uninterrupted(n, w)
<1>1. U = [s \in 1 .. n |-> TakenBy(s, w)]
  BY DEF Uninterrupted, TakenBy
<1>2. \A s \in 1 .. n : TakenBy(s, w) \in Update
  BY TakenByIs
<1> HIDE DEF Update, U
<1>3. U \in [1 .. n -> Update]
  BY <1>1, <1>2
<1>4. U \in Seq(Update) /\ Len(U) = n /\ \A s \in 1 .. n : U[s] = TakenBy(s, w)
  BY <1>1, <1>3
<1> QED
  BY <1>4 DEF U

\* An exact run stays exact when it takes the batches of its next step.
LEMMA OneMoreStep ==
  ASSUME PretrainTypes, NEW n \in Nat, NEW t \in Seq(Update),
         t = Uninterrupted(n, trainer.world), NEW m \in Nat, m = n * plan.accumulation
  PROVE  /\ Append(t, NextUpdate(m)) = Uninterrupted(n + 1, trainer.world)
         /\ Append(t, NextUpdate(m)) \in Seq(Update) /\ Len(Append(t, NextUpdate(m))) = n + 1
<1> DEFINE a == plan.accumulation
           w == trainer.world
           u == Append(t, NextUpdate(m))
           U == Uninterrupted(n + 1, w)
<1>1. a \in Nat \ {0} /\ w \in Nat /\ n + 1 \in Nat \ {0}
  BY PlanFacts, TrainerFacts
<1>2. U \in Seq(Update) /\ Len(U) = n + 1 /\ \A s \in 1 .. n + 1 : U[s] = TakenBy(s, w)
  <2> HIDE DEF w
  <2> QED
    BY <1>1, UninterruptedIs
<1>3. Len(t) = n /\ \A s \in 1 .. n : t[s] = TakenBy(s, w)
  <2>1. t = Uninterrupted(n, w)
    OBVIOUS
  <2> HIDE DEF w, u, U
  <2>2. Len(Uninterrupted(n, w)) = n /\ \A s \in 1 .. n : Uninterrupted(n, w)[s] = TakenBy(s, w)
    BY <1>1, UninterruptedIs
  <2> QED
    BY <2>1, <2>2
<1>4. NextUpdate(m) = TakenBy(n + 1, w)
  <2>1. m = n * a
    OBVIOUS
  <2> HIDE DEF a, w, u, U
  <2>2. (n + 1) * a = n * a + a
    BY <1>1
  <2>3. ((n + 1) - 1) * a = m /\ (n + 1) * a - 1 = m + a - 1
    BY <1>1, <2>1, <2>2
  <2> DEFINE Between(lo, hi) ==
        {<<j \div plan.batches, (j % plan.batches) * w + r>> : j \in lo .. hi, r \in 0 .. w - 1}
  <2>4. TakenBy(n + 1, w) = Between(((n + 1) - 1) * a, (n + 1) * a - 1)
    BY DEF TakenBy, a
  <2>5. NextUpdate(m) = Between(m, m + a - 1)
    BY DEF NextUpdate, a, w
  <2> HIDE DEF Between
  <2> QED
    BY <2>3, <2>4, <2>5
<1>5. TakenBy(n + 1, w) \in Update
  BY <1>1, TakenByIs
<1> HIDE DEF U, Update
<1>6. /\ u \in Seq(Update) /\ Len(u) = n + 1 /\ u[n + 1] = TakenBy(n + 1, w)
      /\ \A s \in 1 .. n : u[s] = TakenBy(s, w)
  BY <1>3, <1>4, <1>5, AppendProperties
<1> HIDE DEF u
<1>7. \A s \in 1 .. n + 1 : u[s] = U[s]
  <2>1. \A s \in 1 .. n + 1 : s \in 1 .. n \/ s = n + 1
    OBVIOUS
  <2> QED
    BY <1>2, <1>6, <2>1
<1>8. u = U
  BY <1>2, <1>6, <1>7, SeqEqual
<1> QED
  BY <1>6, <1>8 DEF u, U

\* The checkpoint a restart finds is of one of the plan's steps.
LEMMA FoundIs ==
  ASSUME PretrainTypes, Found # {}
  PROVE  Max(Found) \in 1 .. plan.steps
<1>1. Found \subseteq 1 .. plan.steps /\ plan.steps \in Nat
  BY PlanFacts DEF Found, PretrainTypes
<1>2. Found \subseteq Nat /\ \A n \in Found : n <= plan.steps
  BY <1>1
<1>3. Max(Found) \in Found
  BY <1>1, <1>2, MaxOf
<1> QED
  BY <1>1, <1>3

\* What was exact stays so where nothing is saved or published.
LEMMA ExactKeeps ==
  ASSUME ResumeIsExact, UNCHANGED <<plan, checkpoints, publication>>,
         (trainer.updates = Uninterrupted(CompletedSteps, trainer.world))'
  PROVE  ResumeIsExact'
<1>1. (\A n \in DOMAIN checkpoints : checkpoints[n].state = "whole"
         => checkpoints[n].updates = Uninterrupted(n, checkpoints[n].world))'
  BY DEF ResumeIsExact, Uninterrupted
<1>2. (\A p \in publication : p.files.updates = Uninterrupted(p.step, p.files.world))'
  BY DEF ResumeIsExact, Uninterrupted
<1> QED
  BY <1>1, <1>2 DEF ResumeIsExact

\* A step in which what is being trained stays as it is, and so do the
\* checkpoints it has.
LEMMA LoopGoesOn ==
  ASSUME PretrainInv, UNCHANGED <<plan, checkpoints, publication, trainerDeaths>>,
         trainer' \in TrainerRow, bestManifest' \in Manifest, lastManifest' \in Manifest,
         trainer'.updates = trainer.updates, trainer'.world = trainer.world,
         trainer'.epoch = trainer.epoch, trainer'.offset = trainer.offset,
         StepsAreCounted', trainer'.pc # "manifest",
         lastManifest'.files.updates = Uninterrupted(lastManifest'.step, lastManifest'.files.world)
  PROVE  PretrainInv'
<1> USE DEF PretrainInv
<1>1. CompletedSteps' = CompletedSteps
  BY DEF CompletedSteps
<1>2. \A n, w : Uninterrupted(n, w)' = Uninterrupted(n, w)
  BY DEF Uninterrupted
<1>3. PretrainTypes'
  BY DEF PretrainTypes
<1>4. StreamStands'
  BY <1>1 DEF StreamStands
<1>5. ManifestIsOfSaved'
  BY DEF ManifestIsOfSaved, Uninterrupted
<1>6. ResumeIsExact'
  BY <1>1 DEF ResumeIsExact, Uninterrupted
<1> QED
  BY <1>3, <1>4, <1>5, <1>6

LEMMA StartStep ==
  ASSUME PretrainInv, NEW w \in plan.worlds, StartTrainer(w)
  PROVE  PretrainInv'
<1> DEFINE n == IF Found = {} THEN 0 ELSE Max(Found)
           refused == n # 0 /\ (~Loads(checkpoints[n], w) \/ n >= plan.steps)
           a == plan.accumulation
           b == plan.batches
           t == IF n = 0 THEN << >> ELSE checkpoints[n].updates
<1>1. PretrainTypes /\ ResumeIsExact /\ ManifestIsOfSaved /\ w \in Nat \ {0}
      /\ a \in Nat \ {0} /\ b \in Nat \ {0} /\ plan.steps \in Nat \ {0}
  BY PlanFacts DEF PretrainInv
<1>2. /\ UNCHANGED <<plan, checkpoints, bestManifest, lastManifest, publication, trainerDeaths>>
      /\ trainer' =
           IF refused THEN [NoTrainer EXCEPT !.pc = "refused", !.world = w]
           ELSE [NoTrainer EXCEPT !.pc = "train", !.world = w, !.updates = t,
                   !.epoch = Cursor(n, w).epoch, !.offset = Cursor(n, w).offset]
  BY DEF StartTrainer
<1>3. n \in Nat /\ (n # 0 => n \in 1 .. plan.steps)
  <2>1. Found # {} => Max(Found) \in 1 .. plan.steps
    BY <1>1, FoundIs
  <2> QED
    BY <1>1, <2>1
<1>4. NoTrainer \in TrainerRow /\ NoTrainer.updates = << >>
  BY DEF NoTrainer, TrainerRow, Going, Kind
<1> HIDE DEF n
<1>5. \A k, v : Uninterrupted(k, v)' = Uninterrupted(k, v)
  BY <1>2 DEF Uninterrupted
<1>6. << >> \in Seq(Update) /\ Len(<< >>) = 0 /\ \A v \in Nat : Uninterrupted(0, v) = << >>
  <2>1. \A v \in Nat : Uninterrupted(0, v) \in Seq(Update) /\ Len(Uninterrupted(0, v)) = 0
    BY <1>1, UninterruptedIs
  <2>2. << >> \in Seq(Update) /\ Len(<< >>) = 0
    OBVIOUS
  <2> HIDE DEF Update
  <2> QED
    BY <2>1, <2>2, SeqEqual
<1>7. /\ trainer' \in TrainerRow /\ trainer'.world = w
      /\ trainer'.pc \in {"train", "refused"}
      /\ trainer'.updates = Uninterrupted(Len(trainer'.updates), w)
      /\ trainer'.pc = "train" => Len(trainer'.updates) < plan.steps
      /\ trainer'.offset <= b
      /\ trainer'.epoch * b + trainer'.offset = Len(trainer'.updates) * a
  <2>1. CASE refused
    <3>1. trainer' \in TrainerRow /\ trainer'.world = w /\ trainer'.pc = "refused"
          /\ trainer'.updates = << >> /\ trainer'.epoch = 0 /\ trainer'.offset = 0
      BY <1>1, <1>2, <1>4, <2>1 DEF TrainerRow, NoTrainer
    <3> QED
      BY <1>1, <1>6, <3>1
  <2>2. CASE ~refused
    <3>1. t \in Seq(Update) /\ Len(t) = n /\ t = Uninterrupted(n, w) /\ n < plan.steps
      <4>1. CASE n = 0
        BY <1>1, <1>6, <4>1
      <4>2. CASE n # 0
        <5>1. Loads(checkpoints[n], w) /\ n < plan.steps /\ n \in DOMAIN checkpoints
              /\ DOMAIN checkpoints = 1 .. plan.steps
          BY <1>1, <1>3, <2>2, <4>2 DEF PretrainTypes
        <5>2. checkpoints[n].state = "whole" /\ checkpoints[n].world = w
          BY <5>1 DEF Loads, ContractHolds
        <5>3. t = Uninterrupted(n, w)
          BY <1>1, <4>2, <5>1, <5>2 DEF ResumeIsExact
        <5> QED
          BY <1>1, <1>3, <5>1, <5>3, UninterruptedIs
      <4> QED
        BY <4>1, <4>2
    <3> DEFINE m == n * a
    <3>2. m \in Nat
      BY <1>1, <1>3
    <3>3. Cursor(n, w) = [epoch |-> m \div b, offset |-> m % b]
      BY DEF Cursor
    <3> DEFINE e == m \div b
               o == m % b
    <3>4. e \in Nat /\ o \in 0 .. b - 1 /\ m = e * b + o
      <4> HIDE DEF m
      <4> QED
        BY <1>1, <3>2, DivMod
    <3>5. trainer' = [NoTrainer EXCEPT !.pc = "train", !.world = w, !.updates = t, !.epoch = e, !.offset = o]
      BY <1>2, <2>2, <3>3
    <3>6. n * a = m
      OBVIOUS
    <3> HIDE DEF e, o, t, m, refused
    <3>7. trainer' \in TrainerRow /\ trainer'.world = w /\ trainer'.pc = "train"
          /\ trainer'.updates = t /\ trainer'.epoch = e /\ trainer'.offset = o
      <4>1. NoTrainer \in TrainerRow /\ w \in Nat \ {0} /\ t \in Seq(Update) /\ e \in Nat /\ o \in Nat
        BY <1>1, <1>4, <3>1, <3>4
      <4>2. "train" \in Going \union {"down", "refused"}
        BY DEF Going
      <4> HIDE DEF Update
      <4> QED
        BY <3>5, <4>1, <4>2 DEF TrainerRow
    <3> QED
      BY <1>1, <3>1, <3>4, <3>6, <3>7
  <2> QED
    BY <2>1, <2>2
<1> HIDE DEF refused, t
<1>8. PretrainTypes'
  BY <1>1, <1>2, <1>7 DEF PretrainTypes
<1>9. StreamStands'
  BY <1>2, <1>7 DEF StreamStands, CompletedSteps
<1>10. StepsAreCounted'
  BY <1>2, <1>7 DEF StepsAreCounted, CompletedSteps, Going
<1>11. ManifestIsOfSaved'
  BY <1>1, <1>2, <1>7 DEF ManifestIsOfSaved, Uninterrupted
<1>12. ResumeIsExact'
  <2>1. (trainer.updates = Uninterrupted(CompletedSteps, trainer.world))'
    BY <1>5, <1>7 DEF CompletedSteps
  <2> QED
    BY <1>1, <1>2, <2>1, ExactKeeps
<1> QED
  BY <1>8, <1>9, <1>10, <1>11, <1>12 DEF PretrainInv

LEMMA OptimizerStep ==
  ASSUME PretrainInv, TrainStep
  PROVE  PretrainInv'
<1> DEFINE a == plan.accumulation
           b == plan.batches
           n == CompletedSteps
           m == n * a
           last == Places[a]
           label == IF Due(plan.validate, n + 1) THEN "validate" ELSE AfterValidation(n + 1)
           t == Append(trainer.updates, NextUpdate(m))
<1>1. PretrainTypes /\ ResumeIsExact /\ ManifestIsOfSaved /\ StreamStands
      /\ a \in Nat \ {0} /\ b \in Nat \ {0} /\ plan.steps \in Nat \ {0}
      /\ n \in Nat /\ trainer.updates \in Seq(Update) /\ trainer.epoch \in Nat /\ trainer.offset \in Nat
      /\ trainer \in TrainerRow
  BY PlanFacts, TrainerFacts DEF PretrainInv, PretrainTypes
<1>2. m \in Nat /\ m = trainer.epoch * b + trainer.offset /\ trainer.offset <= b
  BY <1>1 DEF StreamStands
<1>3. UNION {Dealt(Places[k]) : k \in 1 .. a} = NextUpdate(m)
  <2> HIDE DEF m
  <2> QED
    BY <1>1, <1>2, StepTakes
<1>4. /\ t = Uninterrupted(n + 1, trainer.world) /\ t \in Seq(Update) /\ Len(t) = n + 1
  <2>1. trainer.updates = Uninterrupted(n, trainer.world) /\ m = n * a
    BY <1>1 DEF ResumeIsExact
  <2> HIDE DEF m, n
  <2> QED
    BY <1>1, <1>2, <2>1, OneMoreStep
<1> DEFINE p == m + a - 1
           e == p \div b
           o == p % b
<1>5. last = <<e, o>>
  <2>1. a \in 1 .. a
    BY <1>1
  <2> HIDE DEF m
  <2> QED
    BY <1>1, <1>2, <2>1, PlacesAre
<1>6. e \in Nat /\ o \in 0 .. b - 1 /\ p = e * b + o /\ p \in Nat
  <2> HIDE DEF m
  <2>1. p \in Nat
    BY <1>1, <1>2
  <2> HIDE DEF p
  <2> QED
    BY <1>1, <2>1, DivMod
<1>7. n < plan.steps
  BY DEF PretrainInv, StepsAreCounted, TrainStep, TrainerAt
<1>8. label \in Going \ {"manifest"} /\ (label = "train" => n + 1 < plan.steps)
  BY DEF AfterValidation, AfterSaves, Going
<1>9. trainer' = [trainer EXCEPT !.updates = t, !.epoch = e, !.offset = o + 1, !.pc = label]
      /\ UNCHANGED <<plan, checkpoints, bestManifest, lastManifest, publication, trainerDeaths>>
  <2>1. trainer' = [trainer EXCEPT
          !.updates = Append(trainer.updates, UNION {Dealt(Places[k]) : k \in 1 .. a}),
          !.epoch = last[1], !.offset = last[2] + 1, !.pc = label]
        /\ UNCHANGED <<plan, checkpoints, bestManifest, lastManifest, publication, trainerDeaths>>
    BY DEF TrainStep
  <2> HIDE DEF last, label, m, e, o
  <2> QED
    BY <1>3, <1>5, <2>1
<1>10. p + 1 = (n + 1) * a
  <2>1. (n + 1) * a = n * a + a
    BY <1>1
  <2> QED
    BY <1>1, <1>2, <2>1
<1> HIDE DEF t, e, o, p, label, n, m, last, a, b
<1>11. trainer' \in TrainerRow /\ trainer'.updates = t /\ trainer'.world = trainer.world
       /\ trainer'.epoch = e /\ trainer'.offset = o + 1 /\ trainer'.pc = label
  <2>1. trainer \in TrainerRow /\ t \in Seq(Update) /\ e \in Nat /\ o + 1 \in Nat
        /\ label \in Going \union {"down", "refused"}
    BY <1>1, <1>4, <1>6, <1>8
  <2> HIDE DEF Update
  <2> QED
    BY <1>9, <2>1 DEF TrainerRow
<1>12. CompletedSteps' = n + 1
  BY <1>4, <1>11 DEF CompletedSteps
<1>13. PretrainTypes'
  BY <1>1, <1>9, <1>11 DEF PretrainTypes
<1>14. StreamStands'
  <2>1. o + 1 <= b /\ e * b + (o + 1) = (n + 1) * a
    BY <1>1, <1>6, <1>10
  <2> QED
    BY <1>9, <1>11, <1>12, <2>1 DEF StreamStands, a, b
<1>15. StepsAreCounted'
  BY <1>1, <1>7, <1>8, <1>9, <1>11, <1>12 DEF StepsAreCounted
<1>16. ManifestIsOfSaved'
  BY <1>1, <1>8, <1>9, <1>11 DEF ManifestIsOfSaved, Uninterrupted
<1>17. ResumeIsExact'
  <2>1. (trainer.updates = Uninterrupted(CompletedSteps, trainer.world))'
    <3>1. Uninterrupted(CompletedSteps, trainer.world)' = Uninterrupted(n + 1, trainer.world)
      BY <1>9, <1>11, <1>12 DEF Uninterrupted
    <3> QED
      BY <1>4, <1>11, <3>1
  <2> QED
    BY <1>1, <1>9, <2>1, ExactKeeps
<1> QED
  BY <1>13, <1>14, <1>15, <1>16, <1>17 DEF PretrainInv

\* What a step needs to leave what is being trained as it is.
LEMMA LoopMoves ==
  ASSUME PretrainInv, UNCHANGED <<plan, checkpoints, lastManifest, publication, trainerDeaths>>,
         bestManifest' \in Manifest, trainer' \in TrainerRow,
         trainer'.updates = trainer.updates, trainer'.world = trainer.world,
         trainer'.epoch = trainer.epoch, trainer'.offset = trainer.offset,
         trainer.pc \in Going \ {"train"}, trainer'.pc # "manifest",
         trainer'.pc = "train" => CompletedSteps < plan.steps
  PROVE  PretrainInv'
<1>1. CompletedSteps' = CompletedSteps /\ CompletedSteps \in 1 .. plan.steps
  BY DEF CompletedSteps, PretrainInv, StepsAreCounted
<1>2. StepsAreCounted'
  BY <1>1 DEF StepsAreCounted
<1>3. lastManifest' \in Manifest
      /\ lastManifest'.files.updates = Uninterrupted(lastManifest'.step, lastManifest'.files.world)
  BY DEF PretrainInv, PretrainTypes, ManifestIsOfSaved
<1> QED
  BY <1>2, <1>3, LoopGoesOn

LEMMA ValidateStep ==
  ASSUME PretrainInv, NEW loss \in plan.losses, ValidateModel(loss)
  PROVE  PretrainInv'
<1> DEFINE better == trainer.best = 0 \/ loss < trainer.best
           stops == plan.patience > 0 /\ trainer.unimproved + 1 >= plan.patience
           best == IF better THEN loss ELSE trainer.best
           unimproved == IF better THEN 0 ELSE trainer.unimproved + 1
           stopped == ~better /\ stops
           label == CASE better -> "save_best"
                      [] ~better /\ stops -> "save_final"
                      [] OTHER -> AfterValidation(CompletedSteps)
<1>1. /\ trainer \in TrainerRow /\ PretrainTypes
      /\ plan.losses \subseteq Nat \ {0} /\ trainer.best \in Nat /\ trainer.unimproved \in Nat
      /\ bestManifest \in Manifest
  BY PlanFacts, TrainerFacts DEF PretrainInv, PretrainTypes
<1>2. /\ trainer.pc = "validate"
      /\ trainer' = [trainer EXCEPT !.loss = loss, !.best = best, !.unimproved = unimproved,
                       !.stopped = stopped, !.pc = label]
      /\ UNCHANGED <<plan, checkpoints, bestManifest, lastManifest, publication, trainerDeaths>>
  BY DEF ValidateModel, TrainerAt
<1>3. loss \in Nat /\ best \in Nat /\ unimproved \in Nat /\ stopped \in BOOLEAN
  BY <1>1
<1>4. label \in Going \ {"manifest"} /\ (label = "train" => CompletedSteps < plan.steps)
  BY DEF AfterValidation, AfterSaves, Going
<1> HIDE DEF best, unimproved, stopped, label, better, stops
<1>5. /\ trainer' \in TrainerRow /\ trainer'.updates = trainer.updates
      /\ trainer'.world = trainer.world /\ trainer'.epoch = trainer.epoch
      /\ trainer'.offset = trainer.offset /\ trainer'.pc = label
  <2>1. label \in Going \union {"down", "refused"}
    BY <1>4
  <2> HIDE DEF Update, Going
  <2> QED
    BY <1>1, <1>2, <1>3, <2>1 DEF TrainerRow
<1>6. trainer.pc \in Going \ {"train"}
  BY <1>2 DEF Going
<1> QED
  BY <1>1, <1>2, <1>4, <1>5, <1>6, LoopMoves

\* A save first spoils the checkpoint of its step, then it is of what is being
\* trained.
LEMMA CheckpointChanges ==
  ASSUME PretrainInv, NEW c \in Checkpoint, NEW row \in TrainerRow,
         c.state = "whole" => c.updates = trainer.updates /\ c.world = trainer.world,
         checkpoints' = [checkpoints EXCEPT ![CompletedSteps] = c], trainer' = row,
         UNCHANGED <<plan, bestManifest, lastManifest, publication, trainerDeaths>>,
         trainer.pc \in Going \ {"train"}, row.pc \in Going \ {"train"},
         row.pc = "manifest" => c.state = "whole",
         row.updates = trainer.updates, row.world = trainer.world,
         row.epoch = trainer.epoch, row.offset = trainer.offset
  PROVE  PretrainInv'
<1> DEFINE n == CompletedSteps
<1>1. PretrainTypes /\ ResumeIsExact /\ ManifestIsOfSaved /\ StreamStands
  BY DEF PretrainInv
<1>2. n \in 1 .. plan.steps
  BY DEF PretrainInv, StepsAreCounted
<1>3. CompletedSteps' = n
  BY DEF CompletedSteps
<1>4. checkpoints \in [1 .. plan.steps -> Checkpoint]
  BY <1>1 DEF PretrainTypes
<1> HIDE DEF n, Checkpoint, TrainerRow
<1>5. /\ checkpoints' \in [1 .. plan.steps -> Checkpoint] /\ checkpoints'[n] = c
      /\ \A k \in 1 .. plan.steps : k # n => checkpoints'[k] = checkpoints[k]
  BY <1>2, <1>4 DEF n
<1>6. PretrainTypes'
  BY <1>1, <1>5 DEF PretrainTypes
<1>7. StreamStands'
  BY <1>1, <1>3 DEF StreamStands, n
<1>8. StepsAreCounted'
  BY <1>2, <1>3 DEF StepsAreCounted
<1>9. ManifestIsOfSaved'
  <2>1. (lastManifest.files.updates = Uninterrupted(lastManifest.step, lastManifest.files.world))'
    BY <1>1 DEF ManifestIsOfSaved, Uninterrupted
  <2> QED
    BY <1>3, <1>5, <2>1 DEF ManifestIsOfSaved
<1>10. ResumeIsExact'
  <2>1. trainer.updates = Uninterrupted(n, trainer.world)
    BY <1>1 DEF ResumeIsExact, n
  <2>2. (trainer.updates = Uninterrupted(CompletedSteps, trainer.world))'
    BY <1>3, <2>1 DEF Uninterrupted
  <2>3. \A k \in 1 .. plan.steps : checkpoints'[k].state = "whole"
          => checkpoints'[k].updates = Uninterrupted(k, checkpoints'[k].world)
    <3> SUFFICES ASSUME NEW k \in 1 .. plan.steps, checkpoints'[k].state = "whole"
                 PROVE  checkpoints'[k].updates = Uninterrupted(k, checkpoints'[k].world)
      OBVIOUS
    <3>1. CASE k = n
      BY <1>5, <2>1, <3>1
    <3>2. CASE k # n
      BY <1>1, <1>4, <1>5, <3>2 DEF ResumeIsExact
    <3> QED
      BY <3>1, <3>2
  <2>4. (\A k \in DOMAIN checkpoints : checkpoints[k].state = "whole"
           => checkpoints[k].updates = Uninterrupted(k, checkpoints[k].world))'
    <3>1. DOMAIN checkpoints' = 1 .. plan.steps
      BY <1>5
    <3>2. SUFFICES ASSUME NEW k \in 1 .. plan.steps, checkpoints'[k].state = "whole"
                   PROVE  (checkpoints[k].updates = Uninterrupted(k, checkpoints[k].world))'
      BY <3>1
    <3>3. checkpoints'[k].updates = Uninterrupted(k, checkpoints'[k].world)
      BY <2>3, <3>2
    <3>4. plan' = plan
      OBVIOUS
    <3> QED
      BY <3>3, <3>4 DEF Uninterrupted
  <2>5. (\A p \in publication : p.files.updates = Uninterrupted(p.step, p.files.world))'
    BY <1>1 DEF ResumeIsExact, Uninterrupted
  <2> QED
    BY <2>2, <2>4, <2>5 DEF ResumeIsExact
<1> QED
  BY <1>6, <1>7, <1>8, <1>9, <1>10 DEF PretrainInv

LEMMA SaveSteps ==
  ASSUME PretrainInv, WriteCheckpoint \/ \E kind \in Kind : BeginSave(kind)
  PROVE  PretrainInv'
<1>1. trainer \in TrainerRow /\ PretrainTypes /\ trainer.updates \in Seq(Update)
      /\ trainer.world \in Nat /\ trainer.loss \in Nat /\ trainer.best \in Nat /\ trainer.saving \in Kind
  BY TrainerFacts DEF PretrainInv, PretrainTypes
<1>2. CASE WriteCheckpoint
  <2> DEFINE metrics == Metrics(trainer.saving)
             c == [state |-> "whole", updates |-> trainer.updates,
                   world |-> trainer.world, metrics |-> metrics]
             row == [trainer EXCEPT !.pc = "manifest"]
  <2>1. trainer.pc = "write" /\ trainer' = row /\ checkpoints' = [checkpoints EXCEPT ![CompletedSteps] = c]
        /\ UNCHANGED <<plan, bestManifest, lastManifest, publication, trainerDeaths>>
    BY <1>2 DEF WriteCheckpoint, TrainerAt, Now
  <2>2. metrics \in Nat \X Nat
    BY <1>1 DEF Metrics, Kind
  <2> HIDE DEF metrics, Update
  <2>3. c \in Checkpoint /\ c.updates = trainer.updates /\ c.world = trainer.world /\ c.state = "whole"
    BY <1>1, <2>2 DEF Checkpoint
  <2>4. row \in TrainerRow /\ row.pc = "manifest" /\ row.updates = trainer.updates
        /\ row.world = trainer.world /\ row.epoch = trainer.epoch /\ row.offset = trainer.offset
    BY <1>1 DEF TrainerRow, Going
  <2>5. trainer.pc \in Going \ {"train"} /\ row.pc \in Going \ {"train"}
    BY <2>1, <2>4 DEF Going
  <2> HIDE DEF c, row
  <2> QED
    BY <2>1, <2>3, <2>4, <2>5, CheckpointChanges
<1>3. ASSUME NEW kind \in Kind, BeginSave(kind) PROVE PretrainInv'
  <2> DEFINE c == IF plan.strategy = "fsdp" THEN Absent ELSE Torn
             row == [[trainer EXCEPT !.pc = "write"] EXCEPT !.saving = kind]
  <2>1. trainer' = row /\ checkpoints' = [checkpoints EXCEPT ![CompletedSteps] = c]
        /\ UNCHANGED <<plan, bestManifest, lastManifest, publication, trainerDeaths>>
    BY <1>3 DEF BeginSave, Now
  <2>2. trainer.pc \in Going \ {"train"}
    BY <1>3 DEF BeginSave, TrainerAt, Kind, Going
  <2>3. c \in Checkpoint /\ c.state # "whole"
    <3>1. << >> \in Seq(Update) /\ <<0, 0>> \in Nat \X Nat
      OBVIOUS
    <3> HIDE DEF Update
    <3>2. Absent \in Checkpoint /\ Absent.state = "absent"
      BY <3>1 DEF Absent, Checkpoint
    <3>3. Torn \in Checkpoint /\ Torn.state = "torn"
      BY <3>2 DEF Torn, Checkpoint
    <3> QED
      BY <3>2, <3>3
  <2> HIDE DEF Update
  <2>4. row \in TrainerRow /\ row.pc = "write" /\ row.updates = trainer.updates
        /\ row.world = trainer.world /\ row.epoch = trainer.epoch /\ row.offset = trainer.offset
    BY <1>1, <1>3 DEF TrainerRow, Going
  <2>5. row.pc \in Going \ {"train"}
    BY <2>4 DEF Going
  <2> HIDE DEF c, row
  <2> QED
    BY <2>1, <2>2, <2>3, <2>4, <2>5, CheckpointChanges
<1> QED
  BY <1>2, <1>3

LEMMA ManifestStep ==
  ASSUME PretrainInv, WriteManifest
  PROVE  PretrainInv'
<1> DEFINE n == CompletedSteps
           manifest == [step |-> n, files |-> checkpoints[n]]
           label == AfterManifest
           row == [trainer EXCEPT !.pc = label]
<1>1. /\ trainer \in TrainerRow /\ PretrainTypes /\ n \in Nat
      /\ trainer.saving \in Kind /\ bestManifest \in Manifest /\ lastManifest \in Manifest
      /\ checkpoints \in [1 .. plan.steps -> Checkpoint]
  BY TrainerFacts DEF PretrainInv, PretrainTypes
<1>2. /\ trainer.pc = "manifest" /\ trainer' = row
      /\ IF trainer.saving \in {"best", "best_final"}
         THEN bestManifest' = manifest /\ UNCHANGED lastManifest
         ELSE lastManifest' = manifest /\ UNCHANGED bestManifest
      /\ UNCHANGED <<plan, checkpoints, publication, trainerDeaths>>
  BY DEF WriteManifest, TrainerAt, Now
<1>3. trainer.pc \in Going \ {"train"} /\ n \in 1 .. plan.steps
  BY <1>2 DEF Going, PretrainInv, StepsAreCounted
<1>4. label \in Going \ {"manifest"} /\ (label = "train" => n < plan.steps)
  BY DEF AfterManifest, AfterValidation, AfterSaves, Going
<1> HIDE DEF label, Update
<1>5. row \in TrainerRow /\ row.pc = label /\ row.updates = trainer.updates
      /\ row.world = trainer.world /\ row.epoch = trainer.epoch /\ row.offset = trainer.offset
  <2>1. label \in Going \union {"down", "refused"}
    BY <1>4
  <2> HIDE DEF Going
  <2> QED
    BY <1>1, <2>1 DEF TrainerRow
<1>6. manifest \in Manifest
      /\ manifest.files.updates = Uninterrupted(manifest.step, manifest.files.world)
  <2>1. checkpoints[n] \in Checkpoint
    BY <1>1, <1>3
  <2>2. checkpoints[n].updates = trainer.updates /\ checkpoints[n].world = trainer.world
    BY <1>2 DEF PretrainInv, ManifestIsOfSaved
  <2>3. trainer.updates = Uninterrupted(n, trainer.world)
    BY DEF PretrainInv, ResumeIsExact
  <2> HIDE DEF n
  <2> QED
    BY <1>1, <2>1, <2>2, <2>3 DEF Manifest
<1> HIDE DEF manifest, row, n
<1>7. bestManifest' \in Manifest /\ lastManifest' \in Manifest
      /\ lastManifest'.files.updates = Uninterrupted(lastManifest'.step, lastManifest'.files.world)
  BY <1>1, <1>2, <1>6 DEF PretrainInv, ManifestIsOfSaved
<1>8. CompletedSteps' = n
  BY <1>2, <1>5 DEF CompletedSteps, n
<1>9. StepsAreCounted'
  BY <1>2, <1>3, <1>4, <1>5, <1>8 DEF StepsAreCounted, n
<1> QED
  BY <1>2, <1>4, <1>5, <1>7, <1>9, LoopGoesOn

LEMMA EndSteps ==
  ASSUME PretrainInv, ReloadCheckpoint \/ WriteReport
  PROVE  PretrainInv'
<1>1. PICK label \in {"publish", "refused", "done"} :
        /\ trainer' = [trainer EXCEPT !.pc = label] /\ trainer.pc \in {"reload", "report"}
        /\ UNCHANGED <<plan, checkpoints, bestManifest, lastManifest, publication, trainerDeaths>>
  BY DEF ReloadCheckpoint, WriteReport, TrainerAt, Now
<1>2. trainer \in TrainerRow /\ bestManifest \in Manifest
  BY DEF PretrainInv, PretrainTypes
<1> HIDE DEF Update
<1>3. trainer' \in TrainerRow /\ trainer'.pc = label /\ trainer'.updates = trainer.updates
      /\ trainer'.world = trainer.world /\ trainer'.epoch = trainer.epoch /\ trainer'.offset = trainer.offset
  BY <1>1, <1>2 DEF TrainerRow, Going
<1>4. trainer.pc \in Going \ {"train"}
  BY <1>1 DEF Going
<1> QED
  BY <1>1, <1>2, <1>3, <1>4, LoopMoves

LEMMA PublishStep ==
  ASSUME PretrainInv, PublishCheckpoint
  PROVE  PretrainInv'
<1>1. PICK label \in {"report", "refused"} :
        /\ trainer' = [trainer EXCEPT !.pc = label] /\ trainer.pc = "publish"
        /\ publication' \subseteq publication \union {lastManifest} /\ publication \subseteq publication'
        /\ UNCHANGED <<plan, checkpoints, bestManifest, lastManifest, trainerDeaths>>
  BY DEF PublishCheckpoint, TrainerAt, Now
<1>2. trainer \in TrainerRow /\ PretrainTypes
  BY DEF PretrainInv, PretrainTypes
<1> HIDE DEF Update
<1>3. trainer' \in TrainerRow /\ trainer'.pc = label /\ trainer'.updates = trainer.updates
      /\ trainer'.world = trainer.world /\ trainer'.epoch = trainer.epoch /\ trainer'.offset = trainer.offset
  BY <1>1, <1>2 DEF TrainerRow, Going
<1>4. CompletedSteps' = CompletedSteps /\ CompletedSteps \in 1 .. plan.steps
  BY <1>1, <1>3 DEF CompletedSteps, PretrainInv, StepsAreCounted, Going
<1>5. PretrainTypes'
  BY <1>1, <1>2, <1>3 DEF PretrainTypes
<1>6. StreamStands' /\ StepsAreCounted'
  BY <1>1, <1>3, <1>4 DEF StreamStands, StepsAreCounted, PretrainInv
<1>7. ManifestIsOfSaved'
  BY <1>1, <1>3 DEF ManifestIsOfSaved, PretrainInv, Uninterrupted
<1>8. ResumeIsExact'
  <2>1. ResumeIsExact
        /\ lastManifest.files.updates = Uninterrupted(lastManifest.step, lastManifest.files.world)
    BY DEF PretrainInv, ManifestIsOfSaved
  <2>2. (trainer.updates = Uninterrupted(CompletedSteps, trainer.world))'
    BY <1>1, <1>3, <1>4, <2>1 DEF ResumeIsExact, Uninterrupted
  <2>3. (\A n \in DOMAIN checkpoints : checkpoints[n].state = "whole"
           => checkpoints[n].updates = Uninterrupted(n, checkpoints[n].world))'
    BY <1>1, <2>1 DEF ResumeIsExact, Uninterrupted
  <2>4. \A p \in publication' : p.files.updates = Uninterrupted(p.step, p.files.world)
    BY <1>1, <2>1 DEF ResumeIsExact
  <2>5. (\A p \in publication : p.files.updates = Uninterrupted(p.step, p.files.world))'
    BY <1>1, <2>4 DEF Uninterrupted
  <2> QED
    BY <2>2, <2>3, <2>5 DEF ResumeIsExact
<1> QED
  BY <1>5, <1>6, <1>7, <1>8 DEF PretrainInv

LEMMA StartsFresh == NoTrainer \in TrainerRow /\ NoTrainer.updates = << >> /\ NoTrainer.pc = "down"
                       /\ NoTrainer.epoch = 0 /\ NoTrainer.offset = 0 /\ NoTrainer.world = 1
BY DEF NoTrainer, TrainerRow, Going, Kind

\* A world that takes no step has an empty run.
LEMMA NothingTaken ==
  ASSUME PretrainTypes, NEW w \in Nat
  PROVE  Uninterrupted(0, w) = << >> /\ Len(<< >>) = 0
<1>1. Uninterrupted(0, w) \in Seq(Update) /\ Len(Uninterrupted(0, w)) = 0
  BY UninterruptedIs
<1>2. << >> \in Seq(Update) /\ Len(<< >>) = 0
  OBVIOUS
<1> HIDE DEF Update
<1> QED
  BY <1>1, <1>2, SeqEqual

LEMMA DeathStep ==
  ASSUME PretrainInv, TrainerDies
  PROVE  PretrainInv'
<1>1. /\ trainer' = NoTrainer /\ trainerDeaths' = trainerDeaths + 1
      /\ UNCHANGED <<plan, checkpoints, bestManifest, lastManifest, publication>>
  BY DEF TrainerDies
<1>2. PretrainTypes /\ ResumeIsExact /\ ManifestIsOfSaved
      /\ plan.batches \in Nat \ {0} /\ plan.accumulation \in Nat \ {0}
  BY PlanFacts DEF PretrainInv
<1>3. PretrainTypes'
  BY <1>1, <1>2, StartsFresh DEF PretrainTypes
<1>4. CompletedSteps' = 0 /\ Uninterrupted(0, 1) = << >>
  BY <1>1, <1>2, StartsFresh, NothingTaken DEF CompletedSteps
<1>5. StreamStands' /\ StepsAreCounted'
  BY <1>1, <1>2, <1>4, StartsFresh DEF StreamStands, StepsAreCounted, Going
<1>6. ManifestIsOfSaved'
  BY <1>1, <1>2, StartsFresh DEF ManifestIsOfSaved, Uninterrupted
<1>7. ResumeIsExact'
  <2>1. (trainer.updates = Uninterrupted(CompletedSteps, trainer.world))'
    <3>1. Uninterrupted(CompletedSteps, trainer.world)' = Uninterrupted(0, 1)
      BY <1>1, <1>4, StartsFresh DEF Uninterrupted
    <3> QED
      BY <1>1, <1>4, <3>1, StartsFresh
  <2> QED
    BY <1>1, <1>2, <2>1, ExactKeeps
<1> QED
  BY <1>3, <1>5, <1>6, <1>7 DEF PretrainInv

LEMMA PretrainStarts ==
  ASSUME PretrainInit
  PROVE  PretrainInv
<1>1. Absent \in Checkpoint /\ Absent.state = "absent" /\ Absent.updates = << >> /\ Absent.world = 0
  <2>1. << >> \in Seq(Update) /\ <<0, 0>> \in Nat \X Nat
    OBVIOUS
  <2> HIDE DEF Update
  <2> QED
    BY <2>1 DEF Absent, Checkpoint
<1>2. NoManifest \in Manifest /\ NoManifest.files = Absent /\ NoManifest.step = 0
  BY <1>1 DEF NoManifest, Manifest
<1>3. PretrainTypes
  BY <1>1, <1>2, StartsFresh DEF PretrainInit, PretrainTypes
<1>4. plan.batches \in Nat \ {0} /\ plan.accumulation \in Nat \ {0}
  BY <1>3, PlanFacts
<1>5. CompletedSteps = 0 /\ Uninterrupted(0, 1) = << >> /\ Uninterrupted(0, 0) = << >>
  BY <1>3, StartsFresh, NothingTaken DEF CompletedSteps, PretrainInit
<1>6. StreamStands /\ StepsAreCounted
  BY <1>4, <1>5, StartsFresh DEF StreamStands, StepsAreCounted, PretrainInit, Going
<1>7. ManifestIsOfSaved
  BY <1>1, <1>2, <1>5, StartsFresh DEF ManifestIsOfSaved, PretrainInit
<1>8. ResumeIsExact
  BY <1>1, <1>5, StartsFresh DEF ResumeIsExact, PretrainInit
<1> QED
  BY <1>3, <1>6, <1>7, <1>8 DEF PretrainInv

LEMMA PretrainStutters ==
  ASSUME PretrainInv, UNCHANGED pretrainVars
  PROVE  PretrainInv'
<1>1. UNCHANGED <<plan, checkpoints, bestManifest, lastManifest, trainer, publication, trainerDeaths>>
  BY DEF pretrainVars
<1>2. CompletedSteps' = CompletedSteps
  BY <1>1 DEF CompletedSteps
<1>3. PretrainTypes' /\ StreamStands' /\ StepsAreCounted'
  BY <1>1, <1>2 DEF PretrainInv, PretrainTypes, StreamStands, StepsAreCounted
<1>4. ManifestIsOfSaved'
  BY <1>1, <1>2 DEF PretrainInv, ManifestIsOfSaved, Uninterrupted
<1>5. (trainer.updates = Uninterrupted(CompletedSteps, trainer.world))'
  BY <1>1, <1>2 DEF PretrainInv, ResumeIsExact, Uninterrupted
<1>6. ResumeIsExact'
  BY <1>1, <1>5, ExactKeeps DEF PretrainInv
<1> QED
  BY <1>3, <1>4, <1>6 DEF PretrainInv

LEMMA PretrainStep ==
  ASSUME PretrainInv, [PretrainNext]_pretrainVars
  PROVE  PretrainInv'
<1>1. ASSUME NEW w \in plan.worlds, StartTrainer(w) PROVE PretrainInv'
  BY <1>1, StartStep
<1>2. ASSUME TrainStep PROVE PretrainInv'
  BY <1>2, OptimizerStep
<1>3. ASSUME NEW loss \in plan.losses, ValidateModel(loss) PROVE PretrainInv'
  BY <1>3, ValidateStep
<1>4. ASSUME WriteCheckpoint \/ \E kind \in Kind : BeginSave(kind) PROVE PretrainInv'
  BY <1>4, SaveSteps
<1>5. ASSUME WriteManifest PROVE PretrainInv'
  BY <1>5, ManifestStep
<1>6. ASSUME ReloadCheckpoint \/ PublishCheckpoint \/ WriteReport PROVE PretrainInv'
  BY <1>6, EndSteps, PublishStep
<1>7. ASSUME TrainerDies PROVE PretrainInv'
  BY <1>7, DeathStep
<1>8. ASSUME UNCHANGED pretrainVars PROVE PretrainInv'
  BY <1>8, PretrainStutters
<1> QED
  BY <1>1, <1>2, <1>3, <1>4, <1>5, <1>6, <1>7, <1>8 DEF PretrainNext, Kind

\* What is being trained, the checkpoint directories, the manifests and the
\* publications of run_pretraining have their types, for every plan.
THEOREM PretrainIsTyped == PretrainSpec => []PretrainTypes
<1>1. PretrainInit => PretrainInv
  BY PretrainStarts
<1>2. PretrainInv /\ [PretrainNext]_pretrainVars => PretrainInv'
  BY PretrainStep
<1>3. PretrainInv => PretrainTypes
  BY DEF PretrainInv
<1> QED
  BY <1>1, <1>2, <1>3, PTL DEF PretrainSpec

\* However often the process of run_pretraining dies and is started again, on
\* whatever worlds its plan allows, what it trains, saves and publishes took
\* each batch that an uninterrupted run takes, once, and no other.
THEOREM ResumesExactly == PretrainSpec => []ResumeIsExact
<1>1. PretrainInit => PretrainInv
  BY PretrainStarts
<1>2. PretrainInv /\ [PretrainNext]_pretrainVars => PretrainInv'
  BY PretrainStep
<1>3. PretrainInv => ResumeIsExact
  BY DEF PretrainInv
<1> QED
  BY <1>1, <1>2, <1>3, PTL DEF PretrainSpec
=============================================================================
