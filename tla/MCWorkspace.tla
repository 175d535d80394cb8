---------------------------- MODULE MCWorkspace -----------------------------
(* The parts of the training workspace, checked side by side: each behaviour *)
(* is one of one part, which is chosen in the first state, while the others  *)
(* stay as they are.  What one part assumes of another is in its module.     *)
EXTENDS TrainingJobs, TrainingEvents, CheckpointPromotion, TrainingAdmission, TLC

CONSTANTS r1, r2, k1, k2, k3, k4, Parts
VARIABLE part

\* The second event of a rank finds the queue full.
MCMaxEmitted == r1 :> 2 @@ r2 :> 1
MCDurableSets == {{<<r1, 1>>, <<r2, 1>>}, {<<r1, 2>>, <<r2, 1>>}}
\* Two requests at a time; the controller or a gateway dies once in a job of
\* the cluster.  Where nothing dies, the controller retries: once with
\* attempts that report that they run and may be preempted, twice with attempts
\* that say nothing.
MCJob(s, n, says, e, fails, c) ==
  [scheduler |-> s, maximum_attempts |-> n, kinds |-> says, events |-> e,
   resumes |-> 0, failures |-> fails, hiccups |-> c]
MCJobs ==
  {MCJob("cluster", 1, {"checkpoint", "complete"}, 2, {"crash"}, 1),
   MCJob("notebook", 1, {"checkpoint", "complete"}, 2, {"crash"}, 0),
   MCJob("cluster", 2, {"running"}, 1, {"preempt"}, 0),
   MCJob("cluster", 3, {}, 0, {}, 0)}
MCMilestone == [k \in Keys |-> IF k = k3 THEN 2 ELSE 1]

MCInit ==
  /\ part \in Parts
  /\ TrainingInit /\ EventsInit /\ PromotionInit /\ AdmissionInit
  \* The choices that the other parts leave open are of no matter to a part.
  /\ part # "jobs" => spec = CHOOSE j \in Jobs : TRUE
  /\ part # "events" => durable = CHOOSE d \in DurableSets : TRUE

MCNext ==
  /\ UNCHANGED part
  /\ \/ /\ part = "jobs" /\ TrainingNext
        /\ UNCHANGED <<eventsVars, promotionVars, admissionVars>>
     \/ /\ part = "events" /\ EventsNext
        /\ UNCHANGED <<trainingVars, promotionVars, admissionVars>>
     \/ /\ part = "promotion" /\ PromotionNext
        /\ UNCHANGED <<trainingVars, eventsVars, admissionVars>>
     \/ /\ part = "admission" /\ AdmissionNext
        /\ UNCHANGED <<trainingVars, eventsVars, promotionVars>>

MCSpec ==
  MCInit /\ [][MCNext]_<<part, trainingVars, eventsVars, promotionVars, admissionVars>>

\* Handlers, Requests, Servers and Gateways are one set; three keys are of the
\* first milestone.
MCSymmetry == {f @@ g : f \in Permutations(Handlers), g \in Permutations({k1, k2, k4})}
=============================================================================
