----------------------------- MODULE MCServices -----------------------------
(* Parts that share no state, checked side by side: each behaviour is one of *)
(* one part, which is chosen in the first state, while the others stay as    *)
(* they are.  A training job and a pool run under fairness here; the other   *)
(* parts may stop.                                                           *)
EXTENDS MCWorkerPool, TrainingJobs, PretrainLoop

CONSTANTS h1, Parts
VARIABLE part

\* A job that is retried or preempted, one whose surroundings fail, one that is resumed, one
\* without a scheduler.
Job(s, n, kinds, n_resumes, failures) ==
  [scheduler |-> s, maximum_attempts |-> n, kinds |-> kinds, events |-> 1, resumes |-> n_resumes,
   failures |-> failures, hiccups |-> IF failures = {} THEN 0 ELSE 1]
MCJobs ==
  {Job("cluster", 2, {"running", "complete", "error"}, 0, {"preempt"}),
   Job("cluster", 2, {"error"}, 0, {"crash", "redis", "scheduler", "rotate"}),
   Job("cluster", 1, {"fatal"}, 1, {}),
   Job("notebook", 1, {"evaluation"}, 1, {})}

\* Epochs end within steps, between them and never; validations with and
\* without saves; early stopping; a world that changes between starts.
Run(strategy, worlds, steps, accumulation, batches, validate, checkpoint, patience) ==
  [strategy |-> strategy, worlds |-> worlds, steps |-> steps, accumulation |-> accumulation,
   batches |-> batches, validate |-> validate, checkpoint |-> checkpoint,
   patience |-> patience, losses |-> {1, 2}]
MCPlans ==
  {Run("none", {1}, 4, 2, 3, 1, 2, 2), Run("none", {1}, 3, 1, 2, 2, 1, 0),
   Run("none", {1}, 2, 1, 2, 0, 1, 0), Run("fsdp", {1, 2}, 3, 2, 3, 2, 1, 0)}

MCInit ==
  /\ part \in Parts
  /\ PoolInit /\ TrainingInit /\ PretrainInit
  \* The choices that the other parts leave open are of no matter to a part.
  /\ part # "jobs" => spec = CHOOSE j \in Jobs : TRUE
  /\ part # "pretrain" => plan = CHOOSE p \in Plans : TRUE

MCNext ==
  /\ UNCHANGED part
  /\ \/ part = "tasks" /\ PoolNext /\ UNCHANGED <<trainingVars, pretrainVars>>
     \/ part = "jobs" /\ TrainingNext /\ UNCHANGED <<poolVars, pretrainVars>>
     \/ part = "pretrain" /\ PretrainNext /\ UNCHANGED <<poolVars, trainingVars>>

\* The fairness of WorkerPool and of TrainingJobs, each where its part runs.
MCFairness ==
  /\ \A p \in Workers :
       /\ WF_poolVars(part = "tasks" /\ RuntimeStep(p))
       /\ WF_poolVars(part = "tasks" /\ LoopStep(p))
       /\ WF_poolVars(part = "tasks" /\ ExecutionEnds(p))
       /\ WF_poolVars(part = "tasks" /\ Reply(p) /\ UNCHANGED pool)
       /\ \A t \in Tasks : WF_poolVars(part = "tasks" /\ HandlerStep(p, t))
  /\ WF_trainingVars(part = "jobs" /\ Reconcile)
  /\ \A h \in Handlers : WF_trainingVars(part = "jobs" /\ Serve(h))
  /\ WF_trainingVars(part = "jobs" /\
       \E a \in 1 .. Len(cluster) : WorkerStarts(a) \/ WorkerEnds(a))

MCSpec ==
  MCInit /\ [][MCNext]_<<part, poolVars, trainingVars, pretrainVars>> /\ MCFairness
=============================================================================
