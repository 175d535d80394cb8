----------------------------- MODULE MCGateway ------------------------------
(* Parts that share no state, checked side by side: each behaviour is one of *)
(* one part, which is chosen in the first state, while the others stay as    *)
(* they are.                                                                 *)
EXTENDS MCWorkerPool, Calibration, DataPipeline, Crawl, Serving, QualificationLadder, Experiments

CONSTANTS i1, i2, u1, u2, u3, Parts
VARIABLE part

\* A page that links to two others of the same text, which link back.
MCLinks == [u \in Urls |-> IF u = u1 THEN {u2, u3} ELSE {u1}]
MCText == [u \in Urls |-> IF u = u1 THEN "one" ELSE "other"]
\* A command run twice, a worker that goes on, a supervisor.
Crawls(engines, runs, frontiers) == [engines |-> engines, runs |-> runs, frontiers |-> frontiers]
MCCrawling ==
  "cli" :> Crawls(2, 1, {"sqlite"}) @@ "worker" :> Crawls(1, 2, {"postgres"})
    @@ "supervisor" :> Crawls(2, 1, {"postgres"})
MCCrawlers == {<<"cli", 1>>, <<"cli", 2>>, <<"worker", 1>>, <<"supervisor", 1>>}

\* The evidence whose files stay as they are.
KeptEvidence == {e \in Evidences : e[2] # 1}

allVars ==
  <<part, poolVars, reviewVars, calibrationVars, pipelineVars, crawlVars, servingVars,
    ladderVars, experimentVars>>

MCInit ==
  /\ part \in Parts
  /\ PoolInit /\ ReviewInit /\ CalibrationInit /\ PipelineInit
  /\ CrawlInit /\ ServingInit /\ LadderInit /\ ExperimentInit
  \* The choices that other parts leave open are of no matter to them.
  /\ part # "review" => backend = "sqlite"
  /\ part # "pipeline" => production
  /\ part # "crawl" => frontier = "sqlite"
  /\ part # "campaign" => quality = [n \in Positions |-> 0]

OthersStay ==
  /\ UNCHANGED part
  /\ part # "tasks" => UNCHANGED poolVars
  /\ part \notin {"review", "calibration"} => UNCHANGED reviewVars
  /\ part # "calibration" => UNCHANGED calibrationVars
  /\ part # "pipeline" => UNCHANGED pipelineVars
  /\ part # "crawl" => UNCHANGED crawlVars
  /\ part # "serving" => UNCHANGED servingVars
  /\ part # "campaign" => UNCHANGED ladderVars
  /\ part # "experiment" => UNCHANGED experimentVars

MCNext ==
  \/ part = "tasks" /\ PoolNext /\ OthersStay
  \/ part = "review" /\ ReviewNext /\ OthersStay
  \* Calibrations sample one record; the lease of a decision is of no matter.
  \/ /\ part = "calibration" /\ CalibrationNext /\ OthersStay
     /\ review'[i2] = review[i2] /\ \A a \in assignments'[i1] : a.submitted => ~a.lapsed
  \/ part = "pipeline" /\ PipelineNext /\ OthersStay
  \/ part = "crawl" /\ CrawlNext /\ OthersStay
  \/ part = "serving" /\ ServingNext /\ OthersStay
  \/ part = "campaign" /\ LadderNext /\ OthersStay
  \* One arm's files stand for those that change under an experiment.
  \/ part = "experiment" /\ ExperimentNext /\ OthersStay /\ KeptEvidence \subseteq artifactsSound'
  \* Only the pool has to go on.
  \/ part # "tasks" /\ UNCHANGED allVars

MCSpec == MCInit /\ [][MCNext]_allVars
=============================================================================
