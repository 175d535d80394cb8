---------------------------- MODULE TrainingJobs ----------------------------
(***************************************************************************)
(* One training job of training_workspace.py: its row in training_jobs and *)
(* its attempts, which clients change through the gateway                  *)
(* (TrainingWorkspaceService), the controller by following the cluster's   *)
(* scheduler (TrainingController) and the workers by the events they send  *)
(* (ingest_events, _apply_event_state).                                    *)
(*                                                                         *)
(* A step is what happens between two awaits that other actors can come    *)
(* between: one transaction of Postgres or one call of the scheduler.  A   *)
(* frame holds the row as its actor read it, so that what is stale in the  *)
(* code is stale here.  An attempt is its number, which is also the name   *)
(* of its job at the scheduler; an event is the position at which its      *)
(* attempt's worker emitted it.                                            *)
(***************************************************************************)
EXTENDS Naturals, Sequences, FiniteSets

CONSTANTS
  Handlers,     \* requests the gateways serve at a time
  Jobs          \* what jobs there are, each with the bounds of its behaviours

\* The fields of a spec that matter here, then the bounds: the kinds of events
\* its workers emit and how many each, successful resumes, which of "crash",
\* "redis", "scheduler" and "rotate" happen and how often, and whether the
\* scheduler takes jobs away ("preempt").
ASSUME TrainingAssumption ==
  \A j \in Jobs :
    /\ j.scheduler \in {"cluster", "notebook"}
    /\ j.maximum_attempts \in Nat \ {0}
    /\ {j.events, j.resumes, j.hiccups} \subseteq Nat

VARIABLES
  spec,       \* the job's member of Jobs
  job,        \* the row of training_jobs
  attempts,   \* training_attempts.status by attempt_number
  cluster,    \* what the scheduler reports of each attempt
  emitted,    \* the kinds of the events each attempt's worker emitted
  ingress,    \* training_event_ingress: the events that have a sequence
  api,        \* the requests being served
  ctl,        \* the controller
  promoted,   \* the job has a checkpoint artifact with promoted set
  resumes, hiccups

storeVars == <<job, attempts, ingress, promoted>>
worldVars == <<cluster, emitted>>
trainingVars == <<spec, storeVars, worldVars, api, ctl, resumes, hiccups>>

TerminalStates == {"succeeded", "failed", "blocked", "cancelled"}

\* ALLOWED_TRANSITIONS.  A job that was not created yet is "absent".
AllowedTransitions ==
  [absent |-> {},
   validating |-> {"queued", "blocked", "cancelled"},
   queued |-> {"provisioning", "cancelled", "blocked"},
   provisioning |-> {"running", "failed", "blocked", "cancelled"},
   running |-> {"checkpointing", "evaluating", "succeeded", "failed", "blocked", "cancelled"},
   checkpointing |-> {"running", "evaluating", "failed", "blocked", "cancelled"},
   evaluating |-> {"running", "succeeded", "failed", "blocked", "cancelled"},
   succeeded |-> {}, failed |-> {"queued"}, blocked |-> {}, cancelled |-> {"queued"}]

JobStatus == DOMAIN AllowedTransitions

\* cur: current_attempt_id; binding: scheduler_binding, the attempt whose
\* scheduler job it names; 0 for none.
NoJob == [status |-> "absent", version |-> 0, cur |-> 0, binding |-> 0]

NoBatch == [attempt |-> 0, events |-> {}]
Idle == [pc |-> "idle", job |-> NoJob, target |-> "absent", batch |-> NoBatch]

TrainingInit ==
  /\ spec \in Jobs
  /\ job = NoJob
  /\ attempts = << >>
  /\ cluster = << >>
  /\ emitted = << >>
  /\ ingress = {}
  /\ api = [h \in Handlers |-> Idle]
  /\ ctl = Idle
  /\ promoted = FALSE
  /\ resumes = 0
  /\ hiccups = 0
-----------------------------------------------------------------------------
(* PostgresTrainingStore: each operation is one transaction. *)

\* transition_job commits only at the version its caller read.
\* Mutant: the row that was read is checked instead.
PermittedByRead(read, target) == target \in AllowedTransitions[read.status]
Permitted(read, target) ==
  /\ job.version = read.version
  /\ target \in AllowedTransitions[job.status]

\* Mutant: the version is not raised.
MovedInPlace(target) == [job EXCEPT !.status = target]
Moved(target) == [job EXCEPT !.status = target, !.version = @ + 1]

\* update_binding.
Bound(ext) == [job EXCEPT !.binding = ext, !.version = @ + 1]

\* create_attempt: the row and current_attempt_id, which raises no version.
\* Mutant: attempts are counted from the new one.
NextAttemptLate == Len(attempts) + 2
NextAttempt == Len(attempts) + 1

CreateAttempt ==
  /\ attempts' = Append(attempts, "provisioning")
  /\ cluster' = Append(cluster, "none")
  /\ emitted' = Append(emitted, << >>)
  /\ job' = [job EXCEPT !.cur = NextAttempt]

\* update_attempt_status; an actor whose row names no attempt skips it.
UpdateAttemptStatus(a, target) ==
  attempts' = IF a = 0 THEN attempts ELSE [attempts EXCEPT ![a] = target]
-----------------------------------------------------------------------------
(* Requests of clients and workers, served by the gateways. *)

ApiAt(h, label) == api[h].pc = label
ApiEnter(h, frame) == api' = [api EXCEPT ![h] = frame]
Finish(h) == ApiEnter(h, Idle)
ApiStep(h, label) == ApiEnter(h, [api[h] EXCEPT !.pc = label])

\* A transition by the row the handler read; a conflict raises.
TryMove(h, target, label) ==
  IF Permitted(api[h].job, target)
  THEN /\ job' = Moved(target)
       /\ ApiEnter(h, IF label = "idle" THEN Idle
                   ELSE [api[h] EXCEPT !.pc = label, !.job = Moved(target), !.target = target])
  ELSE UNCHANGED job /\ Finish(h)

\* create_job: the key is looked up, the row inserted as validating, then
\* queued.  A second request with the key returns the row it finds; when it
\* finds none and comes second at the insert, it fails.
BeginCreate(h) ==
  /\ ApiAt(h, "idle")
  /\ job.status = "absent"
  /\ ApiStep(h, "insert")
  /\ UNCHANGED <<spec, storeVars, worldVars, ctl, resumes, hiccups>>

InsertJob(h) ==
  /\ ApiAt(h, "insert")
  /\ IF job.status = "absent"
     THEN /\ job' = [NoJob EXCEPT !.status = "validating", !.version = 1]
          /\ ApiEnter(h, [api[h] EXCEPT !.pc = "queue", !.job = job'])
     ELSE UNCHANGED job /\ Finish(h)
  /\ UNCHANGED <<spec, attempts, ingress, promoted, worldVars, ctl, resumes, hiccups>>

QueueJob(h) ==
  /\ ApiAt(h, "queue")
  /\ TryMove(h, "queued", "idle")
  /\ UNCHANGED <<spec, attempts, ingress, promoted, worldVars, ctl, resumes, hiccups>>

\* cancel_job, as the gateway calls it: without a scheduler.
BeginCancel(h) ==
  /\ ApiAt(h, "idle")
  /\ job.status \notin TerminalStates \union {"absent"}
  /\ ApiEnter(h, [Idle EXCEPT !.pc = "cancel", !.job = job])
  /\ UNCHANGED <<spec, storeVars, worldVars, ctl, resumes, hiccups>>

\* The attempt that is marked is the one of the row read first.
CancelRequested(h) ==
  /\ ApiAt(h, "cancel")
  /\ IF Permitted(api[h].job, "cancelled")
     THEN /\ job' = Moved("cancelled")
          /\ ApiEnter(h, [api[h] EXCEPT !.pc = "mark", !.target = "cancelled"])
     ELSE UNCHANGED job /\ Finish(h)
  /\ UNCHANGED <<spec, attempts, ingress, promoted, worldVars, ctl, resumes, hiccups>>

\* resume_job wants an artifact that is promoted; register_artifact adds it.
RegisterPromoted ==
  /\ job.status # "absent"
  /\ ~promoted
  /\ spec.resumes > 0
  /\ promoted' = TRUE
  /\ UNCHANGED <<spec, job, attempts, ingress, worldVars, api, ctl, resumes, hiccups>>

BeginResume(h) ==
  /\ ApiAt(h, "idle")
  /\ job.status \in {"failed", "cancelled"}
  /\ promoted
  /\ resumes < spec.resumes
  /\ ApiEnter(h, [Idle EXCEPT !.pc = "resume", !.job = job])
  /\ UNCHANGED <<spec, storeVars, worldVars, ctl, resumes, hiccups>>

Resume(h) ==
  /\ ApiAt(h, "resume")
  /\ resumes' = IF Permitted(api[h].job, "queued") THEN resumes + 1 ELSE resumes
  /\ TryMove(h, "queued", "idle")
  /\ UNCHANGED <<spec, attempts, ingress, promoted, worldVars, ctl, hiccups>>

\* claim_notebook_job: provisioning, the attempt, running, its status.
BeginClaim(h) ==
  /\ ApiAt(h, "idle")
  /\ spec.scheduler = "notebook"
  /\ job.status = "queued"
  /\ ApiEnter(h, [Idle EXCEPT !.pc = "claim", !.job = job])
  /\ UNCHANGED <<spec, storeVars, worldVars, ctl, resumes, hiccups>>

ClaimProvision(h) ==
  /\ ApiAt(h, "claim")
  /\ TryMove(h, "provisioning", "attempt")
  /\ UNCHANGED <<spec, attempts, ingress, promoted, worldVars, ctl, resumes, hiccups>>

ClaimAttempt(h) ==
  /\ ApiAt(h, "attempt")
  /\ CreateAttempt
  /\ ApiEnter(h, [api[h] EXCEPT !.pc = "run", !.batch.attempt = NextAttempt])
  /\ UNCHANGED <<spec, ingress, promoted, ctl, resumes, hiccups>>

ClaimRun(h) ==
  /\ ApiAt(h, "run")
  /\ TryMove(h, "running", "started")
  /\ UNCHANGED <<spec, attempts, ingress, promoted, worldVars, ctl, resumes, hiccups>>

\* The client gets the attempt and its token, and starts the worker.
ClaimStarted(h) ==
  /\ ApiAt(h, "started")
  /\ UpdateAttemptStatus(api[h].batch.attempt, "running")
  /\ cluster' = [cluster EXCEPT ![api[h].batch.attempt] = "active"]
  /\ Finish(h)
  /\ UNCHANGED <<spec, job, ingress, promoted, emitted, ctl, resumes, hiccups>>
-----------------------------------------------------------------------------
(* Events of workers. *)

\* ingest_events reads the row first.  A batch may come late or again.
BeginIngest(h) ==
  /\ ApiAt(h, "idle")
  /\ \E a \in 1 .. Len(attempts) : \E i \in 1 .. Len(emitted[a]) : \E j \in i .. Len(emitted[a]) :
       /\ \E k \in i .. j : <<a, k>> \notin ingress
       /\ ApiEnter(h, [Idle EXCEPT !.pc = "allocate", !.job = job,
                                !.batch = [attempt |-> a, events |-> i .. j]])
  /\ UNCHANGED <<spec, storeVars, worldVars, ctl, resumes, hiccups>>

\* allocate_event_sequences: the events that have a sequence are dropped.
\* Mutant: a replayed event is given another sequence.
NewEventsAll(b) == b.events
NewEvents(b) == {k \in b.events : <<b.attempt, k>> \notin ingress}

AllocateEventSequences(h) ==
  /\ ApiAt(h, "allocate")
  /\ LET b == api[h].batch
         fresh == NewEvents(b)
     IN /\ ingress' = ingress \union ({b.attempt} \X fresh)
        /\ IF fresh = {} THEN Finish(h)
           ELSE ApiEnter(h, [api[h] EXCEPT !.pc = "append", !.batch.events = fresh])
  /\ UNCHANGED <<spec, job, attempts, promoted, worldVars, ctl, resumes, hiccups>>

\* Redis takes the events, or refuses them because later sequences came
\* first (module TrainingEvents): the request fails before any is applied.
AppendEvents(h) ==
  /\ ApiAt(h, "append")
  /\ \/ ApiStep(h, "apply")
     \/ (\E g \in Handlers \ {h} : api[g].pc # "idle") /\ Finish(h)
  /\ UNCHANGED <<spec, storeVars, worldVars, ctl, resumes, hiccups>>

\* What an event asks of a job in status s; "absent" for nothing.
EventTarget(kind, s) ==
  CASE kind = "checkpoint" /\ s = "running" -> "checkpointing"
    [] kind = "evaluation" /\ s \in {"running", "checkpointing"} -> "evaluating"
    [] kind = "metric" /\ s \in {"checkpointing", "evaluating"} -> "running"
    [] kind = "running" /\ s = "provisioning" -> "running"
    [] kind = "complete" /\ s \in {"running", "checkpointing", "evaluating"} -> "succeeded"
    [] kind = "fatal" -> "blocked"
    [] kind = "error" -> "failed"
    [] OTHER -> "absent"

First(b) == CHOOSE k \in b.events : \A l \in b.events : k <= l
Rest(b) == [b EXCEPT !.events = @ \ {First(b)}]

\* _apply_event_state, one event: by the row read at the beginning of the
\* request, or as the previous event of the batch left it.
ApplyEvent(h) ==
  /\ ApiAt(h, "apply")
  /\ LET b == api[h].batch IN
     IF b.events = {}
     THEN UNCHANGED job /\ Finish(h)
     ELSE LET target == EventTarget(emitted[b.attempt][First(b)], api[h].job.status) IN
          IF target \notin AllowedTransitions[api[h].job.status]
          THEN UNCHANGED job /\ ApiEnter(h, [api[h] EXCEPT !.batch = Rest(b)])
          ELSE TryMove(h, target, "applied")
  /\ UNCHANGED <<spec, attempts, ingress, promoted, worldVars, ctl, resumes, hiccups>>

\* The attempt that is marked is the one the event came from.
MarkEventAttempt(h) ==
  /\ ApiAt(h, "applied")
  /\ UpdateAttemptStatus(api[h].batch.attempt, api[h].target)
  /\ ApiEnter(h, [api[h] EXCEPT !.pc = "apply", !.batch = Rest(@)])
  /\ UNCHANGED <<spec, job, ingress, promoted, worldVars, ctl, resumes, hiccups>>

MarkCancelled(h) ==
  /\ ApiAt(h, "mark")
  /\ UpdateAttemptStatus(api[h].job.cur, api[h].target)
  /\ Finish(h)
  /\ UNCHANGED <<spec, job, ingress, promoted, worldVars, ctl, resumes, hiccups>>

Serve(h) ==
  \/ InsertJob(h) \/ QueueJob(h) \/ CancelRequested(h) \/ MarkCancelled(h) \/ Resume(h)
  \/ ClaimProvision(h) \/ ClaimAttempt(h) \/ ClaimRun(h) \/ ClaimStarted(h)
  \/ AllocateEventSequences(h) \/ AppendEvents(h) \/ ApplyEvent(h) \/ MarkEventAttempt(h)

Request(h) ==
  BeginCreate(h) \/ BeginCancel(h) \/ BeginResume(h) \/ BeginClaim(h) \/ BeginIngest(h)
-----------------------------------------------------------------------------
(* The controller. *)

CtlAt(label) == ctl.pc = label
CtlStep(label) == ctl' = IF label = "idle" THEN Idle ELSE [ctl EXCEPT !.pc = label]

\* A transition by the row the controller read.
CtlMove(target, label, conflict) ==
  IF Permitted(ctl.job, target)
  THEN /\ job' = Moved(target)
       /\ ctl' = IF label = "idle" THEN Idle
                 ELSE [ctl EXCEPT !.pc = label, !.job = Moved(target), !.target = target]
  ELSE UNCHANGED job /\ CtlStep(conflict)

\* reconcile_once lists the jobs; reconcile_job handles those that are queued
\* (once their backoff has passed) or that have a binding.
ListJobs ==
  /\ CtlAt("idle")
  /\ spec.scheduler # "notebook"
  /\ \/ job.status = "queued" /\ ctl' = [Idle EXCEPT !.pc = "validate", !.job = job]
     \/ /\ job.status \in {"provisioning", "running", "checkpointing", "evaluating"}
        /\ job.binding # 0
        /\ ctl' = [Idle EXCEPT !.pc = "status", !.job = job]
  /\ UNCHANGED <<spec, storeVars, worldVars, api, resumes, hiccups>>

\* scheduler.validate raises when the cluster lacks what the job needs.
Validate ==
  /\ CtlAt("validate")
  /\ CtlStep("provision") \/ CtlStep("block")
  /\ UNCHANGED <<spec, storeVars, worldVars, api, resumes, hiccups>>

Provision ==
  /\ CtlAt("provision")
  /\ CtlMove("provisioning", "attempt", "block")
  /\ UNCHANGED <<spec, attempts, ingress, promoted, worldVars, api, resumes, hiccups>>

ProvisionAttempt ==
  /\ CtlAt("attempt")
  /\ CreateAttempt
  /\ ctl' = [ctl EXCEPT !.pc = "submit", !.batch.attempt = NextAttempt]
  /\ UNCHANGED <<spec, ingress, promoted, api, resumes, hiccups>>

SubmitAttempt ==
  /\ CtlAt("submit")
  /\ \/ cluster' = [cluster EXCEPT ![ctl.batch.attempt] = "pending"] /\ CtlStep("bind")
     \/ UNCHANGED cluster /\ CtlStep("block")
  /\ UNCHANGED <<spec, storeVars, emitted, api, resumes, hiccups>>

UpdateBinding ==
  /\ CtlAt("bind")
  /\ IF job.version = ctl.job.version
     THEN job' = Bound(ctl.batch.attempt) /\ ctl' = Idle
     ELSE UNCHANGED job /\ CtlStep("block")
  /\ UNCHANGED <<spec, attempts, ingress, promoted, worldVars, api, resumes, hiccups>>

\* The except clause reads the row again and blocks the job, if it may.
ReadToBlock ==
  /\ CtlAt("block")
  /\ ctl' = [ctl EXCEPT !.job = job,
       !.pc = IF "blocked" \in AllowedTransitions[job.status] THEN "blocking" ELSE "fail"]
  /\ UNCHANGED <<spec, storeVars, worldVars, api, resumes, hiccups>>

Block ==
  /\ CtlAt("blocking")
  /\ CtlMove("blocked", "mark", "fail")
  /\ UNCHANGED <<spec, attempts, ingress, promoted, worldVars, api, resumes, hiccups>>

\* rotate_credentials: the new expiry goes into the binding.
RotateCredentials ==
  /\ CtlAt("status")
  /\ "rotate" \in spec.failures
  /\ hiccups < spec.hiccups
  /\ hiccups' = hiccups + 1
  /\ IF job.version = ctl.job.version
     THEN job' = Bound(ctl.job.binding) /\ ctl' = [ctl EXCEPT !.job = job']
     ELSE UNCHANGED job /\ CtlStep("fail")
  /\ UNCHANGED <<spec, attempts, ingress, promoted, worldVars, api, resumes>>

\* The scheduler's word for what the controller makes of it.
\* Mutant: a job that failed there is not noticed.
RuntimeTargetBlind(external) ==
  CASE external = "active" -> "running"
    [] external = "succeeded" -> "succeeded"
    [] OTHER -> "absent"
RuntimeTarget(external) ==
  CASE external = "active" -> "running"
    [] external = "succeeded" -> "succeeded"
    [] external = "failed" -> "failed"
    [] external = "cancelled" -> "cancelled"
    [] OTHER -> "absent"

PollStatus ==
  /\ CtlAt("status")
  /\ LET target == RuntimeTarget(cluster[ctl.job.binding]) IN
     ctl' = IF target \in AllowedTransitions[ctl.job.status]
            THEN [ctl EXCEPT !.pc = "move", !.target = target]
            ELSE Idle
  /\ UNCHANGED <<spec, storeVars, worldVars, api, resumes, hiccups>>

\* A call of the scheduler raises.
SchedulerRaises ==
  /\ CtlAt("status")
  /\ "scheduler" \in spec.failures
  /\ hiccups < spec.hiccups
  /\ hiccups' = hiccups + 1
  /\ CtlStep("fail")
  /\ UNCHANGED <<spec, storeVars, worldVars, api, resumes>>

FollowScheduler ==
  /\ CtlAt("move")
  /\ CtlMove(ctl.target, IF ctl.target = "failed" THEN "markRetry" ELSE "mark", "fail")
  /\ UNCHANGED <<spec, attempts, ingress, promoted, worldVars, api, resumes, hiccups>>

MarkAttempt ==
  /\ CtlAt("mark")
  /\ UpdateAttemptStatus(ctl.job.cur, ctl.target)
  /\ ctl' = Idle
  /\ UNCHANGED <<spec, job, ingress, promoted, worldVars, api, resumes, hiccups>>

\* A failure is retried while attempts are left; failure classes that are not
\* retryable come with what validate and the events report.
\* Mutant: one attempt too many.
RetryLeftLate == Len(attempts) <= spec.maximum_attempts
RetryLeft == Len(attempts) < spec.maximum_attempts

MarkFailedAttempt ==
  /\ CtlAt("markRetry")
  /\ UpdateAttemptStatus(ctl.job.cur, "failed")
  /\ ctl' = IF RetryLeft THEN [ctl EXCEPT !.pc = "retryBinding"] ELSE Idle
  /\ UNCHANGED <<spec, job, ingress, promoted, worldVars, api, resumes, hiccups>>

\* The backoff is written into the binding, which keeps the old job's name.
RetryBinding ==
  /\ CtlAt("retryBinding")
  /\ IF job.version = ctl.job.version
     THEN job' = Bound(ctl.job.binding) /\ ctl' = [ctl EXCEPT !.pc = "requeue", !.job = job']
     ELSE UNCHANGED job /\ CtlStep("fail")
  /\ UNCHANGED <<spec, attempts, ingress, promoted, worldVars, api, resumes, hiccups>>

Requeue ==
  /\ CtlAt("requeue")
  /\ CtlMove("queued", "idle", "fail")
  /\ UNCHANGED <<spec, attempts, ingress, promoted, worldVars, api, resumes, hiccups>>

\* The except clause of reconcile_once reads the row again and fails the job,
\* if it may; otherwise the process ends and is restarted.
ReadToFail ==
  /\ CtlAt("fail")
  /\ ctl' = IF "failed" \in AllowedTransitions[job.status]
            THEN [ctl EXCEPT !.pc = "failing", !.job = job] ELSE Idle
  /\ UNCHANGED <<spec, storeVars, worldVars, api, resumes, hiccups>>

FailJob ==
  /\ CtlAt("failing")
  /\ CtlMove("failed", "mark", "idle")
  /\ UNCHANGED <<spec, attempts, ingress, promoted, worldVars, api, resumes, hiccups>>

Reconcile ==
  \/ ListJobs \/ Validate \/ Provision \/ ProvisionAttempt \/ SubmitAttempt \/ UpdateBinding
  \/ ReadToBlock \/ Block \/ PollStatus \/ FollowScheduler \/ MarkAttempt
  \/ MarkFailedAttempt \/ RetryBinding \/ Requeue \/ ReadToFail \/ FailJob
-----------------------------------------------------------------------------
(* Workers, the cluster and failures. *)

WorkerStarts(a) ==
  /\ cluster[a] = "pending"
  /\ cluster' = [cluster EXCEPT ![a] = "active"]
  /\ UNCHANGED <<spec, storeVars, emitted, api, ctl, resumes, hiccups>>

\* A worker emits nothing after it said that it completed or failed.
WorkerEmits(a, kind) ==
  /\ cluster[a] = "active"
  /\ Len(emitted[a]) < spec.events
  /\ \A k \in 1 .. Len(emitted[a]) : emitted[a][k] \notin {"complete", "error", "fatal"}
  /\ emitted' = [emitted EXCEPT ![a] = Append(@, kind)]
  /\ UNCHANGED <<spec, storeVars, cluster, api, ctl, resumes, hiccups>>

Completed(a) == \E k \in 1 .. Len(emitted[a]) : emitted[a][k] = "complete"

\* Only a worker that completed exits with 0; any may be killed.
WorkerEnds(a) ==
  /\ cluster[a] = "active"
  /\ \/ Completed(a) /\ cluster' = [cluster EXCEPT ![a] = "succeeded"]
     \/ cluster' = [cluster EXCEPT ![a] = "failed"]
  /\ UNCHANGED <<spec, storeVars, emitted, api, ctl, resumes, hiccups>>

\* Slurm preempts a job, or its administrator cancels it.
SchedulerCancels(a) ==
  /\ spec.scheduler = "cluster" /\ "preempt" \in spec.failures
  /\ cluster[a] \in {"pending", "active"}
  /\ cluster' = [cluster EXCEPT ![a] = "cancelled"]
  /\ UNCHANGED <<spec, storeVars, emitted, api, ctl, resumes, hiccups>>

Crashes == "crash" \in spec.failures /\ hiccups < spec.hiccups /\ hiccups' = hiccups + 1

CrashHandler(h) ==
  /\ ~ApiAt(h, "idle")
  /\ Crashes
  /\ Finish(h)
  /\ UNCHANGED <<spec, storeVars, worldVars, ctl, resumes>>

CrashController ==
  /\ ~CtlAt("idle")
  /\ Crashes
  /\ ctl' = Idle
  /\ UNCHANGED <<spec, storeVars, worldVars, api, resumes>>

\* Redis is gone: nothing of the batch is appended.
RedisRaises(h) ==
  /\ ApiAt(h, "append")
  /\ "redis" \in spec.failures
  /\ hiccups < spec.hiccups
  /\ hiccups' = hiccups + 1
  /\ Finish(h)
  /\ UNCHANGED <<spec, storeVars, worldVars, ctl, resumes>>

World ==
  \E a \in 1 .. Len(cluster) :
    \/ WorkerStarts(a) \/ WorkerEnds(a) \/ SchedulerCancels(a)
    \/ \E k \in spec.kinds : WorkerEmits(a, k)

TrainingNext ==
  \/ RegisterPromoted
  \/ \E h \in Handlers : Request(h) \/ Serve(h) \/ CrashHandler(h) \/ RedisRaises(h)
  \/ Reconcile \/ RotateCredentials \/ SchedulerRaises \/ CrashController
  \/ World

TrainingSpec == TrainingInit /\ [][TrainingNext]_trainingVars

\* The controller polls for ever, requests that were begun go on, and what
\* the cluster accepted is started and ends.  Clients and workers owe nothing.
TrainingFairness ==
  /\ WF_trainingVars(Reconcile)
  /\ \A h \in Handlers : WF_trainingVars(Serve(h))
  /\ WF_trainingVars(\E a \in 1 .. Len(cluster) : WorkerStarts(a) \/ WorkerEnds(a))
FairTrainingSpec == TrainingSpec /\ TrainingFairness
-----------------------------------------------------------------------------
(* Properties. *)

Row == [status : JobStatus, version : Nat, cur : Nat, binding : Nat]
JobLabel == {"idle", "insert", "queue", "cancel", "mark", "resume", "claim", "attempt", "run",
          "started", "allocate", "append", "apply", "applied", "validate", "provision",
          "submit", "bind", "block", "blocking", "status", "move", "markRetry",
          "retryBinding", "requeue", "fail", "failing"}
JobFrame == [pc : JobLabel, job : Row, target : JobStatus,
          batch : [attempt : Nat, events : SUBSET (1 .. spec.events)]]

\* Every variable has its type; each attempt that was created has its
\* scheduler job and its worker, and no row or frame names another.
TrainingTypeOK ==
  /\ spec \in Jobs
  /\ job \in Row
  /\ attempts \in Seq(JobStatus)
  /\ cluster \in Seq({"none", "pending", "active", "succeeded", "failed", "cancelled"})
  /\ emitted \in Seq(Seq(spec.kinds))
  /\ Len(cluster) = Len(attempts) /\ Len(emitted) = Len(attempts)
  /\ ingress \subseteq (1 .. Len(attempts)) \X Nat
  /\ api \in [Handlers -> JobFrame]
  /\ ctl \in JobFrame
  /\ promoted \in BOOLEAN
  /\ resumes \in Nat /\ hiccups \in Nat
  /\ job.cur <= Len(attempts) /\ job.binding <= Len(attempts)

\* Two writers that read the same version read the same status and binding,
\* so that comparing versions is enough: no writer silently overwrites what
\* another one did since it read the row.
VersionNamesState ==
  \A f \in {api[h] : h \in Handlers} \union {ctl} :
    f.job.version = job.version => f.job.status = job.status /\ f.job.binding = job.binding

\* Automatic retries stay within the budget of the job: every further attempt
\* was asked for by a resume.
AttemptsWithinBudget == Len(attempts) <= spec.maximum_attempts + resumes

\* An event that arrives again, also while the first request with it is still
\* being served, is in the hands of one request only and applied once.
OneHandlerPerEvent ==
  \A g, h \in Handlers :
    g # h /\ {api[g].pc, api[h].pc} \subseteq {"append", "apply", "applied"}
      => \/ api[g].batch.attempt # api[h].batch.attempt
         \/ api[g].batch.events \intersect api[h].batch.events = {}

\* Two clients that claim, a controller that retries and the events that end a
\* job set no second worker to train it before the first one has ended, and
\* with a budget of two attempts never two at once.  From the third attempt on
\* the code allows it: while the controller submits an attempt, three events
\* may move the job before its binding and both of the except clauses, and the
\* next poll asks the scheduler for the attempt that failed before.  So do a
\* resume (nothing stops the worker of a cancelled job) and a controller that
\* dies between submitting an attempt and recording it.
LiveAttempts == {a \in 1 .. Len(cluster) : cluster[a] \in {"pending", "active"}}
OneWorkerTrains ==
  resumes = 0 /\ hiccups = 0 =>
    \/ Cardinality(LiveAttempts) <= 1
    \/ Cardinality(LiveAttempts) < spec.maximum_attempts

\* While nothing fails around it, a job that is queued for the cluster ends.
\* The one exception is in the code: a worker that completed between two polls
\* of the controller, before anything said that it runs or right after a
\* checkpoint, leaves a state from where no transition to succeeded is allowed.
CompletionMissed ==
  /\ job.status \in {"provisioning", "checkpointing"}
  /\ job.binding # 0
  /\ cluster[job.binding] = "succeeded"
JobEnds ==
  [](hiccups = 0) /\ spec.scheduler = "cluster"
    => (job.status = "queued" ~> job.status \in TerminalStates \/ CompletionMissed)

\* A notebook worker said that it completed, every event it emitted was taken,
\* one request after the other, and nothing failed: the job is not left open.
CompletionIsRecorded ==
  /\ spec.scheduler = "notebook" /\ hiccups = 0
  /\ \A h \in Handlers : ApiAt(h, "idle")
  /\ job.cur # 0 /\ Len(attempts) = job.cur
  /\ Completed(job.cur)
  /\ \A k \in 1 .. Len(emitted[job.cur]) : <<job.cur, k>> \in ingress
  => job.status \in TerminalStates
=============================================================================
