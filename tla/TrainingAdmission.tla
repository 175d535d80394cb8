------------------------- MODULE TrainingAdmission -------------------------
(***************************************************************************)
(* The admission of training jobs of one owner (create_job and             *)
(* _validate_qualification_predecessor in training_workspace.py): the      *)
(* idempotency key, the quota of concurrent jobs and the order of the      *)
(* milestones of a qualification campaign.                                 *)
(*                                                                         *)
(* The jobs are read, by list_jobs, in other transactions than the one     *)
(* that inserts the row, and gateways serve several requests at a time.    *)
(* The life of an admitted job is module TrainingJobs; here it is active   *)
(* until it succeeds or fails.                                             *)
(***************************************************************************)
EXTENDS Naturals, Sequences, FiniteSets

CONSTANTS
  Gateways,   \* requests the gateways serve at a time
  Keys,       \* idempotency keys
  Milestone,  \* the milestone of a key's spec, counted from 1
  Quota,      \* cost_quota.maximum_concurrent_jobs_per_owner
  MaxRevived, \* bound: resumes
  NoKey       \* no key

ASSUME AdmissionAssumption ==
  /\ IsFiniteSet(Gateways) /\ IsFiniteSet(Keys)
  /\ Milestone \in [Keys -> Nat \ {0}]
  /\ Quota \in Nat \ {0}
  /\ MaxRevived \in Nat
  /\ NoKey \notin Keys

VARIABLES
  created,   \* the keys with a row, in the order of created_at
  state,     \* the status of each row: "validating", "active", "succeeded", "failed"
  proven,    \* the jobs with a reload-verified checkpoint and a passing evaluation
  revived,   \* history: the jobs that were resumed
  admission  \* the requests

admissionVars == <<created, state, proven, revived, admission>>

NoAdmission == [pc |-> "idle", key |-> NoKey]

AdmissionInit ==
  /\ created = << >>
  /\ state = [k \in Keys |-> "absent"]
  /\ proven = {}
  /\ revived = {}
  /\ admission = [g \in Gateways |-> NoAdmission]

Asks(g, label) == admission[g].pc = label
Goes(g, label) ==
  admission' = [admission EXCEPT ![g] = IF label = "idle" THEN NoAdmission ELSE [@ EXCEPT !.pc = label]]
Active == {k \in Keys : state[k] \in {"validating", "active"}}
-----------------------------------------------------------------------------
\* A key that has a row returns it.
BeginAdmission(g, k) ==
  /\ Asks(g, "idle")
  /\ state[k] = "absent"
  /\ admission' = [admission EXCEPT ![g] = [pc |-> "predecessor", key |-> k]]
  /\ UNCHANGED <<created, state, proven, revived>>

\* The newest job of the previous milestone has to have succeeded, with a
\* checkpoint that reloads and an evaluation that passed.
\* Mutant: the previous milestone's job may still be running.
Candidates(m) == {i \in DOMAIN created : Milestone[created[i]] = m}
Newest(m) == {i \in Candidates(m) : \A j \in Candidates(m) : j <= i}
UnlockedEarly(m) == m = 1 \/ Candidates(m - 1) # {}
Unlocked(m) ==
  m = 1 \/ \E i \in Newest(m - 1) : state[created[i]] = "succeeded" /\ created[i] \in proven

ValidateQualificationPredecessor(g) ==
  /\ Asks(g, "predecessor")
  /\ Goes(g, IF Unlocked(Milestone[admission[g].key]) THEN "quota" ELSE "idle")
  /\ UNCHANGED <<created, state, proven, revived>>

\* Mutant: off by one.
QuotaLeftLate == Cardinality(Active) <= Quota
QuotaLeft == Cardinality(Active) < Quota

CheckQuota(g) ==
  /\ Asks(g, "quota")
  /\ Goes(g, IF QuotaLeft THEN "insert" ELSE "idle")
  /\ UNCHANGED <<created, state, proven, revived>>

\* The insert leaves the row of the key that another request inserted since;
\* this request then fails at its artifact, whose job does not exist.
InsertRow(g) ==
  /\ Asks(g, "insert")
  /\ LET k == admission[g].key IN
     IF state[k] # "absent"
     THEN UNCHANGED <<created, state>> /\ Goes(g, "idle")
     ELSE /\ created' = Append(created, k)
          /\ state' = [state EXCEPT ![k] = "validating"]
          /\ Goes(g, "queue")
  /\ UNCHANGED <<proven, revived>>

QueueRow(g) ==
  /\ Asks(g, "queue")
  /\ state' = [state EXCEPT ![admission[g].key] = "active"]
  /\ Goes(g, "idle")
  /\ UNCHANGED <<created, proven, revived>>

\* A job that dies with its request stays validating.
AdmissionDies(g) ==
  /\ ~Asks(g, "idle")
  /\ Goes(g, "idle")
  /\ UNCHANGED <<created, state, proven, revived>>

JobFinishes(k) ==
  /\ state[k] = "active"
  /\ \E s \in {"succeeded", "failed"} : state' = [state EXCEPT ![k] = s]
  /\ UNCHANGED <<created, proven, revived, admission>>

\* Checkpoints and evaluations are committed at any time.
Prove(k) ==
  /\ state[k] \notin {"absent", "validating"}
  /\ k \notin proven
  /\ proven' = proven \union {k}
  /\ UNCHANGED <<created, state, revived, admission>>

\* resume_job looks at no quota.
Revive(k) ==
  /\ state[k] = "failed"
  /\ Cardinality(revived) < MaxRevived
  /\ state' = [state EXCEPT ![k] = "active"]
  /\ revived' = revived \union {k}
  /\ UNCHANGED <<created, proven, admission>>

AdmissionNext ==
  \/ \E g \in Gateways :
       \/ \E k \in Keys : BeginAdmission(g, k)
       \/ ValidateQualificationPredecessor(g) \/ CheckQuota(g) \/ InsertRow(g) \/ QueueRow(g)
       \/ AdmissionDies(g)
  \/ \E k \in Keys : JobFinishes(k) \/ Prove(k) \/ Revive(k)

AdmissionSpec == AdmissionInit /\ [][AdmissionNext]_admissionVars
-----------------------------------------------------------------------------
(* Properties. *)

\* The quota is read before the insert: requests that race exceed it, but by
\* no more than one job for each other request, and only a resume adds to it.
QuotaOvershootBounded ==
  Cardinality(Active \ revived) <= Quota + Cardinality(Gateways) - 1

\* A milestone is reached in order: where one has a job, some job of the one
\* before it succeeded and was proven, although the jobs are read in another
\* transaction than the insert's.
MilestonesInOrder ==
  \A i \in DOMAIN created : Milestone[created[i]] > 1 =>
    \E j \in 1 .. i - 1 :
      /\ Milestone[created[j]] = Milestone[created[i]] - 1
      /\ state[created[j]] = "succeeded"
      /\ created[j] \in proven
=============================================================================
