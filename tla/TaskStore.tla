----------------------------- MODULE TaskStore -----------------------------
(***************************************************************************)
(* The durable tables of one task graph (db/local_store.py): a row per     *)
(* task, the graph's status and the blackboard entries the tasks' outputs  *)
(* are recorded under.  Every operator below that primes a variable is one *)
(* SQLite transaction; the operations of the runtime are sequences of      *)
(* them, so other processes and crashes come between any two.              *)
(*                                                                         *)
(* A lease is its owner and whether its expiry time has passed: the clock  *)
(* is abstracted to the step LeaseLapses, which may come at any moment a   *)
(* lease is held.  The contents of outputs are abstracted to who wrote     *)
(* them.                                                                   *)
(***************************************************************************)
EXTENDS Naturals, FiniteSets

CONSTANTS
  Tasks,        \* the nodes of the graph
  DependsOn,    \* for each task the tasks that must complete before it
  Order,        \* the insertion order of the rows (ORDER BY created_at, rowid)
  MaxAttempts,  \* tasks.max_attempts
  Workers,      \* worker processes; a process's pool is one lease owner
  Api,          \* the lease owner "api-<uuid>" of a claim made by advance
  None,         \* NULL
  Error         \* the retry outputs that a failure writes

ASSUME StoreAssumption ==
  /\ DependsOn \in [Tasks -> SUBSET Tasks]
  /\ Order \in [Tasks -> Nat]
  /\ MaxAttempts \in Nat \ {0}
  /\ Api \notin Workers
  /\ None \notin Workers \union {Api}
  /\ Error \notin Workers \union {Api, None}

VARIABLES
  status,     \* tasks.status
  attempt,    \* tasks.attempt
  owner,      \* tasks.lease_owner
  lapsed,     \* the tasks whose lease_expires_at has passed
  cancelReq,  \* the tasks with cancel_requested = 1
  output,     \* who wrote tasks.output_json
  board,      \* who wrote the blackboard entry task/<id>/<kind>
  graph,      \* task_graphs.status
  claims      \* history: how often each task has been claimed

leases == <<owner, lapsed>>
store == <<status, attempt, owner, lapsed, cancelReq, output, board, graph, claims>>

TaskStatus == {"queued", "running", "completed", "failed", "cancelled"}
GraphStatus == TaskStatus
Terminal == {"completed", "failed", "cancelled"}

StoreInit ==
  /\ status = [t \in Tasks |-> "queued"]
  /\ attempt = [t \in Tasks |-> 0]
  /\ owner = [t \in Tasks |-> None]
  /\ lapsed = {}
  /\ cancelReq = {}
  /\ output = [t \in Tasks |-> None]
  /\ board = [t \in Tasks |-> None]
  /\ graph = "queued"
  /\ claims = [t \in Tasks |-> 0]

StoreTypeOK ==
  /\ status \in [Tasks -> TaskStatus]
  /\ attempt \in [Tasks -> Nat]
  /\ owner \in [Tasks -> Workers \union {Api, None}]
  /\ lapsed \in SUBSET Tasks
  /\ cancelReq \in SUBSET Tasks
  /\ output \in [Tasks -> Workers \union {Api, None, Error}]
  /\ board \in [Tasks -> Workers \union {None}]
  /\ graph \in GraphStatus
  /\ claims \in [Tasks -> Nat]
-----------------------------------------------------------------------------
(* What a SELECT over the rows yields. *)

Some(s) == \E t \in Tasks : status[t] = s
AllCompleted == Tasks # {} /\ \A t \in Tasks : status[t] = "completed"

\* Mutants of ready_tasks: one forgets the dependencies, one the retried rows.
ReadyTasksUnordered == {t \in Tasks : status[t] = "queued"}
ReadyTasksOnce ==
  {t \in Tasks : /\ status[t] = "queued"
                 /\ attempt[t] = 0
                 /\ \A d \in DependsOn[t] : status[d] = "completed"}

\* ready_tasks: queued, and every dependency completed.
ReadyTasks ==
  {t \in Tasks : /\ status[t] = "queued"
                 /\ \A d \in DependsOn[t] : status[d] = "completed"}

\* ready[:limit] in row order.
FirstOf(S, limit) ==
  {t \in S : Cardinality({u \in S : Order[u] < Order[t]}) < limit}

\* The WHERE clause of both recovery statements.
Expired == {t \in Tasks : /\ status[t] = "running"
                          /\ owner[t] # None
                          /\ t \in lapsed
                          /\ t \notin cancelReq}

\* The status an expired row is given: queued while the budget lasts.
Recovered(t) == IF attempt[t] + 1 >= MaxAttempts THEN "failed" ELSE "queued"
-----------------------------------------------------------------------------
(* The transactions. *)

\* Mutant: recovery that does not count the attempt.
RecoverUncounted ==
  /\ status' = [t \in Tasks |-> IF t \in Expired THEN Recovered(t) ELSE status[t]]
  /\ owner' = [t \in Tasks |-> IF t \in Expired THEN None ELSE owner[t]]
  /\ lapsed' = lapsed \ Expired
  /\ UNCHANGED <<attempt, cancelReq, output, board, graph, claims>>

RecoverExpiredTaskLeases ==
  /\ status' = [t \in Tasks |-> IF t \in Expired THEN Recovered(t) ELSE status[t]]
  /\ attempt' = [t \in Tasks |-> IF t \in Expired THEN attempt[t] + 1 ELSE attempt[t]]
  /\ owner' = [t \in Tasks |-> IF t \in Expired THEN None ELSE owner[t]]
  /\ lapsed' = lapsed \ Expired
  /\ UNCHANGED <<cancelReq, output, board, graph, claims>>

\* Mutant: a claim that does not look at cancel_requested.
ClaimableEvenCancelled(ids) ==
  {t \in ids : \/ status[t] = "queued"
               \/ t \in Expired /\ Recovered(t) = "queued"}

\* The rows of ids that claim_tasks can take after its own recovery.
Claimable(ids) ==
  {t \in ids \ cancelReq : \/ status[t] = "queued"
                           \/ t \in Expired /\ Recovered(t) = "queued"}

\* One BEGIN IMMEDIATE transaction: recovery, the claims, the graph's status.
ClaimTasks(ids, w) ==
  LET got == Claimable(ids) IN
  /\ status' = [t \in Tasks |-> IF t \in got THEN "running"
                                ELSE IF t \in Expired THEN Recovered(t) ELSE status[t]]
  /\ attempt' = [t \in Tasks |-> IF t \in Expired THEN attempt[t] + 1 ELSE attempt[t]]
  /\ owner' = [t \in Tasks |-> IF t \in got THEN w
                               ELSE IF t \in Expired THEN None ELSE owner[t]]
  /\ lapsed' = (lapsed \ Expired) \ got
  /\ graph' = IF got = {} THEN graph ELSE "running"
  /\ claims' = [t \in Tasks |-> IF t \in got THEN claims[t] + 1 ELSE claims[t]]
  /\ UNCHANGED <<cancelReq, output, board>>

RenewTaskLease(t, w) ==
  /\ status[t] = "running"
  /\ owner[t] = w
  /\ t \notin cancelReq
  /\ lapsed' = lapsed \ {t}
  /\ UNCHANGED <<status, attempt, owner, cancelReq, output, board, graph, claims>>

\* Mutant: a status written without clearing the lease.
UpdateTaskStateLeased(t, s, out) ==
  /\ status' = [status EXCEPT ![t] = s]
  /\ output' = [output EXCEPT ![t] = out]
  /\ UNCHANGED <<attempt, owner, lapsed, cancelReq, board, graph, claims>>

\* Called with completed, queued or failed, each of which clears the lease;
\* it looks at neither the row's status nor its lease.
UpdateTaskState(t, s, out) ==
  /\ status' = [status EXCEPT ![t] = s]
  /\ output' = [output EXCEPT ![t] = out]
  /\ owner' = [owner EXCEPT ![t] = None]
  /\ lapsed' = lapsed \ {t}
  /\ UNCHANGED <<attempt, cancelReq, board, graph, claims>>

UpdateTaskAttempt(t, n) ==
  /\ attempt' = [attempt EXCEPT ![t] = n]
  /\ output' = [output EXCEPT ![t] = Error]
  /\ UNCHANGED <<status, owner, lapsed, cancelReq, board, graph, claims>>

UpdateTaskGraphStatus(s) ==
  /\ graph' = s
  /\ UNCHANGED <<status, attempt, owner, lapsed, cancelReq, output, board, claims>>

\* Marks the rows that are not terminal; the graph's row unconditionally.
CancelTaskGraph ==
  LET live == {t \in Tasks : status[t] \notin Terminal} IN
  /\ cancelReq' = cancelReq \union live
  /\ status' = [t \in Tasks |-> IF t \in live THEN "cancelled" ELSE status[t]]
  /\ owner' = [t \in Tasks |-> IF t \in live THEN None ELSE owner[t]]
  /\ lapsed' = lapsed \ live
  /\ graph' = "cancelled"
  /\ UNCHANGED <<attempt, output, board, claims>>

\* Mutant: the expected version is not compared.
EntryIsIgnored(t) == TRUE

\* put_blackboard_entry with expected_version = 0: an insert, or a conflict.
EntryIsAbsent(t) == board[t] = None

PutBlackboardEntry(t, w) ==
  /\ EntryIsAbsent(t)
  /\ board' = [board EXCEPT ![t] = w]
  /\ UNCHANGED <<status, attempt, owner, lapsed, cancelReq, output, graph, claims>>

\* Time passes the lease_expires_at of a held lease.
LeaseLapses(t) ==
  /\ owner[t] # None
  /\ t \notin lapsed
  /\ lapsed' = lapsed \union {t}
  /\ UNCHANGED <<status, attempt, owner, cancelReq, output, board, graph, claims>>
=============================================================================
