----------------------------- MODULE TaskGraph -----------------------------
(***************************************************************************)
(* TaskGraphRuntime (runtime/taskgraph.py) over the tables of TaskStore,   *)
(* called through the gateway's HTTP endpoints.                            *)
(*                                                                         *)
(* Every operation is synchronous code on the event loop of its process:   *)
(* a process runs one operation at a time, to the end.  frame[p] is that   *)
(* operation: the statement it is about to execute and its local           *)
(* variables.  Operations of different processes interleave between any    *)
(* two statements.                                                         *)
(***************************************************************************)
EXTENDS TaskStore

CONSTANTS
  Concurrency,  \* how many tasks a pool claims at once
  ApiOps,       \* the endpoints that clients use
  MaxApiCalls,  \* bound: calls from clients
  MaxCrashes    \* bound: processes that die

ASSUME RuntimeAssumption ==
  /\ Concurrency \in Nat \ {0}
  /\ ApiOps \subseteq {"advance", "complete", "fail", "cancel"}
  /\ MaxApiCalls \in Nat
  /\ MaxCrashes \in Nat

VARIABLES
  frame,     \* the operation each process is executing
  apiCalls,  \* how many calls clients have made
  crashes    \* how many processes have died

vars == <<store, frame, apiCalls, crashes>>

Label == {"idle", "returned",
          "report", "report_recover", "report_list", "report_write",
          "advance_list", "advance_recover", "advance_relist", "advance_write",
          "claim_graph", "claim_recover", "claim_list", "claim_fail", "claim",
          "complete", "record", "cancel",
          "fail_read", "fail_state", "fail_attempt", "fail_graph"}

\* Who called: a client, one of the three calls of a pool's loop, or the
\* execution of a claimed task.
Caller == {"api", "loop_report", "loop_claim", "loop_cancel", "exec"}

Frame == [pc : Label, caller : Caller, task : Tasks \union {None}, next : Nat,
          seen : GraphStatus, verdict : GraphStatus, ids : SUBSET Tasks]

\* A call about to execute its first statement.
Call(label, caller, t) ==
  [pc |-> label, caller |-> caller, task |-> t, next |-> 0,
   seen |-> "queued", verdict |-> "queued", ids |-> {}]

NoCall == Call("idle", "api", None)
IsIdle(p) == frame[p].pc = "idle"
At(p, label) == frame[p].pc = label
Enter(p, f) == frame' = [frame EXCEPT ![p] = f]
Goto(p, label) == Enter(p, [frame[p] EXCEPT !.pc = label])
GotoWith(p, label, v) == Enter(p, [frame[p] EXCEPT !.pc = label, !.verdict = v])
GotoClaimed(p, label, ids) == Enter(p, [frame[p] EXCEPT !.pc = label, !.ids = ids])

\* A call made by a client claims the next task; one made by a pool does not.
ClaimNext(p) == frame[p].caller = "api"
Limit(p) == IF frame[p].caller = "api" THEN 1 ELSE Concurrency
LeaseOwner(p) == IF frame[p].caller = "api" THEN Api ELSE p
-----------------------------------------------------------------------------
(* report *)

\* Failure outranks cancellation, which outranks completion.
DerivedStatus(seen) ==
  CASE Some("failed") -> "failed"
    [] ~Some("failed") /\ Some("cancelled") -> "cancelled"
    [] ~Some("failed") /\ ~Some("cancelled") /\ AllCompleted -> "completed"
    [] ~Some("failed") /\ ~Some("cancelled") /\ ~AllCompleted
         /\ (Some("running") \/ ReadyTasks # {}) -> "running"
    [] OTHER -> seen

ReportRead(p) ==
  /\ At(p, "report")
  /\ Enter(p, [frame[p] EXCEPT !.pc = "report_recover", !.seen = graph])
  /\ UNCHANGED store

ReportRecover(p) ==
  /\ At(p, "report_recover")
  /\ RecoverExpiredTaskLeases
  /\ Goto(p, "report_list")

ReportList(p) ==
  /\ At(p, "report_list")
  /\ LET derived == DerivedStatus(frame[p].seen) IN
     GotoWith(p, IF derived = frame[p].seen THEN "returned" ELSE "report_write", derived)
  /\ UNCHANGED store

ReportWrite(p) ==
  /\ At(p, "report_write")
  /\ UpdateTaskGraphStatus(frame[p].verdict)
  /\ Goto(p, "returned")

Report(p) == ReportRead(p) \/ ReportRecover(p) \/ ReportList(p) \/ ReportWrite(p)
-----------------------------------------------------------------------------
(* claim_ready_tasks *)

\* Where a claim that took nothing returns to.  advance goes on to record a
\* completion it saw in its own list; the pool is told of an empty claim.
AfterEmptyClaim(p) ==
  IF frame[p].caller = "api" /\ frame[p].verdict = "completed"
  THEN "advance_write" ELSE "returned"

ClaimGraph(p) ==
  /\ At(p, "claim_graph")
  /\ Goto(p, IF graph \in Terminal THEN AfterEmptyClaim(p) ELSE "claim_recover")
  /\ UNCHANGED store

ClaimRecover(p) ==
  /\ At(p, "claim_recover")
  /\ RecoverExpiredTaskLeases
  /\ Goto(p, "claim_list")

ClaimList(p) ==
  /\ At(p, "claim_list")
  /\ LET ids == FirstOf(ReadyTasks, Limit(p)) IN
     \/ Some("failed") /\ GotoClaimed(p, "claim_fail", {})
     \/ ~Some("failed") /\ ids = {} /\ GotoClaimed(p, AfterEmptyClaim(p), {})
     \/ ~Some("failed") /\ ids # {} /\ GotoClaimed(p, "claim", ids)
  /\ UNCHANGED store

ClaimFail(p) ==
  /\ At(p, "claim_fail")
  /\ UpdateTaskGraphStatus("failed")
  /\ Goto(p, AfterEmptyClaim(p))

Claim(p) ==
  /\ At(p, "claim")
  /\ ClaimTasks(frame[p].ids, LeaseOwner(p))
  /\ LET got == Claimable(frame[p].ids) IN
     GotoClaimed(p, IF got = {} THEN AfterEmptyClaim(p) ELSE "returned", got)

ClaimReadyTasks(p) ==
  ClaimGraph(p) \/ ClaimRecover(p) \/ ClaimList(p) \/ ClaimFail(p) \/ Claim(p)
-----------------------------------------------------------------------------
(* advance *)

AdvanceList(p) ==
  /\ At(p, "advance_list")
  /\ \/ Some("failed") /\ GotoWith(p, "advance_write", "failed")
     \/ ~Some("failed") /\ Goto(p, "advance_recover")
  /\ UNCHANGED store

AdvanceRecover(p) ==
  /\ At(p, "advance_recover")
  /\ RecoverExpiredTaskLeases
  /\ Goto(p, "advance_relist")

AdvanceRelist(p) ==
  /\ At(p, "advance_relist")
  /\ \/ /\ Some("failed")
        /\ GotoWith(p, "advance_write", "failed")
     \/ /\ ~Some("failed") /\ Some("cancelled")
        /\ GotoWith(p, "advance_write", "cancelled")
     \/ /\ ~Some("failed") /\ ~Some("cancelled") /\ Some("running")
        /\ Goto(p, "returned")
     \/ /\ ~Some("failed") /\ ~Some("cancelled") /\ ~Some("running")
        /\ GotoWith(p, "claim_graph", IF AllCompleted THEN "completed" ELSE "queued")
  /\ UNCHANGED store

AdvanceWrite(p) ==
  /\ At(p, "advance_write")
  /\ UpdateTaskGraphStatus(frame[p].verdict)
  /\ Goto(p, "returned")

Advance(p) == AdvanceList(p) \/ AdvanceRecover(p) \/ AdvanceRelist(p) \/ AdvanceWrite(p)
-----------------------------------------------------------------------------
(* complete_task, fail_task and cancel *)

\* No look at the row's status or lease; then advance, or report for a pool.
CompleteTask(p) ==
  /\ At(p, "complete")
  /\ UpdateTaskState(frame[p].task, "completed", IF ClaimNext(p) THEN Api ELSE p)
  /\ Goto(p, IF ClaimNext(p) THEN "advance_list" ELSE "report")

\* Mutant: the attempts counted down.
FailReadDown(p) ==
  /\ At(p, "fail_read")
  /\ Enter(p, [frame[p] EXCEPT !.pc = "fail_state", !.next = attempt[frame[p].task] - 1])
  /\ UNCHANGED store

FailRead(p) ==
  /\ At(p, "fail_read")
  /\ Enter(p, [frame[p] EXCEPT !.pc = "fail_state", !.next = attempt[frame[p].task] + 1])
  /\ UNCHANGED store

Retrying(p) == frame[p].next < MaxAttempts

FailState(p) ==
  /\ At(p, "fail_state")
  /\ UpdateTaskState(frame[p].task, IF Retrying(p) THEN "queued" ELSE "failed", Error)
  /\ Goto(p, "fail_attempt")

FailAttempt(p) ==
  /\ At(p, "fail_attempt")
  /\ UpdateTaskAttempt(frame[p].task, frame[p].next)
  /\ Goto(p, "fail_graph")

\* Mutant: a retry that leaves the graph's row as it is.
FailGraphSilent(p) ==
  /\ At(p, "fail_graph")
  /\ IF Retrying(p) THEN UNCHANGED store ELSE UpdateTaskGraphStatus("failed")
  /\ Goto(p, IF Retrying(p) /\ ClaimNext(p) THEN "advance_list" ELSE "report")

FailGraph(p) ==
  /\ At(p, "fail_graph")
  /\ UpdateTaskGraphStatus(IF Retrying(p) THEN "running" ELSE "failed")
  /\ Goto(p, IF Retrying(p) /\ ClaimNext(p) THEN "advance_list" ELSE "report")

\* Mutant: the attempt committed before the status.
FailTaskSwapped(p) ==
  \/ FailRead(p)
  \/ /\ At(p, "fail_state")
     /\ UpdateTaskAttempt(frame[p].task, frame[p].next)
     /\ Goto(p, "fail_attempt")
  \/ /\ At(p, "fail_attempt")
     /\ UpdateTaskState(frame[p].task, IF Retrying(p) THEN "queued" ELSE "failed", Error)
     /\ Goto(p, "fail_graph")
  \/ FailGraph(p)

FailTask(p) == FailRead(p) \/ FailState(p) \/ FailAttempt(p) \/ FailGraph(p)

Cancel(p) ==
  /\ At(p, "cancel")
  /\ CancelTaskGraph
  /\ Goto(p, "report")

\* One statement of the operation that process p is executing.
Step(p) ==
  /\ \/ Report(p) \/ ClaimReadyTasks(p) \/ Advance(p)
     \/ CompleteTask(p) \/ FailTask(p) \/ Cancel(p)
  /\ UNCHANGED <<apiCalls, crashes>>
-----------------------------------------------------------------------------
(* The gateway's endpoints: a client may name any task at any time. *)

Submit(p, op, call) ==
  /\ op \in ApiOps
  /\ IsIdle(p)
  /\ apiCalls < MaxApiCalls
  /\ apiCalls' = apiCalls + 1
  /\ Enter(p, call)
  /\ UNCHANGED <<store, crashes>>

PostAdvance(p) == Submit(p, "advance", Call("advance_list", "api", None))
PostComplete(p, t) == Submit(p, "complete", Call("complete", "api", t))
PostFail(p, t) == Submit(p, "fail", Call("fail_read", "api", t))
PostCancel(p) == Submit(p, "cancel", Call("cancel", "api", None))

Post(p) ==
  \/ PostAdvance(p)
  \/ PostCancel(p)
  \/ \E t \in Tasks : PostComplete(p, t) \/ PostFail(p, t)

\* The reply is sent and the event loop is free again.
Reply(p) ==
  /\ At(p, "returned")
  /\ frame[p].caller = "api"
  /\ Enter(p, NoCall)
  /\ UNCHANGED <<store, apiCalls, crashes>>

Lapse ==
  /\ \E t \in Tasks : LeaseLapses(t)
  /\ UNCHANGED <<frame, apiCalls, crashes>>

Init ==
  /\ StoreInit
  /\ frame = [p \in Workers |-> NoCall]
  /\ apiCalls = 0
  /\ crashes = 0
-----------------------------------------------------------------------------
(* Properties. *)

\* Every variable has its type.
TypeOK ==
  /\ StoreTypeOK
  /\ frame \in [Workers -> Frame]
  /\ apiCalls \in 0..MaxApiCalls
  /\ crashes \in 0..MaxCrashes

\* A row is leased exactly while it is running, whatever order transactions of
\* different processes come in: no row is running that recovery cannot see
\* (local_store.py:839-856 skips a row with no lease), and no row at rest
\* carries a lease that a heartbeat could still renew.
LeaseHeldIffRunning ==
  /\ \A t \in Tasks : owner[t] # None <=> status[t] = "running"
  /\ \A t \in lapsed : status[t] = "running"

\* A task whose cancellation was requested is never executed again, even when
\* the late failure of a stale execution puts its row back to queued
\* (local_store.py:816-823 claims no row with cancel_requested).
CancelledNeverRuns == \A t \in cancelReq : status[t] # "running"

\* The retry budget: with one process a task is claimed at most max_attempts
\* times, and each crash costs at most one more claim, because fail_task
\* commits the requeued status before the incremented attempt
\* (taskgraph.py:271-278).
RetryBudget == \A t \in Tasks : claims[t] <= MaxAttempts + crashes

\* Between the operations of a single process that has not died, the graph is
\* recorded completed only over rows that all are: a late failure that requeues
\* a completed task and a cancellation of a finished graph leave the graph's
\* row corrected (taskgraph.py:236-292 and 328-351).
CompletedGraphIsComplete ==
  (crashes = 0 /\ (\A p \in Workers : IsIdle(p)) /\ graph = "completed") => AllCompleted

\* With one process a completed row holds the outputs of its completion, never
\* the retry outputs of a failure: the second write of fail_task
\* (taskgraph.py:278 and 290) does not reach a row completed in between.
CompletedKeepsOutput == \A t \in Tasks : status[t] = "completed" => output[t] # Error

\* A cancelled task stays cancelled: what was in flight when the graph was
\* cancelled neither completes nor requeues it.
CancelIsFinal == [][\A t \in Tasks : status[t] = "cancelled" => status'[t] = "cancelled"]_status
=============================================================================
