----------------------------- MODULE WorkerPool -----------------------------
(***************************************************************************)
(* AgentWorkerPool (runtime/engine.py): in each process at most one pool,  *)
(* a coroutine that reports, claims a batch of ready tasks, executes the   *)
(* batch concurrently, waits for all of it and starts over, next to the    *)
(* gateway's endpoints on the same event loop.                             *)
(*                                                                         *)
(* A handler runs between two steps of its process; what it does when it   *)
(* ends is one operation of the process, executed through frame[p].        *)
(***************************************************************************)
EXTENDS TaskGraph

VARIABLES
  on,        \* the processes whose pool is running
  stop,      \* the processes whose cancellation_event is set
  exec,      \* the tasks each pool is executing
  expiring   \* those whose handler timed out and is being cancelled

pool == <<on, stop, exec, expiring>>
poolVars == <<store, frame, apiCalls, crashes, on, stop, exec, expiring>>

PoolInit ==
  /\ Init
  /\ on = {}
  /\ stop = {}
  /\ exec = [p \in Workers |-> {}]
  /\ expiring = [p \in Workers |-> {}]

\* Every variable has its type; a frame never names a task outside the graph.
PoolTypeOK ==
  /\ TypeOK
  /\ on \in SUBSET Workers
  /\ stop \in SUBSET Workers
  /\ exec \in [Workers -> SUBSET Tasks]
  /\ expiring \in [Workers -> SUBSET Tasks]
-----------------------------------------------------------------------------
(* run_until_blocked_or_complete *)

StartPool(p) ==
  /\ p \notin on
  /\ IsIdle(p)
  /\ on' = on \union {p}
  /\ UNCHANGED <<store, frame, apiCalls, crashes, stop, exec, expiring>>

\* The caller sets the event, or cancels the coroutine, which has the same
\* effect on every execution.
SetStop(p) ==
  /\ p \in on \ stop
  /\ IsIdle(p)
  /\ stop' = stop \union {p}
  /\ UNCHANGED <<store, frame, apiCalls, crashes, on, exec, expiring>>

\* The top of the loop, reached when the whole batch has ended.
Iterate(p) ==
  /\ p \in on
  /\ exec[p] = {}
  /\ IsIdle(p)
  /\ Enter(p, IF p \in stop THEN Call("cancel", "loop_cancel", None)
              ELSE Call("report", "loop_report", None))
  /\ UNCHANGED <<store, apiCalls, crashes, pool>>

PoolReturns(p) ==
  /\ on' = on \ {p}
  /\ stop' = stop \ {p}
  /\ Enter(p, NoCall)
  /\ UNCHANGED <<exec, expiring>>

\* A terminal report ends the run; otherwise the loop goes on to claim.
AfterReport(p) ==
  /\ At(p, "returned")
  /\ frame[p].caller = "loop_report"
  /\ \/ frame[p].verdict \in Terminal /\ PoolReturns(p)
     \/ /\ frame[p].verdict \notin Terminal
        /\ Enter(p, Call("claim_graph", "loop_claim", None))
        /\ UNCHANGED pool
  /\ UNCHANGED <<store, apiCalls, crashes>>

\* Nothing claimed: the run ends "blocked".  Otherwise gather the batch.
AfterClaim(p) ==
  /\ At(p, "returned")
  /\ frame[p].caller = "loop_claim"
  /\ \/ frame[p].ids = {} /\ PoolReturns(p)
     \/ /\ frame[p].ids # {}
        /\ exec' = [exec EXCEPT ![p] = frame[p].ids]
        /\ Enter(p, NoCall)
        /\ UNCHANGED <<on, stop, expiring>>
  /\ UNCHANGED <<store, apiCalls, crashes>>

AfterCancel(p) ==
  /\ At(p, "returned")
  /\ frame[p].caller = "loop_cancel"
  /\ PoolReturns(p)
  /\ UNCHANGED <<store, apiCalls, crashes>>
-----------------------------------------------------------------------------
(* _execute_claimed *)

Ends(p, t, label) ==
  /\ t \in exec[p]
  /\ IsIdle(p)
  /\ Enter(p, Call(label, "exec", t))
  /\ UNCHANGED <<store, apiCalls, crashes, pool>>

\* A set event is looked at before the handler's result.
HandlerReturns(p, t) == t \notin expiring[p] /\ p \notin stop /\ Ends(p, t, "record")

\* No handler is registered for the task: looked at before the event.
HandlerMissing(p, t) == t \notin expiring[p] /\ Ends(p, t, "fail_read")

\* The handler raises or returns no dictionary.
HandlerRaises(p, t) == t \notin expiring[p] /\ p \notin stop /\ Ends(p, t, "fail_read")

HandlerStopped(p, t) == t \notin expiring[p] /\ p \in stop /\ Ends(p, t, "cancel")

\* The timeout: the handler is cancelled and awaited, which lets the loop
\* run other code before the failure is recorded.
HandlerTimesOut(p, t) ==
  /\ t \in exec[p] \ expiring[p]
  /\ p \notin stop
  /\ IsIdle(p)
  /\ expiring' = [expiring EXCEPT ![p] = @ \union {t}]
  /\ UNCHANGED <<store, frame, apiCalls, crashes, on, stop, exec>>

TimeoutFails(p, t) == t \in expiring[p] /\ Ends(p, t, "fail_read")

\* _record_worker_output: the message (abstracted) and then the entry, whose
\* version must be 0; a conflict is an exception and fails the task.
Record(p) ==
  /\ At(p, "record")
  /\ LET t == frame[p].task IN
     \/ PutBlackboardEntry(t, p) /\ Goto(p, "complete")
     \/ ~EntryIsAbsent(t) /\ UNCHANGED store /\ Goto(p, "fail_read")
  /\ UNCHANGED <<apiCalls, crashes>>

\* The execution's operation is over and so is the execution.
ExecutionEnds(p) ==
  /\ At(p, "returned")
  /\ frame[p].caller = "exec"
  /\ exec' = [exec EXCEPT ![p] = @ \ {frame[p].task}]
  /\ expiring' = [expiring EXCEPT ![p] = @ \ {frame[p].task}]
  /\ Enter(p, NoCall)
  /\ UNCHANGED <<store, apiCalls, crashes, on, stop>>

\* The heartbeat of an execution: one transaction while the loop is free.
\* A renewal that matches no row ends the heartbeat and changes nothing.
Heartbeat(p, t) ==
  /\ t \in exec[p]
  /\ t \in lapsed
  /\ IsIdle(p)
  /\ RenewTaskLease(t, p)
  /\ UNCHANGED <<frame, apiCalls, crashes, pool>>

\* The process dies with its pool, its handlers and the call it executes.
Crash(p) ==
  /\ crashes < MaxCrashes
  /\ p \in on \/ ~IsIdle(p)
  /\ crashes' = crashes + 1
  /\ on' = on \ {p}
  /\ stop' = stop \ {p}
  /\ exec' = [exec EXCEPT ![p] = {}]
  /\ expiring' = [expiring EXCEPT ![p] = {}]
  /\ Enter(p, NoCall)
  /\ UNCHANGED <<store, apiCalls>>
-----------------------------------------------------------------------------
RuntimeStep(p) == (Step(p) \/ Record(p)) /\ UNCHANGED pool

LoopStep(p) == Iterate(p) \/ AfterReport(p) \/ AfterClaim(p) \/ AfterCancel(p)

HandlerStep(p, t) ==
  \/ HandlerReturns(p, t)
  \/ HandlerMissing(p, t)
  \/ HandlerRaises(p, t)
  \/ HandlerStopped(p, t)
  \/ HandlerTimesOut(p, t)
  \/ TimeoutFails(p, t)

ProcessNext(p) ==
  \/ RuntimeStep(p)
  \/ LoopStep(p)
  \/ ExecutionEnds(p)
  \/ \E t \in Tasks : HandlerStep(p, t) \/ Heartbeat(p, t)
  \/ StartPool(p)
  \/ SetStop(p)
  \/ Crash(p)
  \/ (Post(p) \/ Reply(p)) /\ UNCHANGED pool

PoolNext ==
  \/ \E p \in Workers : ProcessNext(p)
  \/ Lapse /\ UNCHANGED pool

PoolSpec == PoolInit /\ [][PoolNext]_poolVars

\* The event loop keeps executing the code it has begun and resumes every
\* coroutine that can run; a handler ends, at the latest by its timeout.
\* Nothing is assumed of clients, of crashes, of the event or of the clock.
Fairness ==
  \A p \in Workers :
    /\ WF_poolVars(RuntimeStep(p))
    /\ WF_poolVars(LoopStep(p))
    /\ WF_poolVars(ExecutionEnds(p))
    /\ WF_poolVars(Reply(p) /\ UNCHANGED pool)
    /\ \A t \in Tasks : WF_poolVars(HandlerStep(p, t))

FairPoolSpec == PoolSpec /\ Fairness
-----------------------------------------------------------------------------
(* Properties. *)

\* The outputs stored with a task by an execution are those of the execution
\* that wrote the task's blackboard entry, however many stale executions
\* finish late: the entry's expected version of 0 lets one execution through
\* to complete_task (engine.py:380-391, local_store.py:990-1021).
OutputMatchesBoard == \A t \in Tasks : output[t] \in Workers => board[t] = output[t]

\* A run of one pool alone settles its graph unless its process dies: it does
\* not report "blocked" over a graph that is still open (engine.py:156-239).
RunSettles ==
  \A p \in Workers : p \in on ~> (p \notin on /\ (graph \in Terminal \/ crashes > 0))
-----------------------------------------------------------------------------
(* The promise of TaskLifecycle, kept by a pool that is the only writer.     *)
(* A task is active while its row is leased, and on to the end of its        *)
(* execution when the lease was lost first; a task whose cancellation was    *)
(* requested counts as cancelled, whatever the failure of a handler that     *)
(* was already being stopped makes of its row.                               *)

LifecycleState(t) ==
  CASE status[t] = "completed" -> "done"
    [] status[t] # "completed" /\ t \in cancelReq -> "cancelled"
    [] status[t] # "completed" /\ t \notin cancelReq
         /\ (status[t] = "running" \/ \E p \in Workers : t \in exec[p]) -> "active"
    [] status[t] = "queued" /\ t \notin cancelReq
         /\ (\A p \in Workers : t \notin exec[p]) -> "waiting"
    [] OTHER -> status[t]

Lifecycle == INSTANCE TaskLifecycle WITH
               state <- [t \in Tasks |-> LifecycleState(t)]

\* A single pool with nobody else writing implements the lifecycle, through
\* lapsed leases, handler timeouts, the cancellation event and crashes: no task
\* starts before its dependencies are done, nothing done is executed again,
\* nothing cancelled comes back (engine.py:139-324, taskgraph.py:236-359).
KeepsLifecycle == Lifecycle!LifecycleSpec
=============================================================================
