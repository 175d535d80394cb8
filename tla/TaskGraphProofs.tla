-------------------------- MODULE TaskGraphProofs ---------------------------
(***************************************************************************)
(* What TLC checks of the worker pool on small graphs, for every graph,    *)
(* every number of processes and every retry budget: types, leases,        *)
(* cancellation and the fencing of outputs.                                *)
(***************************************************************************)
EXTENDS WorkerPool, TLAPS

-----------------------------------------------------------------------------
(* Type correctness. *)

\* The labels whose statement concerns one row.
TaskLabel == {"record", "complete", "fail_read", "fail_state", "fail_attempt", "fail_graph"}

\* A frame at a statement about a row names a row of the graph.
FramesNameTasks ==
  \A p \in Workers : frame[p].pc \in TaskLabel => frame[p].task \in Tasks

TypeInv == PoolTypeOK /\ FramesNameTasks

\* The status a report derives is a status, whatever the rows are.
LEMMA DerivedStatusType ==
  ASSUME NEW seen \in GraphStatus
  PROVE  DerivedStatus(seen) \in GraphStatus
<1>1. CASE Some("failed")
  BY <1>1 DEF DerivedStatus, GraphStatus, TaskStatus
<1>2. CASE ~Some("failed") /\ Some("cancelled")
  BY <1>2 DEF DerivedStatus, GraphStatus, TaskStatus
<1>3. CASE ~Some("failed") /\ ~Some("cancelled") /\ AllCompleted
  BY <1>3 DEF DerivedStatus, GraphStatus, TaskStatus
<1>4. CASE /\ ~Some("failed") /\ ~Some("cancelled") /\ ~AllCompleted
           /\ Some("running") \/ ReadyTasks # {}
  BY <1>4 DEF DerivedStatus, GraphStatus, TaskStatus
<1>5. CASE /\ ~Some("failed") /\ ~Some("cancelled") /\ ~AllCompleted
           /\ ~(Some("running") \/ ReadyTasks # {})
  BY <1>5 DEF DerivedStatus
<1> QED
  BY <1>1, <1>2, <1>3, <1>4, <1>5

\* A call starts with a well-typed frame.
LEMMA CallType ==
  ASSUME NEW label \in Label, NEW caller \in Caller, NEW t \in Tasks \union {None}
  PROVE  Call(label, caller, t) \in Frame
BY DEF Call, Frame, GraphStatus, TaskStatus

\* Replacing one frame by a well-typed one that names a task where it must
\* keeps the frames typed.
LEMMA FrameUpdate ==
  ASSUME frame \in [Workers -> Frame], FramesNameTasks,
         NEW p \in Workers, NEW f \in Frame,
         f.pc \in TaskLabel => f.task \in Tasks,
         Enter(p, f)
  PROVE  frame' \in [Workers -> Frame] /\ FramesNameTasks'
BY DEF FramesNameTasks, Enter

\* The same for a jump that leaves the frame's other parts alone, or sets one.
LEMMA GotoType ==
  ASSUME frame \in [Workers -> Frame], FramesNameTasks,
         NEW p \in Workers, NEW label \in Label,
         label \in TaskLabel => frame[p].task \in Tasks,
         Goto(p, label)
  PROVE  frame' \in [Workers -> Frame] /\ FramesNameTasks'
<1> DEFINE f == [frame[p] EXCEPT !.pc = label]
<1>1. f \in Frame /\ f.pc = label /\ f.task = frame[p].task
  BY DEF Frame
<1> QED
  BY <1>1, FrameUpdate DEF Goto

LEMMA GotoWithType ==
  ASSUME frame \in [Workers -> Frame], FramesNameTasks,
         NEW p \in Workers, NEW label \in Label \ TaskLabel, NEW v \in GraphStatus,
         GotoWith(p, label, v)
  PROVE  frame' \in [Workers -> Frame] /\ FramesNameTasks'
<1> DEFINE f == [frame[p] EXCEPT !.pc = label, !.verdict = v]
<1>1. f \in Frame /\ f.pc = label
  BY DEF Frame
<1> QED
  BY <1>1, FrameUpdate DEF GotoWith

LEMMA GotoClaimedType ==
  ASSUME frame \in [Workers -> Frame], FramesNameTasks,
         NEW p \in Workers, NEW label \in Label \ TaskLabel, NEW ids \in SUBSET Tasks,
         GotoClaimed(p, label, ids)
  PROVE  frame' \in [Workers -> Frame] /\ FramesNameTasks'
<1> DEFINE f == [frame[p] EXCEPT !.pc = label, !.ids = ids]
<1>1. f \in Frame /\ f.pc = label
  BY DEF Frame
<1> QED
  BY <1>1, FrameUpdate DEF GotoClaimed

-----------------------------------------------------------------------------
(* Each transaction keeps the tables typed. *)

LEMMA RecoverType ==
  ASSUME StoreTypeOK, RecoverExpiredTaskLeases
  PROVE  StoreTypeOK'
BY DEF StoreTypeOK, RecoverExpiredTaskLeases, Recovered, TaskStatus, GraphStatus, Expired

LEMMA ClaimType ==
  ASSUME StoreTypeOK, NEW ids \in SUBSET Tasks, NEW w \in Workers \union {Api},
         ClaimTasks(ids, w)
  PROVE  StoreTypeOK'
BY DEF StoreTypeOK, ClaimTasks, Claimable, Recovered, TaskStatus, GraphStatus, Expired

LEMMA UpdateStateType ==
  ASSUME StoreTypeOK, NEW t \in Tasks, NEW s \in TaskStatus,
         NEW out \in Workers \union {Api, Error}, UpdateTaskState(t, s, out)
  PROVE  StoreTypeOK'
BY DEF StoreTypeOK, UpdateTaskState

LEMMA UpdateAttemptType ==
  ASSUME StoreTypeOK, NEW t \in Tasks, NEW n \in Nat, UpdateTaskAttempt(t, n)
  PROVE  StoreTypeOK'
BY DEF StoreTypeOK, UpdateTaskAttempt

LEMMA UpdateGraphType ==
  ASSUME StoreTypeOK, NEW s \in GraphStatus, UpdateTaskGraphStatus(s)
  PROVE  StoreTypeOK'
BY DEF StoreTypeOK, UpdateTaskGraphStatus

LEMMA CancelType ==
  ASSUME StoreTypeOK, CancelTaskGraph
  PROVE  StoreTypeOK'
BY DEF StoreTypeOK, CancelTaskGraph, TaskStatus, GraphStatus

LEMMA PutEntryType ==
  ASSUME StoreTypeOK, NEW t \in Tasks, NEW w \in Workers, PutBlackboardEntry(t, w)
  PROVE  StoreTypeOK'
BY DEF StoreTypeOK, PutBlackboardEntry

LEMMA LeaseStepType ==
  ASSUME StoreTypeOK, NEW t \in Tasks,
         LeaseLapses(t) \/ \E w \in Workers : RenewTaskLease(t, w)
  PROVE  StoreTypeOK'
BY DEF StoreTypeOK, LeaseLapses, RenewTaskLease

LEMMA StoreStutterType ==
  ASSUME StoreTypeOK, UNCHANGED store
  PROVE  StoreTypeOK'
BY DEF StoreTypeOK, store

-----------------------------------------------------------------------------
(* Each statement of an operation keeps the tables and the frames typed. *)

\* A step of a frame that is typed again at another label.
FrameOK(p) == frame' \in [Workers -> Frame] /\ FramesNameTasks'

LEMMA ReportType ==
  ASSUME TypeInv, NEW p \in Workers, Report(p)
  PROVE  StoreTypeOK' /\ FrameOK(p)
<1> USE DEF TypeInv, PoolTypeOK, TypeOK, FrameOK
<1>1. CASE ReportRead(p)
  <2> DEFINE f == [frame[p] EXCEPT !.pc = "report_recover", !.seen = graph]
  <2>0. frame[p] \in Frame /\ graph \in GraphStatus /\ "report_recover" \in Label
    BY DEF StoreTypeOK, Label
  <2>1. f \in Frame /\ f.pc = "report_recover"
    BY ONLY <2>0 DEF Frame
  <2> QED
    BY <1>1, <2>1, FrameUpdate, StoreStutterType DEF ReportRead, TaskLabel
<1>2. CASE ReportRecover(p)
  BY <1>2, RecoverType, GotoType DEF ReportRecover, Label, TaskLabel
<1>3. CASE ReportList(p)
  <2> DEFINE derived == DerivedStatus(frame[p].seen)
             label == IF derived = frame[p].seen THEN "returned" ELSE "report_write"
  <2>1. derived \in GraphStatus
    BY DerivedStatusType DEF Frame
  <2>2. label \in Label \ TaskLabel
    BY DEF Label, TaskLabel
  <2>3. GotoWith(p, label, derived)
    BY <1>3 DEF ReportList
  <2> HIDE DEF derived, label
  <2> QED
    BY <1>3, <2>1, <2>2, <2>3, GotoWithType, StoreStutterType DEF ReportList
<1>4. CASE ReportWrite(p)
  BY <1>4, UpdateGraphType, GotoType DEF ReportWrite, Label, TaskLabel, Frame
<1> QED
  BY <1>1, <1>2, <1>3, <1>4 DEF Report

LEMMA ClaimReadyType ==
  ASSUME TypeInv, NEW p \in Workers, ClaimReadyTasks(p)
  PROVE  StoreTypeOK' /\ FrameOK(p)
<1> USE DEF TypeInv, PoolTypeOK, TypeOK, FrameOK
<1>0. AfterEmptyClaim(p) \in Label \ TaskLabel
  BY DEF AfterEmptyClaim, Label, TaskLabel
<1>1. CASE ClaimGraph(p)
  <2> DEFINE label == IF graph \in Terminal THEN AfterEmptyClaim(p) ELSE "claim_recover"
  <2>1. label \in Label \ TaskLabel
    BY <1>0 DEF Label, TaskLabel
  <2> QED
    BY <1>1, <2>1, GotoType, StoreStutterType DEF ClaimGraph
<1>2. CASE ClaimRecover(p)
  BY <1>2, RecoverType, GotoType DEF ClaimRecover, Label, TaskLabel
<1>3. CASE ClaimList(p)
  <2> DEFINE ids == FirstOf(ReadyTasks, Limit(p))
  <2>1. ids \in SUBSET Tasks
    BY DEF FirstOf, ReadyTasks
  <2>2. \/ GotoClaimed(p, "claim_fail", {})
        \/ GotoClaimed(p, AfterEmptyClaim(p), {})
        \/ GotoClaimed(p, "claim", ids)
    BY <1>3 DEF ClaimList
  <2>3. {"claim_fail", "claim"} \subseteq Label \ TaskLabel /\ {} \in SUBSET Tasks
    BY DEF Label, TaskLabel
  <2> HIDE DEF ids
  <2> QED
    BY <1>0, <1>3, <2>1, <2>2, <2>3, GotoClaimedType, StoreStutterType DEF ClaimList
<1>4. CASE ClaimFail(p)
  BY <1>4, <1>0, UpdateGraphType, GotoType DEF ClaimFail, GraphStatus, TaskStatus
<1>5. CASE Claim(p)
  <2> DEFINE got == Claimable(frame[p].ids)
             label == IF got = {} THEN AfterEmptyClaim(p) ELSE "returned"
  <2>1. frame[p].ids \in SUBSET Tasks
    BY DEF Frame
  <2>2. got \in SUBSET Tasks
    BY <2>1 DEF Claimable
  <2>3. label \in Label \ TaskLabel
    BY <1>0 DEF Label, TaskLabel
  <2>4. GotoClaimed(p, label, got)
    BY <1>5 DEF Claim
  <2>5. StoreTypeOK'
    BY <1>5, <2>1, ClaimType DEF Claim, LeaseOwner
  <2> HIDE DEF got, label
  <2> QED
    BY <2>2, <2>3, <2>4, <2>5, GotoClaimedType
<1> QED
  BY <1>1, <1>2, <1>3, <1>4, <1>5 DEF ClaimReadyTasks

LEMMA AdvanceType ==
  ASSUME TypeInv, NEW p \in Workers, Advance(p)
  PROVE  StoreTypeOK' /\ FrameOK(p)
<1> USE DEF TypeInv, PoolTypeOK, TypeOK, FrameOK
<1>0. /\ {"advance_write", "claim_graph", "advance_recover", "returned"}
           \subseteq Label \ TaskLabel
      /\ {"failed", "cancelled", "completed", "queued"} \subseteq GraphStatus
  BY DEF Label, TaskLabel, GraphStatus, TaskStatus
<1>1. CASE AdvanceList(p)
  BY <1>0, <1>1, GotoType, GotoWithType, StoreStutterType DEF AdvanceList
<1>2. CASE AdvanceRecover(p)
  BY <1>2, RecoverType, GotoType DEF AdvanceRecover, Label, TaskLabel
<1>3. CASE AdvanceRelist(p)
  <2> DEFINE v == IF AllCompleted THEN "completed" ELSE "queued"
  <2>1. v \in {"completed", "queued"}
    OBVIOUS
  <2>2. \/ GotoWith(p, "advance_write", "failed")
        \/ GotoWith(p, "advance_write", "cancelled")
        \/ Goto(p, "returned")
        \/ GotoWith(p, "claim_graph", v)
    BY <1>3 DEF AdvanceRelist
  <2> HIDE DEF v
  <2> QED
    BY <1>0, <1>3, <2>1, <2>2, GotoType, GotoWithType, StoreStutterType DEF AdvanceRelist
<1>4. CASE AdvanceWrite(p)
  BY <1>4, UpdateGraphType, GotoType DEF AdvanceWrite, Label, TaskLabel, Frame
<1> QED
  BY <1>1, <1>2, <1>3, <1>4 DEF Advance

LEMMA FailType ==
  ASSUME TypeInv, NEW p \in Workers, FailTask(p)
  PROVE  StoreTypeOK' /\ FrameOK(p)
<1> USE DEF TypeInv, PoolTypeOK, TypeOK, FrameOK
<1>0. frame[p].next \in Nat
  BY DEF Frame
<1>1. CASE FailRead(p)
  <2> DEFINE t == frame[p].task
             f == [frame[p] EXCEPT !.pc = "fail_state", !.next = attempt[t] + 1]
  <2>1. t \in Tasks
    BY <1>1 DEF FailRead, At, FramesNameTasks, TaskLabel
  <2>2. attempt[t] + 1 \in Nat
    BY <2>1 DEF StoreTypeOK
  <2>3. f \in Frame /\ f.task = t
    BY <2>2 DEF Frame, Label
  <2> QED
    BY <1>1, <2>1, <2>3, FrameUpdate, StoreStutterType DEF FailRead
<1>2. CASE FailState(p)
  <2>1. frame[p].task \in Tasks
    BY <1>2 DEF FailState, At, FramesNameTasks, TaskLabel
  <2>2. (IF Retrying(p) THEN "queued" ELSE "failed") \in TaskStatus
    BY DEF TaskStatus
  <2>3. FrameOK(p)
    BY <1>2, <2>1, GotoType DEF FailState, Label
  <2> QED
    BY <1>2, <2>1, <2>2, <2>3, UpdateStateType DEF FailState
<1>3. CASE FailAttempt(p)
  <2>1. frame[p].task \in Tasks
    BY <1>3 DEF FailAttempt, At, FramesNameTasks, TaskLabel
  <2>2. FrameOK(p)
    BY <1>3, <2>1, GotoType DEF FailAttempt, Label
  <2> QED
    BY <1>0, <1>3, <2>1, <2>2, UpdateAttemptType DEF FailAttempt
<1>4. CASE FailGraph(p)
  <2> DEFINE label == IF Retrying(p) /\ ClaimNext(p) THEN "advance_list" ELSE "report"
             s == IF Retrying(p) THEN "running" ELSE "failed"
  <2>1. s \in GraphStatus
    BY DEF GraphStatus, TaskStatus
  <2>2. label \in Label \ TaskLabel
    BY DEF Label, TaskLabel
  <2>3. UpdateTaskGraphStatus(s) /\ Goto(p, label)
    BY <1>4 DEF FailGraph
  <2> HIDE DEF s, label
  <2> QED
    BY <2>1, <2>2, <2>3, UpdateGraphType, GotoType
<1> QED
  BY <1>1, <1>2, <1>3, <1>4 DEF FailTask

LEMMA CompleteType ==
  ASSUME TypeInv, NEW p \in Workers, CompleteTask(p)
  PROVE  StoreTypeOK' /\ FrameOK(p)
<1> USE DEF TypeInv, PoolTypeOK, TypeOK, FrameOK
<1> DEFINE label == IF ClaimNext(p) THEN "advance_list" ELSE "report"
           out == IF ClaimNext(p) THEN Api ELSE p
<1>1. frame[p].task \in Tasks
  BY DEF CompleteTask, At, FramesNameTasks, TaskLabel
<1>2. label \in Label \ TaskLabel
  BY DEF Label, TaskLabel
<1>3. out \in Workers \union {Api, Error} /\ "completed" \in TaskStatus
  BY DEF TaskStatus
<1>4. UpdateTaskState(frame[p].task, "completed", out) /\ Goto(p, label)
  BY DEF CompleteTask
<1> HIDE DEF label, out
<1> QED
  BY <1>1, <1>2, <1>3, <1>4, UpdateStateType, GotoType

LEMMA StepType ==
  ASSUME TypeInv, NEW p \in Workers, Step(p)
  PROVE  StoreTypeOK' /\ FrameOK(p)
<1>1. CASE Cancel(p)
  BY <1>1, CancelType, GotoType
  DEF Cancel, TypeInv, PoolTypeOK, TypeOK, FrameOK, Label, TaskLabel
<1> QED
  BY <1>1, ReportType, ClaimReadyType, AdvanceType, CompleteType, FailType DEF Step

LEMMA RecordType ==
  ASSUME TypeInv, NEW p \in Workers, Record(p)
  PROVE  StoreTypeOK' /\ FrameOK(p)
<1> USE DEF TypeInv, PoolTypeOK, TypeOK, FrameOK
<1>1. frame[p].task \in Tasks
  BY DEF Record, At, FramesNameTasks, TaskLabel
<1>2. CASE PutBlackboardEntry(frame[p].task, p) /\ Goto(p, "complete")
  BY <1>1, <1>2, PutEntryType, GotoType DEF Label
<1>3. CASE UNCHANGED store /\ Goto(p, "fail_read")
  BY <1>1, <1>3, StoreStutterType, GotoType DEF Label
<1> QED
  BY <1>2, <1>3 DEF Record

\* What the operations of the runtime leave alone is typed as before.
LEMMA PoolStutterType ==
  ASSUME TypeInv, UNCHANGED <<on, stop, exec, expiring>>
  PROVE  /\ on' \in SUBSET Workers /\ stop' \in SUBSET Workers
         /\ exec' \in [Workers -> SUBSET Tasks]
         /\ expiring' \in [Workers -> SUBSET Tasks]
BY DEF TypeInv, PoolTypeOK

LEMMA ApiType ==
  ASSUME TypeInv, NEW p \in Workers, Post(p) \/ Reply(p)
  PROVE  /\ StoreTypeOK' /\ FrameOK(p)
         /\ apiCalls' \in 0..MaxApiCalls /\ crashes' \in 0..MaxCrashes
<1> USE DEF TypeInv, PoolTypeOK, TypeOK, FrameOK
<1>1. ASSUME NEW label \in Label, NEW t \in Tasks \union {None},
             label \in TaskLabel => t \in Tasks,
             Enter(p, Call(label, "api", t))
      PROVE  FrameOK(p)
  <2>1. Call(label, "api", t) \in Frame
    BY CallType DEF Caller
  <2>2. Call(label, "api", t).pc = label /\ Call(label, "api", t).task = t
    BY DEF Call
  <2> QED
    BY <1>1, <2>1, <2>2, FrameUpdate
<1>2. CASE Reply(p)
  BY <1>1, <1>2, StoreStutterType DEF Reply, NoCall, Label, TaskLabel
<1>3. ASSUME NEW op, NEW call, Submit(p, op, call)
      PROVE  /\ StoreTypeOK' /\ Enter(p, call)
             /\ apiCalls' \in 0..MaxApiCalls /\ crashes' \in 0..MaxCrashes
  BY <1>3, StoreStutterType, RuntimeAssumption DEF Submit
<1>4. CASE PostAdvance(p) \/ PostCancel(p)
  BY <1>1, <1>3, <1>4 DEF PostAdvance, PostCancel, Label, TaskLabel
<1>5. ASSUME NEW t \in Tasks, PostComplete(p, t) \/ PostFail(p, t)
      PROVE  /\ StoreTypeOK' /\ FrameOK(p)
             /\ apiCalls' \in 0..MaxApiCalls /\ crashes' \in 0..MaxCrashes
  BY <1>1, <1>3, <1>5 DEF PostComplete, PostFail, Label
<1> QED
  BY <1>2, <1>4, <1>5 DEF Post

\* A step of the pool that leaves the tables alone and puts the process at a
\* call of its own.
LEMMA EnterType ==
  ASSUME TypeInv, NEW p \in Workers,
         NEW label \in Label, NEW caller \in Caller, NEW t \in Tasks \union {None},
         label \in TaskLabel => t \in Tasks,
         Enter(p, Call(label, caller, t))
  PROVE  FrameOK(p)
<1>1. Call(label, caller, t) \in Frame
  BY CallType
<1>2. Call(label, caller, t).pc = label /\ Call(label, caller, t).task = t
  BY DEF Call
<1> QED
  BY <1>1, <1>2, FrameUpdate DEF TypeInv, PoolTypeOK, TypeOK, FrameOK

\* No call is a well-typed frame.
LEMMA NoCallType ==
  ASSUME TypeInv, NEW p \in Workers, Enter(p, NoCall)
  PROVE  FrameOK(p)
BY EnterType DEF NoCall, Label, TaskLabel, Caller

LEMMA LoopType ==
  ASSUME TypeInv, NEW p \in Workers, LoopStep(p)
  PROVE  TypeInv'
<1> USE DEF TypeInv, PoolTypeOK, TypeOK
<1>1. StoreTypeOK' /\ apiCalls' = apiCalls /\ crashes' = crashes
  BY StoreStutterType DEF LoopStep, Iterate, AfterReport, AfterClaim, AfterCancel
<1>2. CASE Iterate(p)
  <2>1. \/ Enter(p, Call("cancel", "loop_cancel", None))
        \/ Enter(p, Call("report", "loop_report", None))
    BY <1>2 DEF Iterate
  <2>2. FrameOK(p)
    BY <2>1, EnterType DEF Label, TaskLabel, Caller
  <2> QED
    BY <1>1, <1>2, <2>2, PoolStutterType DEF Iterate, pool, FrameOK
<1>3. CASE PoolReturns(p)
  <2>1. FrameOK(p)
    BY <1>3, NoCallType DEF PoolReturns
  <2> QED
    BY <1>1, <1>3, <2>1 DEF PoolReturns, FrameOK
<1>4. CASE Enter(p, Call("claim_graph", "loop_claim", None)) /\ UNCHANGED pool
  <2>1. FrameOK(p)
    BY <1>4, EnterType DEF Label, TaskLabel, Caller
  <2> QED
    BY <1>1, <1>4, <2>1, PoolStutterType DEF pool, FrameOK
<1>5. CASE /\ exec' = [exec EXCEPT ![p] = frame[p].ids]
           /\ Enter(p, NoCall)
           /\ UNCHANGED <<on, stop, expiring>>
  <2>1. FrameOK(p)
    BY <1>5, NoCallType
  <2>2. frame[p].ids \in SUBSET Tasks
    BY DEF Frame
  <2> QED
    BY <1>1, <1>5, <2>1, <2>2 DEF FrameOK
<1> QED
  BY <1>2, <1>3, <1>4, <1>5 DEF LoopStep, AfterReport, AfterClaim, AfterCancel

LEMMA HandlerType ==
  ASSUME TypeInv, NEW p \in Workers, NEW t \in Tasks, HandlerStep(p, t) \/ Heartbeat(p, t)
  PROVE  TypeInv'
<1> USE DEF TypeInv, PoolTypeOK, TypeOK
<1>1. CASE \E label \in {"record", "fail_read", "cancel"} : Ends(p, t, label)
  <2>1. PICK label \in {"record", "fail_read", "cancel"} : Ends(p, t, label)
    BY <1>1
  <2>2. FrameOK(p)
    BY <2>1, EnterType DEF Ends, Label, Caller
  <2> QED
    BY <2>1, <2>2, StoreStutterType, PoolStutterType DEF Ends, FrameOK, pool
<1>2. CASE HandlerTimesOut(p, t)
  <2>1. expiring' \in [Workers -> SUBSET Tasks]
    BY <1>2 DEF HandlerTimesOut
  <2>2. frame' = frame /\ apiCalls' = apiCalls /\ crashes' = crashes /\ on' = on
        /\ stop' = stop /\ exec' = exec /\ StoreTypeOK'
    BY <1>2, StoreStutterType DEF HandlerTimesOut
  <2> QED
    BY <2>1, <2>2 DEF FramesNameTasks
<1>3. CASE Heartbeat(p, t)
  <2>1. StoreTypeOK'
    BY <1>3, LeaseStepType DEF Heartbeat
  <2> QED
    BY <1>3, <2>1, PoolStutterType DEF Heartbeat, pool, FramesNameTasks
<1> QED
  BY <1>1, <1>2, <1>3
  DEF HandlerStep, HandlerReturns, HandlerMissing, HandlerRaises, HandlerStopped, TimeoutFails

LEMMA PoolStepType ==
  ASSUME TypeInv, NEW p \in Workers, ProcessNext(p)
  PROVE  TypeInv'
<1> USE DEF TypeInv, PoolTypeOK, TypeOK
<1>1. CASE RuntimeStep(p)
  <2>1. StoreTypeOK' /\ FrameOK(p)
    BY <1>1, StepType, RecordType DEF RuntimeStep
  <2>2. UNCHANGED <<apiCalls, crashes>> /\ UNCHANGED pool
    BY <1>1 DEF RuntimeStep, Step, Record
  <2> QED
    BY <2>1, <2>2, PoolStutterType DEF pool, FrameOK
<1>2. CASE LoopStep(p)
  BY <1>2, LoopType
<1>3. CASE ExecutionEnds(p)
  <2>1. FrameOK(p)
    BY <1>3, NoCallType DEF ExecutionEnds
  <2>2. exec' \in [Workers -> SUBSET Tasks] /\ expiring' \in [Workers -> SUBSET Tasks]
    BY <1>3 DEF ExecutionEnds
  <2> QED
    BY <1>3, <2>1, <2>2, StoreStutterType DEF ExecutionEnds, FrameOK
<1>4. CASE \E t \in Tasks : HandlerStep(p, t) \/ Heartbeat(p, t)
  BY <1>4, HandlerType
<1>5. CASE StartPool(p) \/ SetStop(p)
  BY <1>5, StoreStutterType DEF StartPool, SetStop, FramesNameTasks
<1>6. CASE Crash(p)
  <2>1. FrameOK(p)
    BY <1>6, NoCallType DEF Crash
  <2>2. exec' \in [Workers -> SUBSET Tasks] /\ expiring' \in [Workers -> SUBSET Tasks]
    BY <1>6 DEF Crash
  <2>3. crashes' \in 0..MaxCrashes
    BY <1>6, RuntimeAssumption DEF Crash
  <2> QED
    BY <1>6, <2>1, <2>2, <2>3, StoreStutterType DEF Crash, FrameOK
<1>7. CASE (Post(p) \/ Reply(p)) /\ UNCHANGED pool
  BY <1>7, ApiType, PoolStutterType DEF pool, FrameOK
<1> QED
  BY <1>1, <1>2, <1>3, <1>4, <1>5, <1>6, <1>7 DEF ProcessNext

LEMMA InitType == PoolInit => TypeInv
<1> SUFFICES ASSUME PoolInit PROVE TypeInv
  OBVIOUS
<1>1. NoCall \in Frame
  BY CallType DEF NoCall, Label, Caller
<1>2. StoreTypeOK
  BY DEF PoolInit, Init, StoreInit, StoreTypeOK, TaskStatus, GraphStatus
<1>3. FramesNameTasks
  BY DEF PoolInit, Init, FramesNameTasks, NoCall, Call, TaskLabel
<1> QED
  BY <1>1, <1>2, <1>3, RuntimeAssumption DEF PoolInit, Init, TypeInv, PoolTypeOK, TypeOK

LEMMA NextType == TypeInv /\ [PoolNext]_poolVars => TypeInv'
<1> SUFFICES ASSUME TypeInv, [PoolNext]_poolVars PROVE TypeInv'
  OBVIOUS
<1>1. ASSUME NEW p \in Workers, ProcessNext(p) PROVE TypeInv'
  BY <1>1, PoolStepType
<1>2. CASE Lapse /\ UNCHANGED pool
  <2>1. StoreTypeOK'
    BY <1>2, LeaseStepType DEF Lapse, TypeInv, PoolTypeOK, TypeOK
  <2> QED
    BY <1>2, <2>1, PoolStutterType DEF Lapse, pool, TypeInv, PoolTypeOK, TypeOK, FramesNameTasks
<1>3. CASE UNCHANGED poolVars
  <2>1. UNCHANGED store /\ UNCHANGED <<frame, apiCalls, crashes, on, stop, exec, expiring>>
    BY <1>3 DEF poolVars
  <2>2. StoreTypeOK'
    BY <2>1, StoreStutterType DEF TypeInv, PoolTypeOK, TypeOK
  <2> QED
    BY <2>1, <2>2 DEF TypeInv, PoolTypeOK, TypeOK, FramesNameTasks
<1> QED
  BY <1>1, <1>2, <1>3 DEF PoolNext

\* Tables, frames and pools stay well typed, and no statement about a row runs
\* without a row: the whole of taskgraph.py:98-377 and engine.py:139-392.
THEOREM TypeCorrect == PoolSpec => []PoolTypeOK
<1>1. PoolSpec => []TypeInv
  BY InitType, NextType, PTL DEF PoolSpec
<1>2. TypeInv => PoolTypeOK
  BY DEF TypeInv
<1> QED
  BY <1>1, <1>2, PTL
-----------------------------------------------------------------------------
(* A step of the system is at most one transaction on the tables. *)

Transaction ==
  \/ UNCHANGED store
  \/ RecoverExpiredTaskLeases
  \/ \E ids \in SUBSET Tasks, w \in Workers \union {Api} : ClaimTasks(ids, w)
  \/ \E t \in Tasks, w \in Workers : RenewTaskLease(t, w)
  \/ \E t \in Tasks, s \in {"completed", "queued", "failed"},
        out \in Workers \union {Api, Error} : UpdateTaskState(t, s, out)
  \/ \E t \in Tasks, n \in Nat : UpdateTaskAttempt(t, n)
  \/ \E s \in GraphStatus : UpdateTaskGraphStatus(s)
  \/ CancelTaskGraph
  \/ \E t \in Tasks, w \in Workers : PutBlackboardEntry(t, w)
  \/ \E t \in Tasks : LeaseLapses(t)

\* A statement about a row executes with a row.
LEMMA AtTask ==
  ASSUME TypeInv, NEW p \in Workers, NEW label \in TaskLabel, At(p, label)
  PROVE  frame[p].task \in Tasks
BY DEF TypeInv, FramesNameTasks, At

LEMMA StepTransaction ==
  ASSUME TypeInv, NEW p \in Workers, Step(p)
  PROVE  Transaction
<1>0. frame[p] \in Frame
  BY DEF TypeInv, PoolTypeOK, TypeOK
<1>1. CASE Report(p)
  BY <1>0, <1>1 DEF Report, ReportRead, ReportRecover, ReportList, ReportWrite, Transaction, Frame
<1>2. CASE ClaimReadyTasks(p)
  <2>1. frame[p].ids \in SUBSET Tasks /\ LeaseOwner(p) \in Workers \union {Api}
    BY <1>0 DEF Frame, LeaseOwner
  <2>2. "failed" \in GraphStatus
    BY DEF GraphStatus, TaskStatus
  <2> QED
    BY <1>2, <2>1, <2>2
    DEF ClaimReadyTasks, ClaimGraph, ClaimRecover, ClaimList, ClaimFail, Claim, Transaction
<1>3. CASE Advance(p)
  BY <1>0, <1>3
  DEF Advance, AdvanceList, AdvanceRecover, AdvanceRelist, AdvanceWrite, Transaction, Frame
<1>4. CASE CompleteTask(p)
  <2> DEFINE out == IF ClaimNext(p) THEN Api ELSE p
  <2>1. frame[p].task \in Tasks
    BY <1>4, AtTask DEF CompleteTask, TaskLabel
  <2>2. out \in Workers \union {Api, Error} /\ UpdateTaskState(frame[p].task, "completed", out)
    BY <1>4 DEF CompleteTask
  <2> HIDE DEF out
  <2> QED
    BY <2>1, <2>2 DEF Transaction
<1>5. CASE FailRead(p)
  BY <1>5 DEF FailRead, Transaction
<1>6. CASE FailState(p)
  <2> DEFINE s == IF Retrying(p) THEN "queued" ELSE "failed"
  <2>1. frame[p].task \in Tasks
    BY <1>6, AtTask DEF FailState, TaskLabel
  <2>2. s \in {"completed", "queued", "failed"} /\ UpdateTaskState(frame[p].task, s, Error)
    BY <1>6 DEF FailState
  <2> HIDE DEF s
  <2> QED
    BY <2>1, <2>2 DEF Transaction
<1>7. CASE FailAttempt(p)
  <2>1. frame[p].task \in Tasks
    BY <1>7, AtTask DEF FailAttempt, TaskLabel
  <2>2. frame[p].next \in Nat
    BY <1>0 DEF Frame
  <2> QED
    BY <1>7, <2>1, <2>2 DEF FailAttempt, Transaction
<1>8. CASE FailGraph(p)
  BY <1>8 DEF FailGraph, Transaction, GraphStatus, TaskStatus
<1>9. CASE Cancel(p)
  BY <1>9 DEF Cancel, Transaction
<1> QED
  BY <1>1, <1>2, <1>3, <1>4, <1>5, <1>6, <1>7, <1>8, <1>9 DEF Step, FailTask

LEMMA NextTransaction == TypeInv /\ [PoolNext]_poolVars => Transaction
<1> SUFFICES ASSUME TypeInv, [PoolNext]_poolVars PROVE Transaction
  OBVIOUS
<1>1. ASSUME NEW p \in Workers, ProcessNext(p) PROVE Transaction
  <2>1. CASE RuntimeStep(p) /\ Record(p)
    <3>1. frame[p].task \in Tasks
      BY <2>1, AtTask DEF Record, TaskLabel
    <3> QED
      BY <2>1, <3>1 DEF Record, Transaction
  <2>2. CASE \E t \in Tasks : Heartbeat(p, t)
    BY <2>2 DEF Heartbeat, Transaction
  <2>3. CASE \/ LoopStep(p) \/ ExecutionEnds(p) \/ StartPool(p) \/ SetStop(p) \/ Crash(p)
             \/ Post(p) \/ Reply(p) \/ \E t \in Tasks : HandlerStep(p, t)
    BY <2>3 DEF LoopStep, Iterate, AfterReport, AfterClaim, AfterCancel, ExecutionEnds, StartPool,
                SetStop, Crash, Post, PostAdvance, PostComplete, PostFail, PostCancel, Submit, Reply,
                HandlerStep, HandlerReturns, HandlerMissing, HandlerRaises, HandlerStopped, HandlerTimesOut,
                TimeoutFails, Ends, Transaction
  <2> QED
    BY <1>1, <2>1, <2>2, <2>3, StepTransaction DEF ProcessNext, RuntimeStep
<1>2. CASE Lapse /\ UNCHANGED pool
  BY <1>2 DEF Lapse, Transaction
<1>3. CASE UNCHANGED poolVars
  BY <1>3 DEF poolVars, Transaction
<1> QED
  BY <1>1, <1>2, <1>3 DEF PoolNext

-----------------------------------------------------------------------------
(* Leases and cancellation. *)

LEMMA TransactionKeepsLeases ==
  ASSUME StoreTypeOK, LeaseHeldIffRunning, Transaction
  PROVE  LeaseHeldIffRunning'
<1> USE DEF StoreTypeOK, LeaseHeldIffRunning
<1>0. None \notin Workers \union {Api}
  BY StoreAssumption
<1>1. CASE UNCHANGED store
  BY <1>1 DEF store
<1>2. CASE RecoverExpiredTaskLeases
  BY <1>2 DEF RecoverExpiredTaskLeases, Recovered, Expired
<1>3. ASSUME NEW ids \in SUBSET Tasks, NEW w \in Workers \union {Api}, ClaimTasks(ids, w)
      PROVE  LeaseHeldIffRunning'
  BY <1>0, <1>3 DEF ClaimTasks, Claimable, Recovered, Expired
<1>4. ASSUME NEW t \in Tasks, NEW w \in Workers, RenewTaskLease(t, w)
      PROVE  LeaseHeldIffRunning'
  BY <1>4 DEF RenewTaskLease
<1>5. ASSUME NEW t \in Tasks, NEW s \in {"completed", "queued", "failed"},
             NEW out \in Workers \union {Api, Error}, UpdateTaskState(t, s, out)
      PROVE  LeaseHeldIffRunning'
  BY <1>5 DEF UpdateTaskState
<1>6. ASSUME NEW t \in Tasks, NEW n \in Nat, UpdateTaskAttempt(t, n)
      PROVE  LeaseHeldIffRunning'
  BY <1>6 DEF UpdateTaskAttempt
<1>7. ASSUME NEW s \in GraphStatus, UpdateTaskGraphStatus(s)
      PROVE  LeaseHeldIffRunning'
  BY <1>7 DEF UpdateTaskGraphStatus
<1>8. CASE CancelTaskGraph
  BY <1>8 DEF CancelTaskGraph, Terminal
<1>9. ASSUME NEW t \in Tasks, NEW w \in Workers, PutBlackboardEntry(t, w)
      PROVE  LeaseHeldIffRunning'
  BY <1>9 DEF PutBlackboardEntry
<1>10. ASSUME NEW t \in Tasks, LeaseLapses(t)
       PROVE  LeaseHeldIffRunning'
  BY <1>10 DEF LeaseLapses
<1> QED
  BY <1>1, <1>2, <1>3, <1>4, <1>5, <1>6, <1>7, <1>8, <1>9, <1>10 DEF Transaction

LEMMA TransactionKeepsCancelled ==
  ASSUME StoreTypeOK, CancelledNeverRuns, Transaction
  PROVE  CancelledNeverRuns'
<1> USE DEF StoreTypeOK, CancelledNeverRuns
<1>1. CASE UNCHANGED store
  BY <1>1 DEF store
<1>2. CASE RecoverExpiredTaskLeases
  BY <1>2 DEF RecoverExpiredTaskLeases, Recovered, Expired
<1>3. ASSUME NEW ids \in SUBSET Tasks, NEW w \in Workers \union {Api}, ClaimTasks(ids, w)
      PROVE  CancelledNeverRuns'
  BY <1>3 DEF ClaimTasks, Claimable, Recovered, Expired
<1>4. ASSUME NEW t \in Tasks, NEW s \in {"completed", "queued", "failed"},
             NEW out \in Workers \union {Api, Error}, UpdateTaskState(t, s, out)
      PROVE  CancelledNeverRuns'
  BY <1>4 DEF UpdateTaskState
<1>5. CASE CancelTaskGraph
  BY <1>5 DEF CancelTaskGraph, Terminal
<1> QED
  BY <1>1, <1>2, <1>3, <1>4, <1>5
  DEF Transaction, RenewTaskLease, UpdateTaskAttempt, UpdateTaskGraphStatus,
      PutBlackboardEntry, LeaseLapses

\* Whatever transactions of whatever processes interleave, and wherever they
\* crash, a row is leased exactly while it is running (local_store.py:721-897).
THEOREM LeasesMatchRunning == PoolSpec => []LeaseHeldIffRunning
<1>1. PoolInit => LeaseHeldIffRunning
  BY DEF PoolInit, Init, StoreInit, LeaseHeldIffRunning
<1>2. TypeInv /\ LeaseHeldIffRunning /\ [PoolNext]_poolVars => LeaseHeldIffRunning'
  BY NextTransaction, TransactionKeepsLeases DEF TypeInv, PoolTypeOK, TypeOK
<1>3. PoolSpec => []TypeInv
  BY InitType, NextType, PTL DEF PoolSpec
<1> QED
  BY <1>1, <1>2, <1>3, PTL DEF PoolSpec

\* A row whose cancellation was requested is not executed again, whatever a
\* stale execution writes to it (local_store.py:816-823 and 871-897).
THEOREM CancelledIsNotExecuted == PoolSpec => []CancelledNeverRuns
<1>1. PoolInit => CancelledNeverRuns
  BY DEF PoolInit, Init, StoreInit, CancelledNeverRuns
<1>2. TypeInv /\ CancelledNeverRuns /\ [PoolNext]_poolVars => CancelledNeverRuns'
  BY NextTransaction, TransactionKeepsCancelled DEF TypeInv, PoolTypeOK, TypeOK
<1>3. PoolSpec => []TypeInv
  BY InitType, NextType, PTL DEF PoolSpec
<1> QED
  BY <1>1, <1>2, <1>3, PTL DEF PoolSpec

-----------------------------------------------------------------------------
(* The fence around outputs.  OutputMatchesBoard alone is not inductive: the *)
(* step that stores an execution's outputs looks at no entry.  It is the     *)
(* statement before it that won the entry.                                   *)

WriterFence ==
  \A p \in Workers : At(p, "complete") /\ ~ClaimNext(p) => board[frame[p].task] = p

BoardInv == OutputMatchesBoard /\ WriterFence

EntriesKept == \A t \in Tasks : board[t] # None => board'[t] = board[t]

\* A process that gets a frame other than a won "complete" keeps the fence.
LEMMA EnterFence ==
  ASSUME TypeInv, WriterFence, EntriesKept, NEW p \in Workers, NEW f, Enter(p, f),
         f.pc # "complete" \/ f.caller = "api" \/ board'[f.task] = p
  PROVE  WriterFence'
<1>1. frame'[p] = f /\ \A q \in Workers \ {p} : frame'[q] = frame[q]
  BY DEF Enter, TypeInv, PoolTypeOK, TypeOK
<1>2. \A q \in Workers \ {p} : At(q, "complete") => frame[q].task \in Tasks
  BY DEF TypeInv, FramesNameTasks, At, TaskLabel
<1>3. None \notin Workers
  BY StoreAssumption
<1> QED
  BY <1>1, <1>2, <1>3 DEF WriterFence, EntriesKept, At, ClaimNext

\* The same for the jumps of the runtime's operations.
LEMMA GotoFence ==
  ASSUME TypeInv, WriterFence, EntriesKept, NEW p \in Workers,
         NEW label \in Label \ {"complete"},
         \/ Goto(p, label)
         \/ \E v \in GraphStatus : GotoWith(p, label, v)
         \/ \E ids : GotoClaimed(p, label, ids)
  PROVE  WriterFence'
<1>0. frame[p] \in Frame
  BY DEF TypeInv, PoolTypeOK, TypeOK
<1>1. CASE Goto(p, label)
  <2> DEFINE f == [frame[p] EXCEPT !.pc = label]
  <2>1. f.pc = label
    BY <1>0 DEF Frame
  <2> QED
    BY <1>1, <2>1, EnterFence DEF Goto
<1>2. ASSUME NEW v \in GraphStatus, GotoWith(p, label, v) PROVE WriterFence'
  <2> DEFINE f == [frame[p] EXCEPT !.pc = label, !.verdict = v]
  <2>1. f.pc = label
    BY <1>0 DEF Frame
  <2> QED
    BY <1>2, <2>1, EnterFence DEF GotoWith
<1>3. ASSUME NEW ids, GotoClaimed(p, label, ids) PROVE WriterFence'
  <2> DEFINE f == [frame[p] EXCEPT !.pc = label, !.ids = ids]
  <2>1. f.pc = label
    BY <1>0 DEF Frame
  <2> QED
    BY <1>3, <2>1, EnterFence DEF GotoClaimed
<1> QED
  BY <1>1, <1>2, <1>3

\* Where an operation of the runtime goes next: to the completion of a task or
\* the inside of a failure only as the failure itself does.
Inside == {"complete", "record", "fail_state", "fail_attempt"}

LEMMA StepJumps ==
  ASSUME TypeInv, NEW p \in Workers, Step(p)
  PROVE  \/ ReportRead(p)
         \/ FailRead(p)
         \/ FailState(p)
         \/ \E label \in Label \ Inside :
              \/ Goto(p, label)
              \/ \E v \in GraphStatus : GotoWith(p, label, v)
              \/ \E ids : GotoClaimed(p, label, ids)
<1>0. frame[p] \in Frame
  BY DEF TypeInv, PoolTypeOK, TypeOK
<1>2. CASE ReportRecover(p) \/ ReportWrite(p)
  BY <1>2 DEF ReportRecover, ReportWrite, Label, Inside
<1>3. CASE ReportList(p)
  <2> DEFINE derived == DerivedStatus(frame[p].seen)
             label == IF derived = frame[p].seen THEN "returned" ELSE "report_write"
  <2>1. derived \in GraphStatus
    BY <1>0, DerivedStatusType DEF Frame
  <2>2. label \in Label \ Inside
    BY DEF Label, Inside
  <2>3. GotoWith(p, label, derived)
    BY <1>3 DEF ReportList
  <2> HIDE DEF derived, label
  <2> QED
    BY <2>1, <2>2, <2>3
<1>4. AfterEmptyClaim(p) \in Label \ Inside
  BY DEF AfterEmptyClaim, Label, Inside
<1>5. CASE ClaimGraph(p)
  <2> DEFINE label == IF graph \in Terminal THEN AfterEmptyClaim(p) ELSE "claim_recover"
  <2>1. label \in Label \ Inside
    BY <1>4 DEF Label, Inside
  <2> QED
    BY <1>5, <2>1 DEF ClaimGraph
<1>6. CASE ClaimRecover(p) \/ ClaimFail(p)
  BY <1>4, <1>6 DEF ClaimRecover, ClaimFail, Label, Inside
<1>7. CASE ClaimList(p)
  <2> DEFINE ids == FirstOf(ReadyTasks, Limit(p))
  <2>1. \/ GotoClaimed(p, "claim_fail", {})
        \/ GotoClaimed(p, AfterEmptyClaim(p), {})
        \/ GotoClaimed(p, "claim", ids)
    BY <1>7 DEF ClaimList
  <2>2. {"claim_fail", "claim"} \subseteq Label \ Inside
    BY DEF Label, Inside
  <2> HIDE DEF ids
  <2> QED
    BY <1>4, <2>1, <2>2
<1>8. CASE Claim(p)
  <2> DEFINE got == Claimable(frame[p].ids)
             label == IF got = {} THEN AfterEmptyClaim(p) ELSE "returned"
  <2>1. label \in Label \ Inside
    BY <1>4 DEF Label, Inside
  <2>2. GotoClaimed(p, label, got)
    BY <1>8 DEF Claim
  <2> HIDE DEF got, label
  <2> QED
    BY <2>1, <2>2
<1>9. CASE Advance(p)
  <2>1. /\ {"advance_write", "claim_graph", "advance_recover", "advance_relist", "returned"}
             \subseteq Label \ Inside
        /\ {"failed", "cancelled", "completed", "queued"} \subseteq GraphStatus
    BY DEF Label, Inside, GraphStatus, TaskStatus
  <2>2. CASE AdvanceList(p) \/ AdvanceRecover(p) \/ AdvanceWrite(p)
    BY <2>1, <2>2 DEF AdvanceList, AdvanceRecover, AdvanceWrite
  <2>3. CASE AdvanceRelist(p)
    <3> DEFINE v == IF AllCompleted THEN "completed" ELSE "queued"
    <3>1. v \in {"completed", "queued"}
      OBVIOUS
    <3>2. \/ GotoWith(p, "advance_write", "failed")
          \/ GotoWith(p, "advance_write", "cancelled")
          \/ Goto(p, "returned")
          \/ GotoWith(p, "claim_graph", v)
      BY <2>3 DEF AdvanceRelist
    <3> HIDE DEF v
    <3> QED
      BY <2>1, <3>1, <3>2
  <2> QED
    BY <1>9, <2>2, <2>3 DEF Advance
<1>10. CASE CompleteTask(p)
  <2> DEFINE label == IF ClaimNext(p) THEN "advance_list" ELSE "report"
  <2>1. label \in Label \ Inside /\ Goto(p, label)
    BY <1>10 DEF CompleteTask, Label, Inside
  <2> HIDE DEF label
  <2> QED
    BY <2>1
<1>11. CASE FailGraph(p)
  <2> DEFINE label == IF Retrying(p) /\ ClaimNext(p) THEN "advance_list" ELSE "report"
  <2>1. label \in Label \ Inside /\ Goto(p, label)
    BY <1>11 DEF FailGraph, Label, Inside
  <2> HIDE DEF label
  <2> QED
    BY <2>1
<1>12. CASE FailAttempt(p) \/ Cancel(p)
  BY <1>12 DEF FailAttempt, Cancel, Label, Inside
<1> QED
  BY <1>2, <1>3, <1>5, <1>6, <1>7, <1>8, <1>9, <1>10, <1>11, <1>12
  DEF Step, Report, ClaimReadyTasks, FailTask

\* No transaction takes an entry away.
LEMMA TransactionKeepsEntries ==
  ASSUME StoreTypeOK, Transaction
  PROVE  EntriesKept
<1>1. CASE UNCHANGED store
  BY <1>1 DEF store, EntriesKept
<1>2. ASSUME NEW t \in Tasks, NEW w \in Workers, PutBlackboardEntry(t, w)
      PROVE  EntriesKept
  BY <1>2 DEF PutBlackboardEntry, EntryIsAbsent, EntriesKept, StoreTypeOK
<1> QED
  BY <1>1, <1>2
  DEF Transaction, EntriesKept, RecoverExpiredTaskLeases, ClaimTasks, RenewTaskLease,
      UpdateTaskState, UpdateTaskAttempt, UpdateTaskGraphStatus, CancelTaskGraph, LeaseLapses

\* A step that stores no execution's outputs keeps outputs matched.
LEMMA OutputsKept ==
  ASSUME StoreTypeOK, OutputMatchesBoard, EntriesKept,
         \A t \in Tasks : output'[t] = output[t] \/ output'[t] \notin Workers
  PROVE  OutputMatchesBoard'
<1>1. None \notin Workers
  BY StoreAssumption
<1> QED
  BY <1>1 DEF OutputMatchesBoard, EntriesKept, StoreTypeOK

LEMMA StepBoard ==
  ASSUME TypeInv, BoardInv, NEW p \in Workers, Step(p)
  PROVE  BoardInv'
<1>1. StoreTypeOK /\ Transaction /\ OutputMatchesBoard /\ WriterFence
  BY StepTransaction DEF TypeInv, PoolTypeOK, TypeOK, BoardInv
<1>2. EntriesKept
  BY <1>1, TransactionKeepsEntries
<1>3. frame[p] \in Frame
  BY DEF TypeInv, PoolTypeOK, TypeOK
<1>4. WriterFence'
  <2>1. CASE ReportRead(p)
    <3> DEFINE f == [frame[p] EXCEPT !.pc = "report_recover", !.seen = graph]
    <3>1. f.pc = "report_recover"
      BY ONLY <1>3 DEF Frame
    <3> HIDE DEF f
    <3>2. Enter(p, f)
      BY <2>1 DEF ReportRead, f
    <3> QED
      BY <1>1, <1>2, <3>1, <3>2, EnterFence
  <2>2. CASE FailRead(p)
    <3> DEFINE f == [frame[p] EXCEPT !.pc = "fail_state", !.next = attempt[frame[p].task] + 1]
    <3>1. f.pc = "fail_state"
      BY ONLY <1>3 DEF Frame
    <3> HIDE DEF f
    <3>2. Enter(p, f)
      BY <2>2 DEF FailRead, f
    <3> QED
      BY <1>1, <1>2, <3>1, <3>2, EnterFence
  <2>3. CASE FailState(p)
    BY <1>1, <1>2, <2>3, GotoFence DEF FailState, Label
  <2>4. ASSUME NEW label \in Label \ Inside,
               \/ Goto(p, label)
               \/ \E v \in GraphStatus : GotoWith(p, label, v)
               \/ \E ids : GotoClaimed(p, label, ids)
        PROVE  WriterFence'
    <3> QED
      BY <1>1, <1>2, <2>4, GotoFence DEF Inside
  <2> QED
    BY <2>1, <2>2, <2>3, <2>4, StepJumps
<1>5. CASE CompleteTask(p)
  <2> DEFINE t == frame[p].task
             out == IF ClaimNext(p) THEN Api ELSE p
  <2>1. t \in Tasks
    BY <1>5, AtTask DEF CompleteTask, TaskLabel
  <2>2. output' = [output EXCEPT ![t] = out] /\ board' = board
    BY <1>5 DEF CompleteTask, UpdateTaskState
  <2>3. out \in Workers => board[t] = out
    BY <1>1, <1>5, StoreAssumption DEF WriterFence, CompleteTask
  <2> QED
    BY <1>1, <1>4, <2>1, <2>2, <2>3 DEF OutputMatchesBoard, BoardInv, StoreTypeOK
<1>6. CASE FailTask(p)
  <2>1. Error \notin Workers
    BY StoreAssumption
  <2>2. \A t \in Tasks : output'[t] = output[t] \/ output'[t] \notin Workers
    BY <1>1, <1>6, <2>1
    DEF FailTask, FailRead, FailState, FailAttempt, FailGraph, UpdateTaskState,
        UpdateTaskAttempt, UpdateTaskGraphStatus, store, StoreTypeOK
  <2> QED
    BY <1>1, <1>2, <1>4, <2>2, OutputsKept DEF BoardInv
<1>7. CASE Report(p) \/ ClaimReadyTasks(p) \/ Advance(p) \/ Cancel(p)
  <2>1. output' = output
    BY <1>7
    DEF Report, ReportRead, ReportRecover, ReportList, ReportWrite, ClaimReadyTasks, ClaimGraph,
        ClaimRecover, ClaimList, ClaimFail, Claim, Advance, AdvanceList, AdvanceRecover,
        AdvanceRelist, AdvanceWrite, Cancel, RecoverExpiredTaskLeases, ClaimTasks,
        UpdateTaskGraphStatus, CancelTaskGraph, store
  <2> QED
    BY <1>1, <1>2, <1>4, <2>1, OutputsKept DEF BoardInv
<1> QED
  BY <1>5, <1>6, <1>7 DEF Step

LEMMA RecordBoard ==
  ASSUME TypeInv, BoardInv, NEW p \in Workers, Record(p)
  PROVE  BoardInv'
<1> DEFINE t == frame[p].task
<1>1. /\ StoreTypeOK /\ OutputMatchesBoard /\ WriterFence
      /\ t \in Tasks /\ frame[p] \in Frame
  BY AtTask DEF TypeInv, PoolTypeOK, TypeOK, BoardInv, Record, TaskLabel
<1>2. CASE PutBlackboardEntry(t, p) /\ Goto(p, "complete")
  <2>1. EntriesKept /\ output' = output /\ board'[t] = p
    BY <1>1, <1>2 DEF PutBlackboardEntry, EntryIsAbsent, EntriesKept, StoreTypeOK
  <2> DEFINE f == [frame[p] EXCEPT !.pc = "complete"]
  <2>2. f.task = t
    BY <1>1 DEF Frame
  <2>3. WriterFence'
    BY <1>1, <1>2, <2>1, <2>2, EnterFence DEF Goto
  <2> QED
    BY <1>1, <2>1, <2>3, OutputsKept DEF BoardInv
<1>3. CASE UNCHANGED store /\ Goto(p, "fail_read")
  <2>1. EntriesKept /\ output' = output
    BY <1>3 DEF store, EntriesKept
  <2>2. WriterFence'
    BY <1>1, <1>3, <2>1, GotoFence DEF Label
  <2> QED
    BY <1>1, <2>1, <2>2, OutputsKept DEF BoardInv
<1> QED
  BY <1>2, <1>3 DEF Record

\* The other steps of a process touch neither entries nor outputs, and put the
\* process at the start of a call.
LEMMA OtherBoard ==
  ASSUME TypeInv, BoardInv, NEW p \in Workers,
         board' = board, output' = output,
         \/ UNCHANGED frame
         \/ Enter(p, NoCall)
         \/ \E label \in Label, caller \in Caller, t \in Tasks \union {None} :
              Enter(p, Call(label, caller, t)) /\ (label # "complete" \/ caller = "api")
  PROVE  BoardInv'
<1>1. StoreTypeOK /\ OutputMatchesBoard /\ WriterFence /\ EntriesKept
  BY DEF TypeInv, PoolTypeOK, TypeOK, BoardInv, EntriesKept
<1>2. OutputMatchesBoard'
  BY <1>1, OutputsKept
<1>3. CASE UNCHANGED frame
  BY <1>1, <1>2, <1>3 DEF BoardInv, WriterFence, At, ClaimNext
<1>4. CASE Enter(p, NoCall)
  BY <1>1, <1>2, <1>4, EnterFence DEF BoardInv, NoCall, Call
<1>5. ASSUME NEW label \in Label, NEW caller \in Caller, NEW t \in Tasks \union {None},
             Enter(p, Call(label, caller, t)), label # "complete" \/ caller = "api"
      PROVE  BoardInv'
  <2>1. Call(label, caller, t).pc = label /\ Call(label, caller, t).caller = caller
    BY DEF Call
  <2> QED
    BY <1>1, <1>2, <1>5, <2>1, EnterFence DEF BoardInv
<1> QED
  BY <1>3, <1>4, <1>5

LEMMA NextBoard == TypeInv /\ BoardInv /\ [PoolNext]_poolVars => BoardInv'
<1> SUFFICES ASSUME TypeInv, BoardInv, [PoolNext]_poolVars PROVE BoardInv'
  OBVIOUS
<1>1. ASSUME NEW p \in Workers, ProcessNext(p) PROVE BoardInv'
  <2>1. CASE RuntimeStep(p)
    BY <2>1, StepBoard, RecordBoard DEF RuntimeStep
  <2>2. CASE LoopStep(p)
    <3>1. board' = board /\ output' = output
      BY <2>2 DEF LoopStep, Iterate, AfterReport, AfterClaim, AfterCancel, store
    <3>2. \/ Enter(p, NoCall)
          \/ Enter(p, Call("cancel", "loop_cancel", None))
          \/ Enter(p, Call("report", "loop_report", None))
          \/ Enter(p, Call("claim_graph", "loop_claim", None))
      BY <2>2 DEF LoopStep, Iterate, AfterReport, AfterClaim, AfterCancel, PoolReturns
    <3> QED
      BY <3>1, <3>2, OtherBoard DEF Label, Caller
  <2>3. CASE ExecutionEnds(p) \/ Crash(p) \/ Reply(p)
    <3>1. board' = board /\ output' = output /\ Enter(p, NoCall)
      BY <2>3 DEF ExecutionEnds, Crash, Reply, store
    <3> QED
      BY <3>1, OtherBoard
  <2>4. ASSUME NEW t \in Tasks, NEW label \in {"record", "fail_read", "cancel"}, Ends(p, t, label)
        PROVE  BoardInv'
    <3>1. board' = board /\ output' = output /\ Enter(p, Call(label, "exec", t))
      BY <2>4 DEF Ends, store
    <3> QED
      BY <3>1, OtherBoard DEF Label, Caller
  <2>5. CASE \/ StartPool(p) \/ SetStop(p)
             \/ \E t \in Tasks : HandlerTimesOut(p, t) \/ Heartbeat(p, t)
    <3>1. board' = board /\ output' = output /\ UNCHANGED frame
      BY <2>5 DEF StartPool, SetStop, HandlerTimesOut, Heartbeat, RenewTaskLease, store
    <3> QED
      BY <3>1, OtherBoard
  <2>6. CASE Post(p)
    <3>1. board' = board /\ output' = output
      BY <2>6 DEF Post, PostAdvance, PostComplete, PostFail, PostCancel, Submit, store
    <3>2. \E label \in Label, t \in Tasks \union {None} : Enter(p, Call(label, "api", t))
      BY <2>6 DEF Post, PostAdvance, PostComplete, PostFail, PostCancel, Submit, Label
    <3> QED
      BY <3>1, <3>2, OtherBoard DEF Caller
  <2> QED
    BY <1>1, <2>1, <2>2, <2>3, <2>4, <2>5, <2>6
    DEF ProcessNext, HandlerStep, HandlerReturns, HandlerMissing, HandlerRaises, HandlerStopped, TimeoutFails
<1>2. CASE Lapse /\ UNCHANGED pool
  BY <1>2 DEF Lapse, LeaseLapses, BoardInv, OutputMatchesBoard, WriterFence, At, ClaimNext
<1>3. CASE UNCHANGED poolVars
  BY <1>3 DEF poolVars, store, BoardInv, OutputMatchesBoard, WriterFence, At, ClaimNext
<1> QED
  BY <1>1, <1>2, <1>3 DEF PoolNext

\* However many executions of one task overlap, the outputs stored with it and
\* the entry on the blackboard come from the same one (engine.py:380-391).
THEOREM OutputsAreFenced == PoolSpec => []OutputMatchesBoard
<1>1. PoolInit => BoardInv
  <2> SUFFICES ASSUME PoolInit PROVE BoardInv
    OBVIOUS
  <2>1. None \notin Workers
    BY StoreAssumption
  <2> QED
    BY <2>1 DEF PoolInit, Init, StoreInit, BoardInv, OutputMatchesBoard, WriterFence, At, NoCall, Call
<1>2. TypeInv /\ BoardInv /\ [PoolNext]_poolVars => BoardInv'
  BY NextBoard
<1>3. PoolSpec => []TypeInv
  BY InitType, NextType, PTL DEF PoolSpec
<1>4. BoardInv => OutputMatchesBoard
  BY DEF BoardInv
<1> QED
  BY <1>1, <1>2, <1>3, <1>4, PTL DEF PoolSpec
=============================================================================
