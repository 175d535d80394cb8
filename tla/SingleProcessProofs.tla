------------------------ MODULE SingleProcessProofs -------------------------
(***************************************************************************)
(* What holds of a task graph in a single process, over any graph and any  *)
(* retry budget, with any number of calls and crashes: the budget of a     *)
(* task, the outputs of what is completed, the status of the graph and the *)
(* lifecycle of a task.                                                    *)
(***************************************************************************)
EXTENDS TaskGraphProofs

-----------------------------------------------------------------------------
(* RetryBudget is not inductive: it bounds claims by the budget and says     *)
(* nothing of the attempts that are counted.  What a step preserves is that  *)
(* every claim but the current one is charged, or is being charged, or was   *)
(* lost to a crash.                                                          *)

\* fail_task has committed the row's status and not yet its attempt.
Charging(t) == \E p \in Workers : At(p, "fail_attempt") /\ frame[p].task = t

Waiting(t) == IF status[t] = "queued" THEN 1 ELSE 0
Pending(t) == IF Charging(t) THEN 1 ELSE 0

ClaimsCharged ==
  \A t \in Tasks : claims[t] + Waiting(t) <= attempt[t] + 1 + crashes + Pending(t)

QueuedWithinBudget == \A t \in Tasks : status[t] = "queued" => attempt[t] < MaxAttempts

FailureReadsBudget ==
  \A p \in Workers :
    /\ At(p, "fail_state") \/ At(p, "fail_attempt")
         => frame[p].next = attempt[frame[p].task] + 1
    /\ At(p, "fail_attempt") /\ status[frame[p].task] = "queued" => Retrying(p)

BudgetTables == ClaimsCharged /\ QueuedWithinBudget /\ RetryBudget
BudgetInv == BudgetTables /\ FailureReadsBudget

\* What the tables' types give every step.
LEMMA BudgetTypes ==
  ASSUME TypeInv
  PROVE  /\ MaxAttempts \in Nat \ {0}
         /\ crashes \in Nat
         /\ attempt \in [Tasks -> Nat] /\ claims \in [Tasks -> Nat]
         /\ status \in [Tasks -> TaskStatus]
         /\ frame \in [Workers -> Frame]
BY StoreAssumption, RuntimeAssumption DEF TypeInv, PoolTypeOK, TypeOK, StoreTypeOK

\* Nothing but the failure of a task puts a process inside one.
LEMMA NotFailing ==
  ASSUME TypeInv, BudgetInv, NEW p \in Workers, Workers = {p},
         ~(At(p, "fail_state") \/ At(p, "fail_attempt"))'
  PROVE  FailureReadsBudget'
BY DEF FailureReadsBudget

\* A step that changes neither rows nor frames.
LEMMA IdleBudget ==
  ASSUME TypeInv, BudgetInv,
         UNCHANGED <<status, attempt, claims, crashes, frame>>
  PROVE  BudgetInv'
BY DEF BudgetInv, BudgetTables, ClaimsCharged, QueuedWithinBudget, RetryBudget, FailureReadsBudget,
       Waiting, Pending, Charging, At, Retrying

-----------------------------------------------------------------------------
(* The transactions of every operation but a failure. *)

\* Recovery charges the attempt in the transaction that requeues the row.
LEMMA RecoverBudget ==
  ASSUME TypeInv, BudgetTables, \A t \in Tasks : ~Charging(t), crashes' = crashes,
         RecoverExpiredTaskLeases
  PROVE  BudgetTables'
<1>1. ASSUME NEW t \in Tasks PROVE Pending(t) = 0 /\ Pending(t)' \in {0, 1}
  BY <1>1 DEF Pending
<1>2. ASSUME NEW t \in Tasks
      PROVE  /\ claims'[t] = claims[t]
             /\ \/ status'[t] = status[t] /\ attempt'[t] = attempt[t]
                \/ /\ t \in Expired
                   /\ attempt'[t] = attempt[t] + 1
                   /\ status'[t] = Recovered(t)
  BY <1>2 DEF RecoverExpiredTaskLeases
<1>3. ASSUME NEW t \in Tasks
      PROVE  claims'[t] + Waiting(t)' <= attempt'[t] + 1 + crashes' + Pending(t)'
  <2>1. claims[t] + Waiting(t) <= attempt[t] + 1 + crashes + Pending(t)
    BY DEF BudgetTables, ClaimsCharged
  <2>2. Waiting(t)' \in {0, 1} /\ (status'[t] = status[t] => Waiting(t)' = Waiting(t))
        /\ Waiting(t) \in {0, 1}
    BY DEF Waiting
  <2> QED
    BY <1>1, <1>2, <2>1, <2>2, BudgetTypes
<1>4. QueuedWithinBudget'
  BY <1>2, BudgetTypes DEF BudgetTables, QueuedWithinBudget, Recovered
<1>5. RetryBudget'
  BY <1>2 DEF BudgetTables, RetryBudget
<1> QED
  BY <1>3, <1>4, <1>5 DEF BudgetTables, ClaimsCharged

\* A claim is made of a queued row, or of one its own recovery has charged.
LEMMA ClaimBudget ==
  ASSUME TypeInv, BudgetTables, \A t \in Tasks : ~Charging(t), crashes' = crashes,
         NEW ids \in SUBSET Tasks, NEW w, ClaimTasks(ids, w)
  PROVE  BudgetTables'
<1>1. ASSUME NEW t \in Tasks PROVE Pending(t) = 0 /\ Pending(t)' \in {0, 1}
  BY <1>1 DEF Pending
<1>2. ASSUME NEW t \in Tasks
      PROVE  \/ /\ t \notin Claimable(ids) /\ t \notin Expired
                /\ status'[t] = status[t] /\ attempt'[t] = attempt[t] /\ claims'[t] = claims[t]
             \/ /\ t \notin Claimable(ids) /\ t \in Expired
                /\ status'[t] = Recovered(t) /\ attempt'[t] = attempt[t] + 1
                /\ claims'[t] = claims[t]
             \/ /\ t \in Claimable(ids) /\ t \in Expired
                /\ status'[t] = "running" /\ attempt'[t] = attempt[t] + 1
                /\ claims'[t] = claims[t] + 1
             \/ /\ t \in Claimable(ids) /\ t \notin Expired
                /\ status'[t] = "running" /\ attempt'[t] = attempt[t]
                /\ claims'[t] = claims[t] + 1
  BY <1>2 DEF ClaimTasks
<1>3. ASSUME NEW t \in Tasks
      PROVE  /\ t \in Claimable(ids) /\ t \notin Expired => status[t] = "queued"
             /\ t \in Claimable(ids) /\ t \in Expired => attempt[t] + 1 < MaxAttempts
             /\ t \in Expired => status[t] = "running"
             /\ Recovered(t) = "queued" => attempt[t] + 1 < MaxAttempts
  BY <1>3, BudgetTypes DEF Claimable, Recovered, Expired
<1>4. ASSUME NEW t \in Tasks
      PROVE  /\ claims[t] + Waiting(t) <= attempt[t] + 1 + crashes
             /\ status[t] = "queued" => attempt[t] < MaxAttempts
             /\ claims[t] <= MaxAttempts + crashes
  BY <1>1, <1>4, BudgetTypes
  DEF BudgetTables, ClaimsCharged, QueuedWithinBudget, RetryBudget, Waiting
<1>5. ASSUME NEW t \in Tasks
      PROVE  /\ claims'[t] + Waiting(t)' <= attempt'[t] + 1 + crashes'
             /\ status'[t] = "queued" => attempt'[t] < MaxAttempts
             /\ claims'[t] <= MaxAttempts + crashes'
  BY <1>2, <1>3, <1>4, BudgetTypes DEF Waiting
<1>6. attempt' \in [Tasks -> Nat] /\ claims' \in [Tasks -> Nat]
  BY <1>2, BudgetTypes DEF ClaimTasks
<1> QED
  BY <1>1, <1>5, <1>6, BudgetTypes DEF BudgetTables, ClaimsCharged, QueuedWithinBudget, RetryBudget, Waiting

\* Completion, cancellation and the graph's row requeue nothing.
LEMMA SettleBudget ==
  ASSUME TypeInv, BudgetTables, \A t \in Tasks : ~Charging(t), crashes' = crashes,
         UNCHANGED <<attempt, claims>>,
         \A t \in Tasks : status'[t] = status[t] \/ status'[t] # "queued"
  PROVE  BudgetTables'
<1>1. ASSUME NEW t \in Tasks PROVE Pending(t) = 0 /\ Pending(t)' \in {0, 1}
  BY <1>1 DEF Pending
<1>2. ASSUME NEW t \in Tasks PROVE Waiting(t)' \in {0, 1} /\ Waiting(t) \in {0, 1} /\ Waiting(t)' <= Waiting(t)
  BY <1>2 DEF Waiting
<1> QED
  BY <1>1, <1>2, BudgetTypes DEF BudgetTables, ClaimsCharged, QueuedWithinBudget, RetryBudget

-----------------------------------------------------------------------------
(* The steps of the one process. *)

\* Two statements of a failure: the status is committed under the budget that
\* was read, then the attempt is.
LEMMA FailStateBudget ==
  ASSUME TypeInv, BudgetInv, NEW p \in Workers, Workers = {p}, FailState(p), crashes' = crashes
  PROVE  BudgetInv'
<1> DEFINE r == frame[p].task
           f == [frame[p] EXCEPT !.pc = "fail_attempt"]
<1>1. r \in Tasks /\ frame[p] \in Frame
  BY AtTask, BudgetTypes DEF FailState, TaskLabel
<1>2. f.task = r /\ f.pc = "fail_attempt" /\ f.next = frame[p].next
  BY ONLY <1>1 DEF Frame
<1>3. frame'[p] = f
  BY BudgetTypes DEF FailState, Goto, Enter
<1>4. frame[p].next = attempt[r] + 1
  BY DEF FailState, BudgetInv, FailureReadsBudget
<1>5. /\ status' = [status EXCEPT ![r] = IF Retrying(p) THEN "queued" ELSE "failed"]
      /\ attempt' = attempt /\ claims' = claims /\ crashes' = crashes
  BY DEF FailState, UpdateTaskState
<1> HIDE DEF f
<1>6. \A t \in Tasks : Charging(t)' <=> t = r
  BY <1>2, <1>3 DEF Charging, At
<1>7. \A t \in Tasks : ~Charging(t)
  BY DEF Charging, FailState, At
<1>8. QueuedWithinBudget'
  BY <1>1, <1>4, <1>5, BudgetTypes
  DEF Retrying, QueuedWithinBudget, BudgetInv, BudgetTables
<1>9. ClaimsCharged'
  <2> SUFFICES ASSUME NEW t \in Tasks
               PROVE  claims'[t] + Waiting(t)' <= attempt'[t] + 1 + crashes' + Pending(t)'
    BY DEF ClaimsCharged
  <2>1. claims[t] + Waiting(t) <= attempt[t] + 1 + crashes
    BY <1>7, BudgetTypes DEF Pending, BudgetInv, BudgetTables, ClaimsCharged, Waiting
  <2>2. CASE t = r
    <3>1. Pending(t)' = 1 /\ Waiting(t)' \in {0, 1} /\ Waiting(t) \in {0, 1}
      BY <1>6, <2>2 DEF Pending, Waiting
    <3> QED
      BY <1>5, <2>1, <3>1, BudgetTypes
  <2>3. CASE t # r
    <3>1. Pending(t)' = 0 /\ Waiting(t)' = Waiting(t) /\ Waiting(t) \in {0, 1}
      BY <1>1, <1>5, <1>6, <2>3, BudgetTypes DEF Pending, Waiting
    <3> QED
      BY <1>5, <2>1, <3>1, BudgetTypes
  <2> QED
    BY <2>2, <2>3
<1>10. FailureReadsBudget'
  BY <1>1, <1>2, <1>3, <1>4, <1>5, BudgetTypes DEF FailureReadsBudget, Retrying, At
<1> QED
  BY <1>5, <1>8, <1>9, <1>10 DEF BudgetInv, BudgetTables, RetryBudget

LEMMA FailAttemptBudget ==
  ASSUME TypeInv, BudgetInv, NEW p \in Workers, Workers = {p}, FailAttempt(p),
         crashes' = crashes
  PROVE  BudgetTables'
<1> DEFINE r == frame[p].task
<1>1. r \in Tasks /\ frame[p] \in Frame
  BY AtTask, BudgetTypes DEF FailAttempt, TaskLabel
<1>2. /\ attempt' = [attempt EXCEPT ![r] = attempt[r] + 1]
      /\ status' = status /\ claims' = claims /\ crashes' = crashes
  BY DEF FailAttempt, UpdateTaskAttempt, BudgetInv, FailureReadsBudget
<1>3. status[r] = "queued" => attempt[r] + 1 < MaxAttempts
  BY <1>1, BudgetTypes DEF FailAttempt, BudgetInv, FailureReadsBudget, Retrying
<1>4. \A t \in Tasks : Charging(t) => t = r
  BY DEF Charging
<1>5. QueuedWithinBudget'
  BY <1>1, <1>2, <1>3, BudgetTypes DEF QueuedWithinBudget, BudgetInv, BudgetTables
<1>6. ClaimsCharged'
  <2> SUFFICES ASSUME NEW t \in Tasks
               PROVE  claims'[t] + Waiting(t)' <= attempt'[t] + 1 + crashes' + Pending(t)'
    BY DEF ClaimsCharged
  <2>1. claims[t] + Waiting(t) <= attempt[t] + 1 + crashes + Pending(t)
    BY DEF BudgetInv, BudgetTables, ClaimsCharged
  <2>2. /\ Waiting(t)' = Waiting(t) /\ Waiting(t) \in {0, 1}
        /\ Pending(t)' \in {0, 1} /\ Pending(t) \in {0, 1} /\ (t # r => Pending(t) = 0)
    BY <1>2, <1>4 DEF Waiting, Pending
  <2>3. attempt'[t] = IF t = r THEN attempt[t] + 1 ELSE attempt[t]
    BY <1>1, <1>2, BudgetTypes
  <2> QED
    BY <1>2, <2>1, <2>2, <2>3, BudgetTypes
<1> QED
  BY <1>2, <1>5, <1>6 DEF BudgetInv, BudgetTables, RetryBudget

\* Where a jump goes.
LEMMA GotoPc ==
  ASSUME TypeInv, NEW p \in Workers, NEW label \in Label,
         \/ Goto(p, label)
         \/ \E v \in GraphStatus : GotoWith(p, label, v)
         \/ \E ids : GotoClaimed(p, label, ids)
  PROVE  frame'[p].pc = label
<1>0. frame[p] \in Frame
  BY BudgetTypes
<1> QED
  BY <1>0, BudgetTypes DEF Goto, GotoWith, GotoClaimed, Enter, Frame

LEMMA StepBudget ==
  ASSUME TypeInv, BudgetInv, NEW p \in Workers, Workers = {p}, Step(p)
  PROVE  BudgetInv'
<1>0. frame[p] \in Frame /\ crashes' = crashes /\ BudgetTables
  BY BudgetTypes DEF Step, BudgetInv
<1>1. CASE FailState(p)
  BY <1>0, <1>1, FailStateBudget
<1>2. CASE FailRead(p)
  <2> DEFINE f == [frame[p] EXCEPT !.pc = "fail_state", !.next = attempt[frame[p].task] + 1]
  <2>1. frame[p].task \in Tasks
    BY <1>2, AtTask DEF FailRead, TaskLabel
  <2>2. f.pc = "fail_state" /\ f.next = attempt[frame[p].task] + 1 /\ f.task = frame[p].task
    BY ONLY <1>0 DEF Frame
  <2> HIDE DEF f
  <2>3. frame'[p] = f
    BY <1>2, BudgetTypes DEF FailRead, Enter, f
  <2>4. UNCHANGED <<status, attempt, claims>>
    BY <1>2 DEF FailRead, store
  <2>5. FailureReadsBudget'
    BY <2>2, <2>3, <2>4 DEF FailureReadsBudget, At
  <2>6. \A t \in Tasks : ~Charging(t)
    BY <1>2 DEF Charging, FailRead, At
  <2> QED
    BY <1>0, <2>4, <2>5, <2>6, SettleBudget DEF BudgetInv
<1>3. CASE FailAttempt(p)
  <2>1. Goto(p, "fail_graph")
    BY <1>3 DEF FailAttempt
  <2>2. ~(At(p, "fail_state") \/ At(p, "fail_attempt"))'
    BY <2>1, GotoPc DEF At, Label
  <2> QED
    BY <1>0, <1>3, <2>2, FailAttemptBudget, NotFailing DEF BudgetInv
<1>4. CASE ~(FailState(p) \/ FailRead(p) \/ FailAttempt(p))
  <2>1. ~(At(p, "fail_state") \/ At(p, "fail_attempt"))'
    <3>1. CASE ReportRead(p)
      <4> DEFINE f == [frame[p] EXCEPT !.pc = "report_recover", !.seen = graph]
      <4>1. f.pc = "report_recover"
        BY ONLY <1>0 DEF Frame
      <4> HIDE DEF f
      <4>2. frame'[p] = f
        BY <3>1, BudgetTypes DEF ReportRead, Enter, f
      <4> QED
        BY <4>1, <4>2 DEF At
    <3>2. ASSUME NEW label \in Label \ Inside,
                 \/ Goto(p, label)
                 \/ \E v \in GraphStatus : GotoWith(p, label, v)
                 \/ \E ids : GotoClaimed(p, label, ids)
          PROVE  ~(At(p, "fail_state") \/ At(p, "fail_attempt"))'
      BY <3>2, GotoPc DEF Inside, At
    <3> QED
      BY <1>4, <3>1, <3>2, StepJumps
  <2>2. \A t \in Tasks : ~Charging(t)
    BY <1>4 DEF Step, Report, ReportRead, ReportRecover, ReportList, ReportWrite, ClaimReadyTasks,
                ClaimGraph, ClaimRecover, ClaimList, ClaimFail, Claim, Advance, AdvanceList,
                AdvanceRecover, AdvanceRelist, AdvanceWrite, CompleteTask, FailTask, FailGraph,
                Cancel, At, Charging
  <2>3. CASE ReportRecover(p) \/ ClaimRecover(p) \/ AdvanceRecover(p)
    <3>1. BudgetTables'
      BY <1>0, <2>2, <2>3, RecoverBudget DEF ReportRecover, ClaimRecover, AdvanceRecover
    <3> QED
      BY <2>1, <3>1, NotFailing DEF BudgetInv
  <2>4. CASE Claim(p)
    <3>1. frame[p].ids \in SUBSET Tasks
      BY <1>0 DEF Frame
    <3>2. BudgetTables'
      BY <1>0, <2>2, <2>4, <3>1, ClaimBudget DEF Claim
    <3> QED
      BY <2>1, <3>2, NotFailing DEF BudgetInv
  <2>5. CASE ~(ReportRecover(p) \/ ClaimRecover(p) \/ AdvanceRecover(p) \/ Claim(p))
    <3>1. UNCHANGED <<attempt, claims>>
      BY <1>4, <2>5
      DEF Step, Report, ReportRead, ReportList, ReportWrite, ClaimReadyTasks, ClaimGraph,
          ClaimList, ClaimFail, Advance, AdvanceList, AdvanceRelist, AdvanceWrite,
          CompleteTask, FailTask, FailGraph, Cancel, UpdateTaskState, UpdateTaskGraphStatus,
          CancelTaskGraph, store
    <3>2. \A t \in Tasks : status'[t] = status[t] \/ status'[t] # "queued"
      BY <1>4, <2>5, BudgetTypes
      DEF Step, Report, ReportRead, ReportList, ReportWrite, ClaimReadyTasks, ClaimGraph,
          ClaimList, ClaimFail, Advance, AdvanceList, AdvanceRelist, AdvanceWrite,
          CompleteTask, FailTask, FailGraph, Cancel, UpdateTaskState, UpdateTaskGraphStatus,
          CancelTaskGraph, store
    <3> QED
      BY <1>0, <2>1, <2>2, <3>1, <3>2, SettleBudget, NotFailing DEF BudgetInv
  <2> QED
    BY <2>3, <2>4, <2>5
<1> QED
  BY <1>1, <1>2, <1>3, <1>4

\* A call that begins or ends, over rows that do not change.
LEMMA CallBudget ==
  ASSUME TypeInv, BudgetInv, NEW p \in Workers, Workers = {p},
         UNCHANGED <<status, attempt, claims>>, crashes' = crashes,
         ~At(p, "fail_attempt"),
         ~(At(p, "fail_state") \/ At(p, "fail_attempt"))'
  PROVE  BudgetInv'
<1>1. \A t \in Tasks : ~Charging(t)
  BY DEF Charging
<1> QED
  BY <1>1, SettleBudget, NotFailing DEF BudgetInv

\* A crash may leave one status without its attempt, and is counted for it.
LEMMA CrashBudget ==
  ASSUME TypeInv, BudgetInv, NEW p \in Workers, Workers = {p}, Crash(p)
  PROVE  BudgetInv'
<1>1. UNCHANGED <<status, attempt, claims>> /\ crashes' = crashes + 1
  BY DEF Crash, store
<1>2. frame'[p].pc = "idle"
  BY BudgetTypes DEF Crash, Enter, NoCall, Call
<1>3. ASSUME NEW t \in Tasks
      PROVE  claims'[t] + Waiting(t)' <= attempt'[t] + 1 + crashes' + Pending(t)'
  <2>1. claims[t] + Waiting(t) <= attempt[t] + 1 + crashes + Pending(t)
    BY DEF BudgetInv, BudgetTables, ClaimsCharged
  <2>2. /\ Waiting(t)' = Waiting(t) /\ Waiting(t) \in {0, 1}
        /\ Pending(t)' \in {0, 1} /\ Pending(t) \in {0, 1}
    BY <1>1 DEF Waiting, Pending
  <2> QED
    BY <1>1, <2>1, <2>2, BudgetTypes
<1>4. QueuedWithinBudget'
  BY <1>1 DEF BudgetInv, BudgetTables, QueuedWithinBudget
<1>5. RetryBudget'
  BY <1>1, BudgetTypes DEF BudgetInv, BudgetTables, RetryBudget
<1>6. FailureReadsBudget'
  BY <1>2, NotFailing DEF At
<1> QED
  BY <1>3, <1>4, <1>5, <1>6 DEF BudgetInv, BudgetTables, ClaimsCharged

\* Where a new call stands is no statement of fail_task but its first.
LEMMA EnterPc ==
  ASSUME TypeInv, NEW p \in Workers, NEW label, NEW caller, NEW t,
         Enter(p, Call(label, caller, t))
  PROVE  frame'[p].pc = label
BY BudgetTypes DEF Enter, Call

LEMMA ProcessBudget ==
  ASSUME TypeInv, BudgetInv, NEW p \in Workers, Workers = {p}, ProcessNext(p)
  PROVE  BudgetInv'
<1>1. CASE RuntimeStep(p) /\ Step(p)
  BY <1>1, StepBudget
<1>2. CASE Record(p)
  <2>1. UNCHANGED <<status, attempt, claims>> /\ crashes' = crashes /\ At(p, "record")
    BY <1>2 DEF Record, PutBlackboardEntry, store
  <2>2. Goto(p, "complete") \/ Goto(p, "fail_read")
    BY <1>2 DEF Record
  <2>3. ~(At(p, "fail_state") \/ At(p, "fail_attempt"))'
    BY <2>2, GotoPc DEF At, Label
  <2> QED
    BY <2>1, <2>3, CallBudget DEF At
<1>3. CASE LoopStep(p)
  <2>1. UNCHANGED <<status, attempt, claims>> /\ crashes' = crashes
        /\ (At(p, "returned") \/ At(p, "idle"))
    BY <1>3 DEF LoopStep, Iterate, AfterReport, AfterClaim, AfterCancel, IsIdle, At, store
  <2>2. \/ Enter(p, NoCall)
        \/ Enter(p, Call("cancel", "loop_cancel", None))
        \/ Enter(p, Call("report", "loop_report", None))
        \/ Enter(p, Call("claim_graph", "loop_claim", None))
    BY <1>3 DEF LoopStep, Iterate, AfterReport, AfterClaim, AfterCancel, PoolReturns
  <2>3. frame'[p].pc \in {"idle", "cancel", "report", "claim_graph"}
    BY <2>2, EnterPc DEF NoCall
  <2> QED
    BY <2>1, <2>3, CallBudget DEF At
<1>4. CASE ExecutionEnds(p) \/ Reply(p)
  <2>1. UNCHANGED <<status, attempt, claims>> /\ crashes' = crashes /\ At(p, "returned")
        /\ Enter(p, NoCall)
    BY <1>4 DEF ExecutionEnds, Reply, store
  <2>2. frame'[p].pc = "idle"
    BY <2>1, EnterPc DEF NoCall
  <2> QED
    BY <2>1, <2>2, CallBudget DEF At
<1>5. ASSUME NEW t \in Tasks, NEW label \in {"record", "fail_read", "cancel"}, Ends(p, t, label)
      PROVE  BudgetInv'
  <2>1. UNCHANGED <<status, attempt, claims>> /\ crashes' = crashes /\ At(p, "idle")
        /\ Enter(p, Call(label, "exec", t))
    BY <1>5 DEF Ends, IsIdle, At, store
  <2>2. frame'[p].pc = label
    BY <2>1, EnterPc
  <2> QED
    BY <2>1, <2>2, CallBudget DEF At
<1>6. CASE \/ StartPool(p) \/ SetStop(p)
           \/ \E t \in Tasks : HandlerTimesOut(p, t) \/ Heartbeat(p, t)
  <2>1. UNCHANGED <<status, attempt, claims, crashes, frame>>
    BY <1>6 DEF StartPool, SetStop, HandlerTimesOut, Heartbeat, RenewTaskLease, store
  <2> QED
    BY <2>1, IdleBudget
<1>7. CASE Post(p)
  <2>1. UNCHANGED <<status, attempt, claims>> /\ crashes' = crashes /\ At(p, "idle")
    BY <1>7 DEF Post, PostAdvance, PostComplete, PostFail, PostCancel, Submit, IsIdle, At, store
  <2>2. \E label \in {"advance_list", "complete", "fail_read", "cancel"}, t \in Tasks \union {None} :
          Enter(p, Call(label, "api", t))
    BY <1>7 DEF Post, PostAdvance, PostComplete, PostFail, PostCancel, Submit
  <2>3. frame'[p].pc \in {"advance_list", "complete", "fail_read", "cancel"}
    BY <2>2, EnterPc
  <2> QED
    BY <2>1, <2>3, CallBudget DEF At
<1>8. CASE Crash(p)
  BY <1>8, CrashBudget
<1> QED
  BY <1>1, <1>2, <1>3, <1>4, <1>5, <1>6, <1>7, <1>8
  DEF ProcessNext, RuntimeStep, HandlerStep, HandlerReturns, HandlerMissing, HandlerRaises, HandlerStopped,
      TimeoutFails

\* In a single process no task is claimed more often than its max_attempts,
\* and each crash costs at most one claim more (taskgraph.py:257-320,
\* local_store.py:779-856).
THEOREM BudgetIsKept ==
  ASSUME NEW p, Workers = {p}
  PROVE  PoolSpec => []RetryBudget
<1>1. PoolInit => BudgetInv
  <2> SUFFICES ASSUME PoolInit PROVE BudgetInv
    OBVIOUS
  <2>1. /\ status = [t \in Tasks |-> "queued"]
        /\ attempt = [t \in Tasks |-> 0]
        /\ claims = [t \in Tasks |-> 0]
        /\ crashes = 0
        /\ frame = [q \in Workers |-> NoCall]
    BY DEF PoolInit, Init, StoreInit
  <2>2. \A q \in Workers : frame[q].pc = "idle"
    BY <2>1 DEF NoCall, Call
  <2>3. \A t \in Tasks : Waiting(t) = 1 /\ Pending(t) = 0
    BY <2>1, <2>2 DEF Waiting, Pending, Charging, At
  <2> QED
    BY <2>1, <2>2, <2>3, StoreAssumption
    DEF BudgetInv, BudgetTables, ClaimsCharged, QueuedWithinBudget, RetryBudget,
        FailureReadsBudget, At
<1>2. TypeInv /\ BudgetInv /\ [PoolNext]_poolVars => BudgetInv'
  <2> SUFFICES ASSUME TypeInv, BudgetInv, [PoolNext]_poolVars PROVE BudgetInv'
    OBVIOUS
  <2>1. ASSUME ProcessNext(p) PROVE BudgetInv'
    BY <2>1, ProcessBudget
  <2>2. CASE Lapse /\ UNCHANGED pool
    BY <2>2, IdleBudget DEF Lapse, LeaseLapses
  <2>3. CASE UNCHANGED poolVars
    BY <2>3, IdleBudget DEF poolVars, store
  <2> QED
    BY <2>1, <2>2, <2>3 DEF PoolNext
<1>3. PoolSpec => []TypeInv
  BY InitType, NextType, PTL DEF PoolSpec
<1>4. BudgetInv => RetryBudget
  BY DEF BudgetInv, BudgetTables
<1> QED
  BY <1>1, <1>2, <1>3, <1>4, PTL DEF PoolSpec
-----------------------------------------------------------------------------
(* What every later proof asks of a step: the frame it leaves, and what it   *)
(* does to rows, outputs and the graph's status.                             *)

LEMMA GotoFrame ==
  ASSUME TypeInv, NEW p \in Workers, NEW label \in Label, Goto(p, label)
  PROVE  /\ frame'[p].pc = label /\ frame'[p].caller = frame[p].caller
         /\ frame'[p].task = frame[p].task /\ frame'[p].verdict = frame[p].verdict
         /\ frame'[p].ids = frame[p].ids
<1> DEFINE f == [frame[p] EXCEPT !.pc = label]
<1>1. frame[p] \in Frame
  BY BudgetTypes
<1>2. /\ f.pc = label /\ f.caller = frame[p].caller /\ f.task = frame[p].task
      /\ f.verdict = frame[p].verdict /\ f.ids = frame[p].ids
  BY ONLY <1>1 DEF Frame
<1>3. frame'[p] = f
  BY BudgetTypes DEF Goto, Enter
<1> HIDE DEF f
<1> QED
  BY <1>2, <1>3

LEMMA GotoWithFrame ==
  ASSUME TypeInv, NEW p \in Workers, NEW label \in Label, NEW v \in GraphStatus,
         GotoWith(p, label, v)
  PROVE  /\ frame'[p].pc = label /\ frame'[p].caller = frame[p].caller
         /\ frame'[p].task = frame[p].task /\ frame'[p].verdict = v
         /\ frame'[p].ids = frame[p].ids
<1> DEFINE f == [frame[p] EXCEPT !.pc = label, !.verdict = v]
<1>1. frame[p] \in Frame
  BY BudgetTypes
<1>2. /\ f.pc = label /\ f.caller = frame[p].caller /\ f.task = frame[p].task
      /\ f.verdict = v /\ f.ids = frame[p].ids
  BY ONLY <1>1 DEF Frame
<1>3. frame'[p] = f
  BY BudgetTypes DEF GotoWith, Enter
<1> HIDE DEF f
<1> QED
  BY <1>2, <1>3

LEMMA GotoClaimedFrame ==
  ASSUME TypeInv, NEW p \in Workers, NEW label \in Label, NEW ids, GotoClaimed(p, label, ids)
  PROVE  /\ frame'[p].pc = label /\ frame'[p].caller = frame[p].caller
         /\ frame'[p].task = frame[p].task /\ frame'[p].verdict = frame[p].verdict
         /\ frame'[p].ids = ids
<1> DEFINE f == [frame[p] EXCEPT !.pc = label, !.ids = ids]
<1>1. frame[p] \in Frame
  BY BudgetTypes
<1>2. /\ f.pc = label /\ f.caller = frame[p].caller /\ f.task = frame[p].task
      /\ f.verdict = frame[p].verdict /\ f.ids = ids
  BY ONLY <1>1 DEF Frame
<1>3. frame'[p] = f
  BY BudgetTypes DEF GotoClaimed, Enter
<1> HIDE DEF f
<1> QED
  BY <1>2, <1>3

LEMMA ReadFrames ==
  ASSUME TypeInv, NEW p \in Workers, ReportRead(p) \/ FailRead(p)
  PROVE  /\ frame'[p].pc = IF At(p, "report") THEN "report_recover" ELSE "fail_state"
         /\ frame'[p].caller = frame[p].caller
         /\ frame'[p].task = frame[p].task /\ frame'[p].verdict = frame[p].verdict
         /\ frame'[p].ids = frame[p].ids
<1>1. frame[p] \in Frame
  BY BudgetTypes
<1>2. CASE ReportRead(p)
  <2> DEFINE f == [frame[p] EXCEPT !.pc = "report_recover", !.seen = graph]
  <2>1. /\ f.pc = "report_recover" /\ f.caller = frame[p].caller /\ f.task = frame[p].task
        /\ f.verdict = frame[p].verdict /\ f.ids = frame[p].ids
    BY ONLY <1>1 DEF Frame
  <2>2. frame'[p] = f
    BY <1>2, BudgetTypes DEF ReportRead, Enter
  <2> HIDE DEF f
  <2> QED
    BY <1>2, <2>1, <2>2 DEF ReportRead
<1>3. CASE FailRead(p)
  <2> DEFINE f == [frame[p] EXCEPT !.pc = "fail_state", !.next = attempt[frame[p].task] + 1]
  <2>1. /\ f.pc = "fail_state" /\ f.caller = frame[p].caller /\ f.task = frame[p].task
        /\ f.verdict = frame[p].verdict /\ f.ids = frame[p].ids
    BY ONLY <1>1 DEF Frame
  <2>2. frame'[p] = f
    BY <1>3, BudgetTypes DEF FailRead, Enter
  <2> HIDE DEF f
  <2> QED
    BY <1>3, <2>1, <2>2 DEF FailRead, At
<1> QED
  BY <1>2, <1>3

LEMMA CallFrame ==
  ASSUME TypeInv, NEW p \in Workers, NEW label, NEW caller, NEW t,
         Enter(p, Call(label, caller, t))
  PROVE  /\ frame'[p].pc = label /\ frame'[p].caller = caller /\ frame'[p].task = t
         /\ frame'[p].verdict = "queued" /\ frame'[p].ids = {}
BY BudgetTypes DEF Enter, Call

\* Only complete_task completes a row, only a failure takes a completion back.
LEMMA StepRows ==
  ASSUME TypeInv, NEW p \in Workers, Step(p)
  PROVE  /\ CompleteTask(p) \/ \A t \in Tasks : status'[t] = "completed" => status[t] = "completed"
         /\ FailState(p) \/ \A t \in Tasks : status[t] = "completed" => status'[t] = "completed"
         /\ CompleteTask(p) \/ FailState(p) \/ FailAttempt(p) \/ output' = output
         /\ crashes' = crashes
<1>0. status \in [Tasks -> TaskStatus] /\ crashes' = crashes
  BY BudgetTypes DEF Step
<1>1. CASE ReportRecover(p) \/ ClaimRecover(p) \/ AdvanceRecover(p)
  BY <1>0, <1>1
  DEF ReportRecover, ClaimRecover, AdvanceRecover, RecoverExpiredTaskLeases, Recovered, Expired
<1>2. CASE Claim(p)
  BY <1>0, <1>2 DEF Claim, ClaimTasks, Claimable, Recovered, Expired
<1>3. CASE Cancel(p)
  BY <1>0, <1>3 DEF Cancel, CancelTaskGraph, Terminal
<1>4. CASE CompleteTask(p) \/ FailState(p)
  BY <1>0, <1>4 DEF CompleteTask, FailState, UpdateTaskState
<1>5. CASE FailAttempt(p)
  BY <1>0, <1>5 DEF FailAttempt, UpdateTaskAttempt
<1>6. CASE \/ ReportRead(p) \/ ReportList(p) \/ ReportWrite(p) \/ ClaimGraph(p) \/ ClaimList(p)
           \/ ClaimFail(p) \/ AdvanceList(p) \/ AdvanceRelist(p) \/ AdvanceWrite(p)
           \/ FailRead(p) \/ FailGraph(p)
  BY <1>0, <1>6
  DEF ReportRead, ReportList, ReportWrite, ClaimGraph, ClaimList, ClaimFail, AdvanceList,
      AdvanceRelist, AdvanceWrite, FailRead, FailGraph, UpdateTaskGraphStatus, store
<1> QED
  BY <1>0, <1>1, <1>2, <1>3, <1>4, <1>5, <1>6 DEF Step, Report, ClaimReadyTasks, Advance, FailTask

\* The steps of a process that are no statement of the runtime leave the rows'
\* status, the outputs and the graph alone, and its frame at the start of a call.
LEMMA OtherRows ==
  ASSUME TypeInv, NEW p \in Workers, ProcessNext(p), ~Step(p)
  PROVE  /\ UNCHANGED <<status, output, graph>>
         /\ crashes' = crashes \/ Crash(p)
         /\ \/ UNCHANGED frame
            \/ Crash(p)
            \/ At(p, "record") /\ (Goto(p, "complete") \/ Goto(p, "fail_read"))
            \/ At(p, "returned") /\ Enter(p, NoCall)
            \/ (At(p, "idle") \/ At(p, "returned"))
               /\ \E label \in Label \ (Inside \ {"record", "complete"}), caller \in Caller,
                     t \in Tasks \union {None} : Enter(p, Call(label, caller, t))
<1>1. CASE Record(p)
  BY <1>1 DEF Record, PutBlackboardEntry, store
<1>2. CASE LoopStep(p)
  <2>1. UNCHANGED <<status, output, graph, crashes>>
        /\ (At(p, "returned") \/ At(p, "idle"))
    BY <1>2 DEF LoopStep, Iterate, AfterReport, AfterClaim, AfterCancel, IsIdle, At, store
  <2>2. \/ At(p, "returned") /\ Enter(p, NoCall)
        \/ Enter(p, Call("cancel", "loop_cancel", None))
        \/ Enter(p, Call("report", "loop_report", None))
        \/ Enter(p, Call("claim_graph", "loop_claim", None))
    BY <1>2 DEF LoopStep, Iterate, AfterReport, AfterClaim, AfterCancel, PoolReturns
  <2> QED
    BY <2>1, <2>2 DEF Label, Caller, Inside
<1>3. CASE ExecutionEnds(p) \/ Reply(p)
  BY <1>3 DEF ExecutionEnds, Reply, store
<1>4. ASSUME NEW t \in Tasks, NEW label \in {"record", "fail_read", "cancel"}, Ends(p, t, label)
      PROVE  /\ UNCHANGED <<status, output, graph, crashes>> /\ At(p, "idle")
             /\ Enter(p, Call(label, "exec", t)) /\ label \in Label \ (Inside \ {"record", "complete"})
  BY <1>4 DEF Ends, IsIdle, At, store, Label, Inside
<1>5. CASE \/ StartPool(p) \/ SetStop(p)
           \/ \E t \in Tasks : HandlerTimesOut(p, t) \/ Heartbeat(p, t)
  BY <1>5 DEF StartPool, SetStop, HandlerTimesOut, Heartbeat, RenewTaskLease, store
<1>6. CASE Post(p)
  <2>1. UNCHANGED <<status, output, graph, crashes>> /\ At(p, "idle")
    BY <1>6 DEF Post, PostAdvance, PostComplete, PostFail, PostCancel, Submit, IsIdle, At, store
  <2>2. \E label \in {"advance_list", "complete", "fail_read", "cancel"}, t \in Tasks \union {None} :
          Enter(p, Call(label, "api", t))
    BY <1>6 DEF Post, PostAdvance, PostComplete, PostFail, PostCancel, Submit
  <2> QED
    BY <2>1, <2>2 DEF Label, Caller, Inside
<1>7. CASE Crash(p)
  BY <1>7, BudgetTypes DEF Crash, store
<1>8. CASE \E t \in Tasks, label \in {"record", "fail_read", "cancel"} : Ends(p, t, label)
  BY <1>4, <1>8 DEF Caller
<1> QED
  BY <1>1, <1>2, <1>3, <1>5, <1>6, <1>7, <1>8
  DEF ProcessNext, RuntimeStep, HandlerStep, HandlerReturns, HandlerMissing, HandlerRaises, HandlerStopped,
      TimeoutFails
-----------------------------------------------------------------------------
(* Outputs.  Nothing keeps the second write of a failure from a completed    *)
(* row but that the row is not completed while the failure is inside.        *)

FailureOfOpenRow ==
  \A p \in Workers : At(p, "fail_attempt") => status[frame[p].task] # "completed"

OutputInv == CompletedKeepsOutput /\ FailureOfOpenRow

LEMMA StepOutput ==
  ASSUME TypeInv, OutputInv, NEW p \in Workers, Workers = {p}, Step(p)
  PROVE  OutputInv'
<1>0. /\ status \in [Tasks -> TaskStatus] /\ CompletedKeepsOutput
      /\ output \in [Tasks -> Workers \union {Api, None, Error}]
  BY BudgetTypes DEF OutputInv, TypeInv, PoolTypeOK, TypeOK, StoreTypeOK
<1>1. CASE FailState(p)
  <2> DEFINE r == frame[p].task
             s == IF Retrying(p) THEN "queued" ELSE "failed"
  <2>1. r \in Tasks
    BY <1>1, AtTask DEF FailState, TaskLabel
  <2>2. s # "completed"
    OBVIOUS
  <2>3. status' = [status EXCEPT ![r] = s] /\ output' = [output EXCEPT ![r] = Error]
    BY <1>1 DEF FailState, UpdateTaskState
  <2> HIDE DEF s
  <2>4. frame'[p].task = r
    BY <1>1, GotoFrame DEF FailState, Label
  <2> QED
    BY <1>0, <2>1, <2>2, <2>3, <2>4 DEF OutputInv, CompletedKeepsOutput, FailureOfOpenRow
<1>2. CASE FailAttempt(p)
  <2> DEFINE r == frame[p].task
  <2>1. r \in Tasks /\ status[r] # "completed"
    BY <1>2, AtTask DEF FailAttempt, TaskLabel, OutputInv, FailureOfOpenRow
  <2>2. status' = status /\ output' = [output EXCEPT ![r] = Error]
    BY <1>2 DEF FailAttempt, UpdateTaskAttempt
  <2>3. frame'[p].pc = "fail_graph"
    BY <1>2, GotoFrame DEF FailAttempt, Label
  <2> QED
    BY <1>0, <2>1, <2>2, <2>3 DEF OutputInv, CompletedKeepsOutput, FailureOfOpenRow, At
<1>3. CASE ~FailState(p) /\ ~FailAttempt(p)
  <2>1. frame'[p].pc # "fail_attempt"
    <3>1. CASE ReportRead(p) \/ FailRead(p)
      BY <3>1, ReadFrames
    <3>2. ASSUME NEW label \in Label \ Inside,
                 \/ Goto(p, label)
                 \/ \E v \in GraphStatus : GotoWith(p, label, v)
                 \/ \E ids : GotoClaimed(p, label, ids)
          PROVE  frame'[p].pc # "fail_attempt"
      BY <3>2, GotoPc DEF Inside
    <3> QED
      BY <1>3, <3>1, <3>2, StepJumps
  <2>2. CompletedKeepsOutput'
    <3>1. CASE CompleteTask(p)
      <4> DEFINE r == frame[p].task
                 w == IF ClaimNext(p) THEN Api ELSE p
      <4>1. w # Error
        BY StoreAssumption
      <4>2. status' = [status EXCEPT ![r] = "completed"] /\ output' = [output EXCEPT ![r] = w]
        BY <3>1 DEF CompleteTask, UpdateTaskState
      <4> HIDE DEF w
      <4> QED
        BY <1>0, <4>1, <4>2 DEF CompletedKeepsOutput
    <3>2. CASE ~CompleteTask(p)
      BY <1>0, <1>3, <3>2, StepRows DEF CompletedKeepsOutput
    <3> QED
      BY <3>1, <3>2
  <2> QED
    BY <2>1, <2>2 DEF OutputInv, FailureOfOpenRow, At
<1> QED
  BY <1>1, <1>2, <1>3

\* With one process a completed row holds the outputs of its completion: the
\* two writes of a failure reach no row that was completed in between
\* (taskgraph.py:257-292).
THEOREM CompletionsKeepOutput ==
  ASSUME NEW p, Workers = {p}
  PROVE  PoolSpec => []CompletedKeepsOutput
<1>1. PoolInit => OutputInv
  BY DEF PoolInit, Init, StoreInit, OutputInv, CompletedKeepsOutput, FailureOfOpenRow, At, NoCall, Call
<1>2. TypeInv /\ OutputInv /\ [PoolNext]_poolVars => OutputInv'
  <2> SUFFICES ASSUME TypeInv, OutputInv, [PoolNext]_poolVars PROVE OutputInv'
    OBVIOUS
  <2>1. CASE ProcessNext(p) /\ Step(p)
    BY <2>1, StepOutput
  <2>2. CASE ProcessNext(p) /\ ~Step(p)
    <3>1. UNCHANGED <<status, output>>
      BY <2>2, OtherRows
    <3>2. UNCHANGED frame \/ frame'[p].pc # "fail_attempt"
      <4>1. CASE UNCHANGED frame
        BY <4>1
      <4>2. CASE Crash(p)
        BY <4>2, CallFrame DEF Crash, NoCall
      <4>3. CASE At(p, "record") /\ (Goto(p, "complete") \/ Goto(p, "fail_read"))
        BY <4>3, GotoFrame DEF Label
      <4>4. CASE Enter(p, NoCall)
        BY <4>4, CallFrame DEF NoCall
      <4>5. CASE \E label \in Label \ (Inside \ {"record", "complete"}), caller \in Caller,
                    t \in Tasks \union {None} : Enter(p, Call(label, caller, t))
        BY <4>5, CallFrame DEF Inside
      <4> QED
        BY <2>2, <4>1, <4>2, <4>3, <4>4, <4>5, OtherRows
    <3> QED
      BY <3>1, <3>2 DEF OutputInv, CompletedKeepsOutput, FailureOfOpenRow, At
  <2>3. CASE Lapse /\ UNCHANGED pool
    BY <2>3 DEF Lapse, LeaseLapses, OutputInv, CompletedKeepsOutput, FailureOfOpenRow, At
  <2>4. CASE UNCHANGED poolVars
    BY <2>4 DEF poolVars, store, OutputInv, CompletedKeepsOutput, FailureOfOpenRow, At
  <2> QED
    BY <2>1, <2>2, <2>3, <2>4 DEF PoolNext
<1>3. PoolSpec => []TypeInv
  BY InitType, NextType, PTL DEF PoolSpec
<1>4. OutputInv => CompletedKeepsOutput
  BY DEF OutputInv
<1> QED
  BY <1>1, <1>2, <1>3, <1>4, PTL DEF PoolSpec
-----------------------------------------------------------------------------
(* The graph's row.  Where an operation is on its way to record a completion, *)
(* all rows are completed and stay so; a failure that takes one back is on    *)
(* its way to correct the graph's row.                                        *)

VerdictLabel == {"report_write", "claim_graph", "claim_recover", "claim_list", "claim_fail", "claim",
                 "advance_write"}

GraphCorrected ==
  graph = "completed" => AllCompleted \/ \E p \in Workers : At(p, "fail_attempt") \/ At(p, "fail_graph")

VerdictHolds ==
  \A p \in Workers :
    frame[p].pc \in VerdictLabel /\ frame[p].verdict = "completed" => AllCompleted

GraphInv == crashes = 0 => GraphCorrected /\ VerdictHolds

\* Only a failure takes the completion of the graph back.
LEMMA AllCompletedKept ==
  ASSUME TypeInv, NEW p \in Workers, Step(p), ~FailState(p), AllCompleted
  PROVE  AllCompleted'
BY StepRows DEF AllCompleted

\* A frame that holds the verdict "completed" at such a label kept it there, or
\* has just found all rows completed.
LEMMA StepVerdict ==
  ASSUME TypeInv, VerdictHolds, NEW p \in Workers, Workers = {p}, Step(p)
  PROVE  VerdictHolds'
<1> SUFFICES ASSUME frame'[p].pc \in VerdictLabel, frame'[p].verdict = "completed"
             PROVE  AllCompleted'
  BY DEF VerdictHolds
<1>0. frame[p] \in Frame
  BY BudgetTypes
<1>1. CASE ReportList(p)
  <2> DEFINE derived == DerivedStatus(frame[p].seen)
             label == IF derived = frame[p].seen THEN "returned" ELSE "report_write"
  <2>1. derived \in GraphStatus
    BY <1>0, DerivedStatusType DEF Frame
  <2>2. label \in Label /\ GotoWith(p, label, derived) /\ UNCHANGED store
    BY <1>1 DEF ReportList, Label
  <2>3. frame'[p].pc = label /\ frame'[p].verdict = derived
    BY <2>1, <2>2, GotoWithFrame
  <2>4. derived # frame[p].seen /\ derived = "completed"
    BY <2>3 DEF VerdictLabel
  <2>5. AllCompleted
    BY <2>4 DEF DerivedStatus
  <2> QED
    BY <2>2, <2>5 DEF AllCompleted, store
<1>2. CASE AdvanceRelist(p)
  <2> DEFINE v == IF AllCompleted THEN "completed" ELSE "queued"
  <2>1. v \in GraphStatus /\ {"failed", "cancelled"} \subseteq GraphStatus
    BY DEF GraphStatus, TaskStatus
  <2>2. \/ GotoWith(p, "advance_write", "failed")
        \/ GotoWith(p, "advance_write", "cancelled")
        \/ Goto(p, "returned")
        \/ GotoWith(p, "claim_graph", v)
    BY <1>2 DEF AdvanceRelist
  <2>3. AllCompleted \/ v = "queued"
    OBVIOUS
  <2> HIDE DEF v
  <2>4. v = "completed"
    BY <2>1, <2>2, GotoWithFrame, GotoFrame DEF Label, VerdictLabel
  <2> QED
    BY <1>2, <2>3, <2>4 DEF AdvanceRelist, AllCompleted, store
<1>3. CASE AdvanceList(p)
  <2>1. "failed" \in GraphStatus
    BY DEF GraphStatus, TaskStatus
  <2> QED
    BY <1>3, <2>1, GotoWithFrame, GotoFrame DEF AdvanceList, Label, VerdictLabel
<1>4. CASE ClaimReadyTasks(p)
  <2>0. AfterEmptyClaim(p) \in {"advance_write", "returned"}
    BY DEF AfterEmptyClaim
  <2>1. frame'[p].verdict = frame[p].verdict
    <3>1. CASE ClaimGraph(p)
      <4> DEFINE label == IF graph \in Terminal THEN AfterEmptyClaim(p) ELSE "claim_recover"
      <4>1. label \in Label /\ Goto(p, label)
        BY <2>0, <3>1 DEF ClaimGraph, Label
      <4> HIDE DEF label
      <4> QED
        BY <4>1, GotoFrame
    <3>2. CASE ClaimRecover(p) \/ ClaimFail(p)
      BY <2>0, <3>2, GotoFrame DEF ClaimRecover, ClaimFail, Label
    <3>3. CASE ClaimList(p)
      BY <2>0, <3>3, GotoClaimedFrame DEF ClaimList, Label
    <3>4. CASE Claim(p)
      <4> DEFINE got == Claimable(frame[p].ids)
                 label == IF got = {} THEN AfterEmptyClaim(p) ELSE "returned"
      <4>1. label \in Label /\ GotoClaimed(p, label, got)
        BY <2>0, <3>4 DEF Claim, Label
      <4> HIDE DEF got, label
      <4> QED
        BY <4>1, GotoClaimedFrame
    <3> QED
      BY <1>4, <3>1, <3>2, <3>3, <3>4 DEF ClaimReadyTasks
  <2>2. frame[p].pc \in VerdictLabel
    BY <1>4 DEF ClaimReadyTasks, ClaimGraph, ClaimRecover, ClaimList, ClaimFail, Claim, At, VerdictLabel
  <2>3. AllCompleted /\ ~FailState(p)
    BY <1>4, <2>1, <2>2
    DEF VerdictHolds, ClaimReadyTasks, ClaimGraph, ClaimRecover, ClaimList, ClaimFail, Claim, At,
        FailState
  <2> QED
    BY <2>3, AllCompletedKept
<1>5. CASE ReportRead(p) \/ FailRead(p)
  BY <1>5, ReadFrames DEF VerdictLabel
<1>6. ASSUME NEW label \in Label \ VerdictLabel, Goto(p, label)
      PROVE  FALSE
  BY <1>6, GotoFrame
<1>7. CASE \/ ReportRecover(p) \/ ReportWrite(p) \/ AdvanceRecover(p) \/ AdvanceWrite(p)
           \/ CompleteTask(p) \/ FailState(p) \/ FailAttempt(p) \/ FailGraph(p) \/ Cancel(p)
  <2>1. {"report_list", "returned", "advance_relist", "advance_list", "report", "fail_attempt",
         "fail_graph"} \subseteq Label \ VerdictLabel
    BY DEF Label, VerdictLabel
  <2> QED
    BY <1>6, <1>7, <2>1
    DEF ReportRecover, ReportWrite, AdvanceRecover, AdvanceWrite, CompleteTask, FailState, FailAttempt,
        FailGraph, Cancel
<1> QED
  BY <1>1, <1>2, <1>3, <1>4, <1>5, <1>7 DEF Step, Report, Advance, FailTask

LEMMA StepCorrects ==
  ASSUME TypeInv, GraphCorrected, VerdictHolds, NEW p \in Workers, Workers = {p}, Step(p)
  PROVE  GraphCorrected'
<1>1. CASE FailState(p) \/ FailAttempt(p)
  <2>1. frame'[p].pc \in {"fail_attempt", "fail_graph"}
    BY <1>1, GotoFrame DEF FailState, FailAttempt, Label
  <2> QED
    BY <2>1 DEF GraphCorrected, At
<1>2. CASE FailGraph(p)
  BY <1>2 DEF FailGraph, UpdateTaskGraphStatus, GraphCorrected
<1>3. CASE ReportWrite(p) \/ AdvanceWrite(p)
  <2>1. graph' = frame[p].verdict /\ frame[p].pc \in VerdictLabel /\ ~FailState(p)
    BY <1>3 DEF ReportWrite, AdvanceWrite, UpdateTaskGraphStatus, At, VerdictLabel, FailState
  <2> QED
    BY <2>1, AllCompletedKept DEF VerdictHolds, GraphCorrected
<1>4. CASE ~(FailState(p) \/ FailAttempt(p) \/ FailGraph(p) \/ ReportWrite(p) \/ AdvanceWrite(p))
  <2>1. graph' = graph \/ graph' # "completed"
    BY <1>4
    DEF Step, Report, ReportRead, ReportRecover, ReportList, ClaimReadyTasks, ClaimGraph, ClaimRecover,
        ClaimList, ClaimFail, Claim, Advance, AdvanceList, AdvanceRecover, AdvanceRelist, CompleteTask,
        FailTask, FailRead, Cancel, RecoverExpiredTaskLeases, ClaimTasks, UpdateTaskGraphStatus,
        UpdateTaskState, CancelTaskGraph, store
  <2>2. ~(At(p, "fail_attempt") \/ At(p, "fail_graph"))
    BY <1>4
    DEF Step, Report, ReportRead, ReportRecover, ReportList, ClaimReadyTasks, ClaimGraph, ClaimRecover,
        ClaimList, ClaimFail, Claim, Advance, AdvanceList, AdvanceRecover, AdvanceRelist, CompleteTask,
        FailTask, FailRead, Cancel, At
  <2> QED
    BY <1>4, <2>1, <2>2, AllCompletedKept DEF GraphCorrected
<1> QED
  BY <1>1, <1>2, <1>3, <1>4

\* Between the operations of a single process that has not died, the graph is
\* recorded completed only over rows that all are (taskgraph.py:236-292 and
\* 328-351).
THEOREM CompletionIsWhole ==
  ASSUME NEW p, Workers = {p}
  PROVE  PoolSpec => []CompletedGraphIsComplete
<1>1. PoolInit => GraphInv
  BY DEF PoolInit, Init, StoreInit, GraphInv, GraphCorrected, VerdictHolds, VerdictLabel, NoCall, Call
<1>2. TypeInv /\ GraphInv /\ [PoolNext]_poolVars => GraphInv'
  <2> SUFFICES ASSUME TypeInv, GraphInv, [PoolNext]_poolVars, crashes' = 0
               PROVE  GraphCorrected' /\ VerdictHolds'
    BY DEF GraphInv
  <2>1. CASE ProcessNext(p) /\ Step(p)
    BY <2>1, StepRows, StepVerdict, StepCorrects DEF GraphInv
  <2>2. CASE ProcessNext(p) /\ ~Step(p)
    <3>1. ~Crash(p)
      BY BudgetTypes DEF Crash
    <3>2. UNCHANGED <<status, graph>> /\ GraphCorrected /\ VerdictHolds
      BY <2>2, <3>1, OtherRows DEF GraphInv
    <3>3. \/ UNCHANGED frame
          \/ /\ ~(At(p, "fail_attempt") \/ At(p, "fail_graph"))
             /\ ~(frame'[p].pc \in VerdictLabel /\ frame'[p].verdict = "completed")
      <4>1. CASE UNCHANGED frame
        BY <4>1
      <4>2. CASE At(p, "record") /\ (Goto(p, "complete") \/ Goto(p, "fail_read"))
        BY <4>2, GotoFrame DEF Label, VerdictLabel, At
      <4>3. CASE At(p, "returned") /\ Enter(p, NoCall)
        BY <4>3, CallFrame DEF NoCall, VerdictLabel, At
      <4>4. CASE /\ At(p, "idle") \/ At(p, "returned")
                 /\ \E label \in Label \ (Inside \ {"record", "complete"}), caller \in Caller,
                       t \in Tasks \union {None} : Enter(p, Call(label, caller, t))
        BY <4>4, CallFrame DEF At
      <4> QED
        BY <2>2, <3>1, <4>1, <4>2, <4>3, <4>4, OtherRows
    <3> QED
      BY <3>2, <3>3 DEF GraphCorrected, VerdictHolds, AllCompleted, At
  <2>3. CASE Lapse /\ UNCHANGED pool
    BY <2>3 DEF Lapse, LeaseLapses, GraphInv, GraphCorrected, VerdictHolds, AllCompleted, At
  <2>4. CASE UNCHANGED poolVars
    BY <2>4 DEF poolVars, store, GraphInv, GraphCorrected, VerdictHolds, AllCompleted, At
  <2> QED
    BY <2>1, <2>2, <2>3, <2>4 DEF PoolNext
<1>3. PoolSpec => []TypeInv
  BY InitType, NextType, PTL DEF PoolSpec
<1>4. GraphInv => CompletedGraphIsComplete
  BY DEF GraphInv, GraphCorrected, CompletedGraphIsComplete, IsIdle, At
<1> QED
  BY <1>1, <1>2, <1>3, <1>4, PTL DEF PoolSpec
-----------------------------------------------------------------------------
(* The lifecycle of a task.                                                  *)

LifecycleStates == {"waiting", "active", "done", "failed", "cancelled"}

\* What the abstract specification lets one task do.
MayMove(s, next, ready) ==
  \/ next = s
  \/ s = "active" /\ next \in LifecycleStates
  \/ s = "waiting" /\ (next = "cancelled" \/ (next = "active" /\ ready))

DependenciesDone(t) == \A d \in DependsOn[t] : LifecycleState(d) = "done"

LEMMA AbstractStep ==
  ASSUME \A t \in Tasks :
           /\ LifecycleState(t) \in LifecycleStates
           /\ MayMove(LifecycleState(t), LifecycleState(t)', DependenciesDone(t))
  PROVE  Lifecycle!LifecycleNext
<1> DEFINE S == [t \in Tasks |-> LifecycleState(t)]
<1>1. ASSUME NEW t \in Tasks
      PROVE  /\ S[t] = LifecycleState(t) /\ S'[t] = LifecycleState(t)'
             /\ S'[t] \in LifecycleStates
             /\ S'[t] \in Lifecycle!Moves(t)
  <2>1. S[t] = LifecycleState(t) /\ S'[t] = LifecycleState(t)'
    OBVIOUS
  <2>2. DependenciesDone(t) => Lifecycle!MayStart(t)
    BY StoreAssumption DEF DependenciesDone, Lifecycle!MayStart
  <2>3. MayMove(S[t], S'[t], DependenciesDone(t)) /\ S[t] \in LifecycleStates
    BY <2>1
  <2> HIDE DEF S
  <2>4. S'[t] \in LifecycleStates
    BY <2>3 DEF MayMove, LifecycleStates
  <2>5. CASE S[t] = "waiting"
    BY <2>1, <2>2, <2>3, <2>5 DEF MayMove, LifecycleStates, Lifecycle!Moves, S
  <2>6. CASE S[t] = "active"
    BY <2>1, <2>3, <2>6 DEF MayMove, LifecycleStates, Lifecycle!Moves, S
  <2>7. CASE S[t] # "waiting" /\ S[t] # "active"
    BY <2>1, <2>3, <2>7 DEF MayMove, LifecycleStates, Lifecycle!Moves, S
  <2> QED
    BY <2>1, <2>4, <2>5, <2>6, <2>7
<1> QED
  BY <1>1 DEF Lifecycle!LifecycleNext, Lifecycle!States, LifecycleStates

-----------------------------------------------------------------------------
(* Where the one process can be, by who called, and what the pool executes    *)
(* then.                                                                       *)

ClaimLabel == {"claim_graph", "claim_recover", "claim_list", "claim_fail", "claim"}
FailLabel == {"fail_read", "fail_state", "fail_attempt", "fail_graph"}
ReportLabel == {"report", "report_recover", "report_list", "report_write", "returned"}

\* The loop calls while nothing executes, an execution while it lasts.
CallsOfPool(p) ==
  frame[p].pc # "idle" =>
    /\ frame[p].caller # "api"
    /\ frame[p].caller = "exec" => frame[p].task \in exec[p]
    /\ frame[p].caller # "exec" => exec[p] = {}

CallerOfLabel(p) ==
  /\ frame[p].pc \in {"idle", "cancel"} \union ReportLabel \union ClaimLabel \union TaskLabel
  /\ frame[p].pc \in TaskLabel => frame[p].caller = "exec"
  /\ frame[p].pc \in ClaimLabel => frame[p].caller = "loop_claim"
  /\ frame[p].caller = "loop_claim" => frame[p].pc \in ClaimLabel \union {"returned"}

\* A result is recorded before the event is set, a cancellation after.
EventOfLabel(p) ==
  /\ frame[p].pc \in {"record", "complete"} => p \notin stop
  /\ frame[p].pc = "cancel" => p \in stop

\* A claim is made of rows that are ready, and ends with rows that run.
ClaimIsReady(p) ==
  /\ frame[p].pc \in ClaimLabel \ {"claim"} => frame[p].ids = {}
  /\ frame[p].pc = "claim" => frame[p].ids \subseteq ReadyTasks
  /\ frame[p].pc = "returned" /\ frame[p].caller = "loop_claim" =>
       \A t \in frame[p].ids : status[t] = "running"

\* What executes and was cancelled was stopped first; what executes and is
\* completed is about to end.
StopCovers(p) == exec[p] \cap cancelReq # {} => p \in stop
DoneIsEnding(p) ==
  \A t \in exec[p] : status[t] = "completed" =>
    frame[p].pc \in ReportLabel /\ frame[p].caller = "exec" /\ frame[p].task = t

CancelIsRequested == \A t \in Tasks : status[t] = "cancelled" => t \in cancelReq

PlaceInv(p) == CallsOfPool(p) /\ CallerOfLabel(p) /\ EventOfLabel(p) /\ ClaimIsReady(p)
ExecInv(p) == StopCovers(p) /\ DoneIsEnding(p)
LifeInv == CancelIsRequested /\ \A p \in Workers : PlaceInv(p) /\ ExecInv(p)

\* No statement changes who called and for which task.
LEMMA StepKeepsCall ==
  ASSUME TypeInv, NEW p \in Workers, Step(p)
  PROVE  frame'[p].caller = frame[p].caller /\ frame'[p].task = frame[p].task
<1>1. CASE ReportRead(p) \/ FailRead(p)
  BY <1>1, ReadFrames
<1>2. CASE FailState(p)
  BY <1>2, GotoFrame DEF FailState, Label
<1>3. ASSUME NEW label \in Label \ Inside,
             \/ Goto(p, label)
             \/ \E v \in GraphStatus : GotoWith(p, label, v)
             \/ \E ids : GotoClaimed(p, label, ids)
      PROVE  frame'[p].caller = frame[p].caller /\ frame'[p].task = frame[p].task
  BY <1>3, GotoFrame, GotoWithFrame, GotoClaimedFrame
<1> QED
  BY <1>1, <1>2, <1>3, StepJumps

LEMMA ReportPlace ==
  ASSUME TypeInv, NEW p \in Workers, Report(p)
  PROVE  frame[p].pc \in ReportLabel \ {"returned"} /\ frame'[p].pc \in ReportLabel
<1>0. frame[p] \in Frame
  BY BudgetTypes
<1>1. CASE ReportRead(p)
  BY <1>1, ReadFrames DEF ReportRead, At, ReportLabel
<1>2. CASE ReportRecover(p) \/ ReportWrite(p)
  BY <1>2, GotoFrame DEF ReportRecover, ReportWrite, At, ReportLabel, Label
<1>3. CASE ReportList(p)
  <2> DEFINE derived == DerivedStatus(frame[p].seen)
             label == IF derived = frame[p].seen THEN "returned" ELSE "report_write"
  <2>1. derived \in GraphStatus
    BY <1>0, DerivedStatusType DEF Frame
  <2>2. label \in Label \cap ReportLabel /\ GotoWith(p, label, derived)
    BY <1>3 DEF ReportList, Label, ReportLabel
  <2> HIDE DEF derived, label
  <2> QED
    BY <1>3, <2>1, <2>2, GotoWithFrame DEF ReportList, At, ReportLabel
<1> QED
  BY <1>1, <1>2, <1>3 DEF Report

LEMMA ClaimPlace ==
  ASSUME TypeInv, NEW p \in Workers, Workers = {p}, PlaceInv(p), ClaimReadyTasks(p)
  PROVE  /\ frame[p].pc \in ClaimLabel /\ frame'[p].pc \in ClaimLabel \union {"returned"}
         /\ ClaimIsReady(p)'
<1>0. frame[p].pc \in ClaimLabel
  BY DEF ClaimReadyTasks, ClaimGraph, ClaimRecover, ClaimList, ClaimFail, Claim, At, ClaimLabel
<1>1. AfterEmptyClaim(p) = "returned" /\ frame[p].caller = "loop_claim"
  BY <1>0 DEF PlaceInv, CallerOfLabel, AfterEmptyClaim
<1>2. CASE ClaimGraph(p)
  <2> DEFINE label == IF graph \in Terminal THEN AfterEmptyClaim(p) ELSE "claim_recover"
  <2>1. label \in Label \cap {"returned", "claim_recover"} /\ Goto(p, label)
    BY <1>1, <1>2 DEF ClaimGraph, Label
  <2>2. frame[p].ids = {}
    BY <1>2 DEF ClaimGraph, At, PlaceInv, ClaimIsReady, ClaimLabel
  <2> HIDE DEF label
  <2>3. frame'[p].pc \in {"returned", "claim_recover"} /\ frame'[p].ids = {}
    BY <2>1, <2>2, GotoFrame
  <2> QED
    BY <1>0, <2>3 DEF ClaimIsReady, ClaimLabel
<1>3. CASE ClaimRecover(p) \/ ClaimFail(p)
  <2>1. frame[p].ids = {}
    BY <1>3 DEF ClaimRecover, ClaimFail, At, PlaceInv, ClaimIsReady, ClaimLabel
  <2>2. frame'[p].pc \in {"returned", "claim_list"} /\ frame'[p].ids = {}
    BY <1>1, <1>3, <2>1, GotoFrame DEF ClaimRecover, ClaimFail, Label
  <2> QED
    BY <1>0, <2>2 DEF ClaimIsReady, ClaimLabel
<1>4. CASE ClaimList(p)
  <2> DEFINE ids == FirstOf(ReadyTasks, Limit(p))
  <2>1. \/ GotoClaimed(p, "claim_fail", {})
        \/ GotoClaimed(p, "returned", {})
        \/ GotoClaimed(p, "claim", ids)
    BY <1>1, <1>4 DEF ClaimList
  <2>2. ids \subseteq ReadyTasks /\ UNCHANGED store
    BY <1>4 DEF FirstOf, ClaimList
  <2> HIDE DEF ids
  <2>3. \/ frame'[p].pc \in {"claim_fail", "returned"} /\ frame'[p].ids = {}
        \/ frame'[p].pc = "claim" /\ frame'[p].ids = ids
    BY <2>1, GotoClaimedFrame DEF Label
  <2> QED
    BY <1>0, <2>2, <2>3 DEF ClaimIsReady, ClaimLabel, ReadyTasks, store
<1>5. CASE Claim(p)
  <2> DEFINE got == Claimable(frame[p].ids)
  <2>1. GotoClaimed(p, "returned", got)
    BY <1>1, <1>5 DEF Claim
  <2>2. frame'[p].pc = "returned" /\ frame'[p].ids = got
    BY <2>1, GotoClaimedFrame DEF Label
  <2>3. \A t \in got : status'[t] = "running"
    <3>1. got \subseteq Tasks
      BY BudgetTypes DEF Claimable, Frame
    <3> QED
      BY <1>5, <3>1 DEF Claim, ClaimTasks
  <2> QED
    BY <1>0, <2>2, <2>3 DEF ClaimIsReady, ClaimLabel
<1> QED
  BY <1>2, <1>3, <1>4, <1>5, <1>0 DEF ClaimReadyTasks, ClaimIsReady, ClaimLabel

LEMMA StepPlace ==
  ASSUME TypeInv, NEW p \in Workers, Workers = {p}, PlaceInv(p), Step(p), UNCHANGED pool
  PROVE  PlaceInv(p)' /\ (~Report(p) => frame[p].pc \notin ReportLabel)
         /\ (Report(p) \/ CompleteTask(p) => frame'[p].pc \in ReportLabel)
<1>0. /\ frame'[p].caller = frame[p].caller /\ frame'[p].task = frame[p].task
      /\ exec' = exec /\ stop' = stop
  BY StepKeepsCall DEF pool
<1>1. frame[p].pc # "idle"
  BY DEF Step, Report, ReportRead, ReportRecover, ReportList, ReportWrite, ClaimReadyTasks, ClaimGraph,
         ClaimRecover, ClaimList, ClaimFail, Claim, Advance, AdvanceList, AdvanceRecover, AdvanceRelist,
         AdvanceWrite, CompleteTask, FailTask, FailRead, FailState, FailAttempt, FailGraph, Cancel, At
<1>2. CallsOfPool(p)'
  BY <1>0, <1>1 DEF PlaceInv, CallsOfPool
<1>3. CASE Report(p)
  <2>1. frame[p].pc \in ReportLabel \ {"returned"} /\ frame'[p].pc \in ReportLabel
    BY <1>3, ReportPlace
  <2>2. frame[p].caller # "loop_claim"
    BY <2>1 DEF PlaceInv, CallerOfLabel, ReportLabel, ClaimLabel
  <2> QED
    BY <1>0, <1>2, <1>3, <2>1, <2>2
    DEF PlaceInv, CallerOfLabel, EventOfLabel, ClaimIsReady, ReportLabel, ClaimLabel, TaskLabel
<1>4. CASE ClaimReadyTasks(p)
  <2>1. /\ frame[p].pc \in ClaimLabel /\ frame'[p].pc \in ClaimLabel \union {"returned"}
        /\ ClaimIsReady(p)'
    BY <1>4, ClaimPlace
  <2>2. frame[p].caller = "loop_claim"
    BY <2>1 DEF PlaceInv, CallerOfLabel
  <2>3. CallerOfLabel(p)' /\ EventOfLabel(p)'
    BY <1>0, <2>1, <2>2 DEF CallerOfLabel, EventOfLabel, ReportLabel, ClaimLabel, TaskLabel
  <2>4. frame[p].pc \notin ReportLabel /\ ~CompleteTask(p) /\ ~Report(p)
    BY <2>1 DEF ReportLabel, ClaimLabel, CompleteTask, At, Report, ReportRead, ReportRecover, ReportList,
                ReportWrite
  <2> QED
    BY <1>2, <2>1, <2>3, <2>4 DEF PlaceInv
<1>5. CASE Advance(p)
  BY <1>5 DEF PlaceInv, CallerOfLabel, Advance, AdvanceList, AdvanceRecover, AdvanceRelist, AdvanceWrite,
              At, ReportLabel, ClaimLabel, TaskLabel
<1>6. CASE CompleteTask(p) \/ FailTask(p) \/ Cancel(p)
  <2>1. frame[p].pc \in {"complete", "cancel"} \union FailLabel
    BY <1>6 DEF CompleteTask, FailTask, FailRead, FailState, FailAttempt, FailGraph, Cancel, At, FailLabel
  <2>2. ~ClaimNext(p)
    BY <1>1 DEF PlaceInv, CallsOfPool, ClaimNext
  <2>3. frame[p].caller # "loop_claim"
    BY <2>1 DEF PlaceInv, CallerOfLabel, ClaimLabel, FailLabel
  <2>4. \/ frame'[p].pc = "report"
        \/ frame'[p].pc \in FailLabel /\ frame[p].pc \in FailLabel
    <3>1. CASE FailRead(p)
      BY <3>1, ReadFrames DEF FailRead, At, FailLabel
    <3>2. CASE FailState(p) \/ FailAttempt(p)
      BY <3>2, GotoFrame DEF FailState, FailAttempt, At, FailLabel, Label
    <3>3. CASE CompleteTask(p) \/ FailGraph(p) \/ Cancel(p)
      BY <2>2, <3>3, GotoFrame DEF CompleteTask, FailGraph, Cancel, Label
    <3> QED
      BY <1>6, <3>1, <3>2, <3>3 DEF FailTask
  <2>5. CallerOfLabel(p)' /\ EventOfLabel(p)' /\ ClaimIsReady(p)'
    BY <1>0, <2>1, <2>3, <2>4
    DEF PlaceInv, CallerOfLabel, EventOfLabel, ClaimIsReady, ReportLabel, ClaimLabel, TaskLabel, FailLabel
  <2>6. ~Report(p) /\ frame[p].pc \notin ReportLabel
    BY <2>1 DEF Report, ReportRead, ReportRecover, ReportList, ReportWrite, At, ReportLabel, FailLabel
  <2>7. CompleteTask(p) => frame'[p].pc \in ReportLabel
    BY <2>2, GotoFrame DEF CompleteTask, Label, ReportLabel
  <2> QED
    BY <1>2, <2>5, <2>6, <2>7 DEF PlaceInv
<1> QED
  BY <1>3, <1>4, <1>5, <1>6 DEF Step
-----------------------------------------------------------------------------
\* Rows: what is cancelled was requested to be, and only a cancellation requests.
LEMMA StepExec ==
  ASSUME TypeInv, NEW p \in Workers, Workers = {p}, LifeInv, Step(p), UNCHANGED pool
  PROVE  CancelIsRequested' /\ ExecInv(p)'
<1>0. /\ PlaceInv(p) /\ ExecInv(p) /\ CancelIsRequested /\ exec' = exec /\ stop' = stop
      /\ status \in [Tasks -> TaskStatus] /\ exec[p] \subseteq Tasks
      /\ frame'[p].caller = frame[p].caller /\ frame'[p].task = frame[p].task
  BY BudgetTypes, StepKeepsCall DEF LifeInv, pool, TypeInv, PoolTypeOK
<1>1. CASE Cancel(p)
  <2>1. p \in stop
    BY <1>0, <1>1 DEF Cancel, At, PlaceInv, EventOfLabel
  <2>2. frame[p].pc \notin ReportLabel
    BY <1>1 DEF Cancel, At, ReportLabel
  <2>3. \A t \in Tasks : status'[t] = status[t] \/ status'[t] = "cancelled"
    BY <1>0, <1>1 DEF Cancel, CancelTaskGraph
  <2>4. CancelIsRequested'
    BY <1>0, <1>1 DEF Cancel, CancelTaskGraph, CancelIsRequested
  <2> QED
    BY <1>0, <2>1, <2>2, <2>3, <2>4 DEF ExecInv, StopCovers, DoneIsEnding
<1>2. CASE ~Cancel(p)
  <2>1. cancelReq' = cancelReq
    BY <1>2
    DEF Step, Report, ReportRead, ReportRecover, ReportList, ReportWrite, ClaimReadyTasks, ClaimGraph,
        ClaimRecover, ClaimList, ClaimFail, Claim, Advance, AdvanceList, AdvanceRecover, AdvanceRelist,
        AdvanceWrite, CompleteTask, FailTask, FailRead, FailState, FailAttempt, FailGraph,
        RecoverExpiredTaskLeases, ClaimTasks, UpdateTaskState, UpdateTaskAttempt,
        UpdateTaskGraphStatus, store
  <2>2. \A t \in Tasks : status'[t] = status[t] \/ status'[t] # "cancelled"
    BY <1>0, <1>2
    DEF Step, Report, ReportRead, ReportRecover, ReportList, ReportWrite, ClaimReadyTasks, ClaimGraph,
        ClaimRecover, ClaimList, ClaimFail, Claim, Advance, AdvanceList, AdvanceRecover, AdvanceRelist,
        AdvanceWrite, CompleteTask, FailTask, FailRead, FailState, FailAttempt, FailGraph,
        RecoverExpiredTaskLeases, ClaimTasks, UpdateTaskState, UpdateTaskAttempt,
        UpdateTaskGraphStatus, store, Recovered
  <2>3. DoneIsEnding(p)'
    <3>1. CASE CompleteTask(p)
      <4>1. /\ frame'[p].pc \in ReportLabel /\ frame[p].pc \notin ReportLabel
            /\ frame[p].caller = "exec"
        BY <1>0, <3>1, StepPlace DEF CompleteTask, At, ReportLabel, PlaceInv, CallerOfLabel, TaskLabel
      <4>2. \A t \in exec[p] : status[t] # "completed"
        BY <1>0, <4>1 DEF ExecInv, DoneIsEnding
      <4>3. status' = [status EXCEPT ![frame[p].task] = "completed"]
        BY <3>1 DEF CompleteTask, UpdateTaskState
      <4> QED
        BY <1>0, <4>1, <4>2, <4>3 DEF DoneIsEnding
    <3>2. CASE ~CompleteTask(p)
      <4>1. \A t \in Tasks : status'[t] = "completed" => status[t] = "completed"
        BY <3>2, StepRows
      <4> QED
        BY <1>0, <4>1, StepPlace DEF ExecInv, DoneIsEnding
    <3> QED
      BY <3>1, <3>2
  <2> QED
    BY <1>0, <2>1, <2>2, <2>3 DEF ExecInv, StopCovers, CancelIsRequested
<1> QED
  BY <1>1, <1>2

\* A step that puts the process at the start of a call, over the same rows.
LEMMA CallLife ==
  ASSUME TypeInv, NEW p \in Workers, Workers = {p}, LifeInv, UNCHANGED <<status, cancelReq>>,
         NEW label \in {"idle", "report", "claim_graph", "cancel", "record", "fail_read"},
         NEW caller \in Caller, NEW t,
         Enter(p, Call(label, caller, t)),
         label \in {"record", "fail_read"} => caller = "exec",
         label = "claim_graph" <=> caller = "loop_claim",
         label # "idle" => /\ caller # "api"
                           /\ caller = "exec" => t \in exec'[p]
                           /\ caller # "exec" => exec'[p] = {},
         label = "record" => p \notin stop',
         label = "cancel" => p \in stop',
         exec'[p] \cap cancelReq # {} => p \in stop',
         \A u \in exec'[p] : status[u] # "completed"
  PROVE  LifeInv'
<1>1. /\ frame'[p].pc = label /\ frame'[p].caller = caller /\ frame'[p].task = t
      /\ frame'[p].ids = {}
  BY CallFrame
<1>2. CallsOfPool(p)'
  BY <1>1 DEF CallsOfPool
<1>3. CallerOfLabel(p)'
  BY <1>1 DEF CallerOfLabel, ReportLabel, ClaimLabel, TaskLabel
<1>4. EventOfLabel(p)'
  BY <1>1 DEF EventOfLabel
<1>5. ClaimIsReady(p)'
  BY <1>1 DEF ClaimIsReady, ClaimLabel
<1>6. ExecInv(p)' /\ CancelIsRequested'
  BY DEF ExecInv, StopCovers, DoneIsEnding, LifeInv, CancelIsRequested
<1> QED
  BY <1>2, <1>3, <1>4, <1>5, <1>6 DEF LifeInv, PlaceInv

\* At rest nothing that executes is completed.
LEMMA IdleIsOpen ==
  ASSUME LifeInv, NEW p \in Workers, frame[p].pc \notin ReportLabel
  PROVE  \A t \in exec[p] : status[t] # "completed"
BY DEF LifeInv, ExecInv, DoneIsEnding

LEMMA LoopLife ==
  ASSUME TypeInv, CancelledNeverRuns, NEW p \in Workers, Workers = {p}, LifeInv, LoopStep(p)
  PROVE  LifeInv'
<1>0. UNCHANGED <<status, cancelReq>> /\ exec \in [Workers -> SUBSET Tasks]
      /\ PlaceInv(p) /\ ExecInv(p)
  BY DEF LoopStep, Iterate, AfterReport, AfterClaim, AfterCancel, store, TypeInv, PoolTypeOK, LifeInv
<1>1. CASE Iterate(p)
  BY <1>0, <1>1, CallLife DEF Iterate, pool, Caller
<1>2. frame[p].pc = "returned" /\ frame[p].caller \in {"loop_report", "loop_cancel", "loop_claim"}
      => exec[p] = {}
  BY <1>0 DEF PlaceInv, CallsOfPool
<1>3. CASE PoolReturns(p) /\ exec[p] = {}
  BY <1>0, <1>3, CallLife DEF PoolReturns, NoCall, Caller
<1>4. CASE AfterReport(p) /\ ~PoolReturns(p)
  <2>1. Enter(p, Call("claim_graph", "loop_claim", None)) /\ exec' = exec /\ exec[p] = {}
    BY <1>2, <1>4 DEF AfterReport, pool, At
  <2> QED
    BY <1>0, <2>1, CallLife DEF Caller
<1>5. CASE AfterClaim(p) /\ ~PoolReturns(p)
  <2>1. /\ exec'[p] = frame[p].ids /\ Enter(p, NoCall)
        /\ frame[p].ids \subseteq Tasks
        /\ \A t \in frame[p].ids : status[t] = "running"
    BY <1>0, <1>5, BudgetTypes DEF AfterClaim, At, PlaceInv, ClaimIsReady, Frame
  <2>2. exec'[p] \cap cancelReq = {}
    BY <2>1 DEF CancelledNeverRuns
  <2> QED
    BY <1>0, <2>1, <2>2, CallLife DEF NoCall, Caller
<1> QED
  BY <1>1, <1>2, <1>3, <1>4, <1>5 DEF LoopStep, AfterReport, AfterClaim, AfterCancel, At

\* A step that leaves frames, executions, rows' status and requests alone.
LEMMA QuietLife ==
  ASSUME LifeInv, NEW p, Workers = {p},
         UNCHANGED <<status, cancelReq, frame, exec>>,
         stop' = stop \/ (stop \subseteq stop' /\ frame[p].pc = "idle")
  PROVE  LifeInv'
<1>1. PlaceInv(p)'
  BY DEF LifeInv, PlaceInv, CallsOfPool, CallerOfLabel, EventOfLabel, ClaimIsReady, ReadyTasks
<1>2. ExecInv(p)' /\ CancelIsRequested'
  BY DEF LifeInv, ExecInv, StopCovers, DoneIsEnding, CancelIsRequested
<1> QED
  BY <1>1, <1>2 DEF LifeInv

LEMMA ProcessLife ==
  ASSUME TypeInv, CancelledNeverRuns, NEW p \in Workers, Workers = {p}, ApiOps = {}, LifeInv,
         ProcessNext(p)
  PROVE  LifeInv'
<1>0. exec \in [Workers -> SUBSET Tasks] /\ PlaceInv(p) /\ ExecInv(p)
  BY DEF TypeInv, PoolTypeOK, LifeInv
<1>1. CASE RuntimeStep(p) /\ Step(p)
  BY <1>0, <1>1, StepExec, StepPlace DEF RuntimeStep, LifeInv
<1>2. CASE RuntimeStep(p) /\ Record(p)
  <2>1. UNCHANGED <<status, cancelReq, exec, stop>> /\ frame[p].pc = "record"
    BY <1>2 DEF RuntimeStep, Record, PutBlackboardEntry, store, pool, At
  <2>2. /\ frame'[p].pc \in {"complete", "fail_read"} /\ frame'[p].caller = frame[p].caller
        /\ frame'[p].task = frame[p].task
    BY <1>2, GotoFrame DEF Record, Label
  <2>3. PlaceInv(p)'
    BY <1>0, <2>1, <2>2
    DEF PlaceInv, CallsOfPool, CallerOfLabel, EventOfLabel, ClaimIsReady, ReportLabel, ClaimLabel,
        TaskLabel
  <2>4. ExecInv(p)' /\ CancelIsRequested'
    BY <1>0, <2>1 DEF ExecInv, StopCovers, DoneIsEnding, LifeInv, CancelIsRequested, ReportLabel
  <2> QED
    BY <2>3, <2>4 DEF LifeInv
<1>3. CASE LoopStep(p)
  BY <1>3, LoopLife
<1>4. CASE ExecutionEnds(p)
  <2>1. UNCHANGED <<status, cancelReq, stop>> /\ Enter(p, NoCall)
        /\ exec'[p] = exec[p] \ {frame[p].task}
    BY <1>0, <1>4 DEF ExecutionEnds, store
  <2>2. \A u \in exec'[p] : status[u] # "completed"
    BY <1>0, <2>1 DEF ExecInv, DoneIsEnding
  <2>3. exec'[p] \cap cancelReq # {} => p \in stop'
    BY <1>0, <2>1 DEF ExecInv, StopCovers
  <2> QED
    BY <2>1, <2>2, <2>3, CallLife DEF NoCall, Caller
<1>5. ASSUME NEW t \in Tasks, NEW label \in {"record", "fail_read", "cancel"}, Ends(p, t, label),
             label = "record" => p \notin stop, label = "cancel" => p \in stop
      PROVE  LifeInv'
  <2>1. /\ UNCHANGED <<status, cancelReq, stop, exec>> /\ frame[p].pc = "idle" /\ t \in exec[p]
        /\ Enter(p, Call(label, "exec", t))
    BY <1>5 DEF Ends, IsIdle, store, pool
  <2>2. \A u \in exec'[p] : status[u] # "completed"
    BY <2>1, IdleIsOpen DEF ReportLabel
  <2>3. exec'[p] \cap cancelReq # {} => p \in stop'
    BY <1>0, <2>1 DEF ExecInv, StopCovers
  <2> QED
    BY <1>5, <2>1, <2>2, <2>3, CallLife DEF Caller
<1>6. CASE \/ StartPool(p) \/ SetStop(p)
           \/ \E t \in Tasks : HandlerTimesOut(p, t) \/ Heartbeat(p, t)
  <2>1. UNCHANGED <<status, cancelReq, frame, exec>>
        /\ (stop' = stop \/ (stop \subseteq stop' /\ frame[p].pc = "idle"))
    BY <1>6 DEF StartPool, SetStop, HandlerTimesOut, Heartbeat, RenewTaskLease, store, IsIdle, pool
  <2> QED
    BY <2>1, QuietLife
<1>7. CASE Post(p)
  BY <1>7 DEF Post, PostAdvance, PostComplete, PostFail, PostCancel, Submit
<1>8. CASE Reply(p)
  BY <1>0, <1>8 DEF Reply, At, PlaceInv, CallsOfPool
<1>9. CASE Crash(p)
  <2>1. UNCHANGED <<status, cancelReq>> /\ Enter(p, NoCall) /\ exec'[p] = {}
    BY <1>0, <1>9 DEF Crash, store
  <2> QED
    BY <2>1, CallLife DEF NoCall, Caller
<1> QED
  BY <1>1, <1>2, <1>3, <1>4, <1>5, <1>6, <1>7, <1>8, <1>9
  DEF ProcessNext, RuntimeStep, HandlerStep, HandlerReturns, HandlerMissing, HandlerRaises, HandlerStopped,
      TimeoutFails

LEMMA InitLife == PoolInit => LifeInv
<1> SUFFICES ASSUME PoolInit, NEW p \in Workers
             PROVE  CancelIsRequested /\ PlaceInv(p) /\ ExecInv(p)
  BY DEF LifeInv, PoolInit, Init, StoreInit, CancelIsRequested
<1>1. frame[p].pc = "idle" /\ frame[p].caller = "api" /\ exec[p] = {}
  BY DEF PoolInit, Init, NoCall, Call
<1>2. CancelIsRequested
  BY DEF PoolInit, Init, StoreInit, CancelIsRequested
<1> QED
  BY <1>1, <1>2
  DEF PlaceInv, CallsOfPool, CallerOfLabel, EventOfLabel, ClaimIsReady, ExecInv, StopCovers, DoneIsEnding,
      ClaimLabel, TaskLabel

LEMMA NextLife ==
  ASSUME TypeInv, CancelledNeverRuns, NEW p \in Workers, Workers = {p}, ApiOps = {}, LifeInv,
         [PoolNext]_poolVars
  PROVE  LifeInv'
<1>1. CASE ProcessNext(p)
  BY <1>1, ProcessLife
<1>2. CASE Lapse /\ UNCHANGED pool
  BY <1>2, QuietLife DEF Lapse, LeaseLapses, pool
<1>3. CASE UNCHANGED poolVars
  BY <1>3, QuietLife DEF poolVars, store
<1> QED
  BY <1>1, <1>2, <1>3 DEF PoolNext
-----------------------------------------------------------------------------
\* The state of a task, from what is known of it in a single process.
Life(s, requested, executing) ==
  IF s = "completed" THEN "done"
  ELSE IF requested THEN "cancelled"
  ELSE IF s = "running" \/ executing THEN "active"
  ELSE IF s = "queued" THEN "waiting" ELSE "failed"

LEMMA LifeNow ==
  ASSUME TypeInv, CancelIsRequested, NEW p, Workers = {p}, NEW t \in Tasks
  PROVE  LifecycleState(t) = Life(status[t], t \in cancelReq, t \in exec[p])
<1>1. status[t] \in TaskStatus
  BY BudgetTypes
<1>2. (\E q \in Workers : t \in exec[q]) <=> t \in exec[p]
  OBVIOUS
<1>3. (\A q \in Workers : t \notin exec[q]) <=> t \notin exec[p]
  OBVIOUS
<1>4. CASE status[t] = "completed"
  BY <1>4 DEF LifecycleState, Life
<1>5. CASE status[t] # "completed" /\ t \in cancelReq
  BY <1>5 DEF LifecycleState, Life
<1>6. CASE status[t] # "completed" /\ t \notin cancelReq /\ (status[t] = "running" \/ t \in exec[p])
  BY <1>2, <1>6 DEF LifecycleState, Life
<1>7. CASE status[t] \in {"queued", "failed"} /\ t \notin cancelReq /\ t \notin exec[p]
  BY <1>2, <1>3, <1>7 DEF LifecycleState, Life
<1> QED
  BY <1>1, <1>4, <1>5, <1>6, <1>7 DEF TaskStatus, CancelIsRequested

LEMMA LifeThen ==
  ASSUME TypeInv', CancelIsRequested', NEW p, Workers = {p}, NEW t \in Tasks
  PROVE  LifecycleState(t)' = Life(status'[t], t \in cancelReq', t \in exec'[p])
<1>1. status'[t] \in TaskStatus
  BY DEF TypeInv, PoolTypeOK, TypeOK, StoreTypeOK
<1>2. (\E q \in Workers : t \in exec'[q]) <=> t \in exec'[p]
  OBVIOUS
<1>3. (\A q \in Workers : t \notin exec'[q]) <=> t \notin exec'[p]
  OBVIOUS
<1>4. CASE status'[t] = "completed"
  BY <1>4 DEF LifecycleState, Life
<1>5. CASE status'[t] # "completed" /\ t \in cancelReq'
  BY <1>5 DEF LifecycleState, Life
<1>6. CASE status'[t] # "completed" /\ t \notin cancelReq' /\ (status'[t] = "running" \/ t \in exec'[p])
  BY <1>2, <1>6 DEF LifecycleState, Life
<1>7. CASE status'[t] \in {"queued", "failed"} /\ t \notin cancelReq' /\ t \notin exec'[p]
  BY <1>2, <1>3, <1>7 DEF LifecycleState, Life
<1> QED
  BY <1>1, <1>4, <1>5, <1>6, <1>7 DEF TaskStatus, CancelIsRequested

\* The changes of what is known of a task that a step makes.  A row is recovered only from "running"; a
\* claim takes a row that is ready or was running; a failure and a completion
\* are of a task that executes.
RowMove(t, p) ==
  \/ /\ status'[t] = status[t] /\ (t \in cancelReq' <=> t \in cancelReq)
     /\ t \in exec'[p] => t \in exec[p] \/ status[t] = "running"
  \/ /\ status[t] = "running" /\ t \notin cancelReq
     /\ (t \in cancelReq' <=> t \in cancelReq) /\ (t \in exec'[p] <=> t \in exec[p])
  \/ /\ status[t] = "queued" /\ t \notin cancelReq /\ t \notin exec[p]
     /\ \A d \in DependsOn[t] : status[d] = "completed"
     /\ status'[t] = "running" /\ t \notin cancelReq' /\ t \notin exec'[p]
  \/ /\ t \in exec[p] /\ status[t] # "completed" /\ status'[t] \in {"queued", "failed"}
     /\ (t \in cancelReq' <=> t \in cancelReq) /\ (t \in exec'[p] <=> t \in exec[p])
  \/ /\ t \in exec[p] /\ t \notin cancelReq /\ status'[t] = "completed"
  \/ /\ status[t] \notin Terminal /\ status'[t] = "cancelled" /\ t \in cancelReq'

LEMMA MoveOfRow ==
  ASSUME TypeInv, TypeInv', CancelIsRequested, CancelIsRequested', NEW p, Workers = {p},
         NEW t \in Tasks, RowMove(t, p)
  PROVE  MayMove(LifecycleState(t), LifecycleState(t)', DependenciesDone(t))
<1> DEFINE s == Life(status[t], t \in cancelReq, t \in exec[p])
           n == Life(status'[t], t \in cancelReq', t \in exec'[p])
<1>1. LifecycleState(t) = s /\ LifecycleState(t)' = n
  BY LifeNow, LifeThen
<1>2. (\A d \in DependsOn[t] : status[d] = "completed") => DependenciesDone(t)
  BY StoreAssumption, LifeNow DEF DependenciesDone, Life
<1>3. status[t] \in TaskStatus /\ status'[t] \in TaskStatus
  BY DEF TypeInv, PoolTypeOK, TypeOK, StoreTypeOK
<1>4. MayMove(s, n, DependenciesDone(t))
  <2>1. n \in LifecycleStates
    BY DEF Life, LifecycleStates
  <2>2. CASE /\ status'[t] = status[t] /\ (t \in cancelReq' <=> t \in cancelReq)
             /\ t \in exec'[p] => t \in exec[p] \/ status[t] = "running"
    <3>1. CASE status[t] = "completed" \/ t \in cancelReq
      <4>1. n = s
        BY <2>2, <3>1 DEF Life
      <4> QED
        BY <4>1 DEF MayMove
    <3>2. CASE status[t] # "completed" /\ t \notin cancelReq /\ (status[t] = "running" \/ t \in exec[p])
      <4>1. s = "active"
        BY <3>2 DEF Life
      <4> QED
        BY <2>1, <4>1 DEF MayMove
    <3>3. CASE status[t] # "completed" /\ t \notin cancelReq /\ status[t] # "running" /\ t \notin exec[p]
      <4>1. t \notin exec'[p] /\ t \notin cancelReq'
        BY <2>2, <3>3
      <4>2. n = s
        BY <2>2, <3>3, <4>1 DEF Life
      <4> QED
        BY <4>2 DEF MayMove
    <3> QED
      BY <3>1, <3>2, <3>3
  <2>3. CASE /\ status[t] = "running" /\ t \notin cancelReq
             /\ (t \in cancelReq' <=> t \in cancelReq) /\ (t \in exec'[p] <=> t \in exec[p])
    <3>1. s = "active"
      BY <2>3 DEF Life
    <3> QED
      BY <2>1, <3>1 DEF MayMove
  <2>4. CASE /\ status[t] = "queued" /\ t \notin cancelReq /\ t \notin exec[p]
             /\ \A d \in DependsOn[t] : status[d] = "completed"
             /\ status'[t] = "running" /\ t \notin cancelReq' /\ t \notin exec'[p]
    <3>1. s = "waiting" /\ n = "active" /\ DependenciesDone(t)
      BY <1>2, <2>4 DEF Life
    <3> QED
      BY <3>1 DEF MayMove
  <2>5. CASE /\ t \in exec[p] /\ status[t] # "completed" /\ status'[t] \in {"queued", "failed"}
             /\ (t \in cancelReq' <=> t \in cancelReq) /\ (t \in exec'[p] <=> t \in exec[p])
    <3>1. s = "active" \/ n = s
      BY <2>5 DEF Life
    <3> QED
      BY <2>1, <3>1 DEF MayMove
  <2>6. CASE t \in exec[p] /\ t \notin cancelReq /\ status'[t] = "completed"
    <3>1. s = "active" \/ n = s
      BY <2>6 DEF Life
    <3> QED
      BY <2>1, <3>1 DEF MayMove
  <2>7. CASE status[t] \notin Terminal /\ status'[t] = "cancelled" /\ t \in cancelReq'
    <3>1. n = "cancelled" /\ s \in {"cancelled", "active", "waiting"}
      BY <1>3, <2>7 DEF Life, Terminal, TaskStatus
    <3> QED
      BY <2>1, <3>1 DEF MayMove
  <2> HIDE DEF s, n
  <2> QED
    BY <2>2, <2>3, <2>4, <2>5, <2>6, <2>7 DEF RowMove
<1> QED
  BY <1>1, <1>4

LEMMA StepMoves ==
  ASSUME TypeInv, NEW p \in Workers, Workers = {p}, LifeInv, Step(p), UNCHANGED pool,
         NEW t \in Tasks
  PROVE  RowMove(t, p)
<1>0. /\ PlaceInv(p) /\ ExecInv(p) /\ CancelIsRequested /\ exec' = exec
      /\ status \in [Tasks -> TaskStatus] /\ frame[p] \in Frame
  BY BudgetTypes DEF LifeInv, pool
<1>1. CASE ReportRecover(p) \/ ClaimRecover(p)
  <2>1. cancelReq' = cancelReq /\ (status'[t] = status[t] \/ t \in Expired)
    BY <1>1 DEF ReportRecover, ClaimRecover, RecoverExpiredTaskLeases
  <2> QED
    BY <1>0, <2>1 DEF RowMove, Expired
<1>2. CASE Claim(p)
  <2>1. frame[p].ids \subseteq ReadyTasks /\ exec[p] = {}
    BY <1>0, <1>2 DEF Claim, At, PlaceInv, ClaimIsReady, CallsOfPool, CallerOfLabel, ClaimLabel
  <2>2. cancelReq' = cancelReq
    BY <1>2 DEF Claim, ClaimTasks
  <2>3. CASE t \in Claimable(frame[p].ids)
    <3>1. status'[t] = "running"
      BY <1>2, <2>3 DEF Claim, ClaimTasks
    <3>2. /\ t \notin cancelReq /\ status[t] = "queued"
          /\ \A d \in DependsOn[t] : status[d] = "completed"
      BY <2>1, <2>3 DEF Claimable, ReadyTasks
    <3> QED
      BY <1>0, <2>1, <2>2, <3>1, <3>2 DEF RowMove
  <2>4. CASE t \notin Claimable(frame[p].ids)
    <3>1. status'[t] = status[t] \/ t \in Expired
      BY <1>2, <2>4 DEF Claim, ClaimTasks
    <3> QED
      BY <1>0, <2>2, <3>1 DEF RowMove, Expired
  <2> QED
    BY <2>3, <2>4
<1>3. CASE CompleteTask(p)
  <2>1. /\ status' = [status EXCEPT ![frame[p].task] = "completed"] /\ cancelReq' = cancelReq
        /\ frame[p].pc = "complete"
    BY <1>3 DEF CompleteTask, UpdateTaskState, At
  <2>2. frame[p].task \in exec[p] /\ p \notin stop
    BY <1>0, <2>1 DEF PlaceInv, CallsOfPool, CallerOfLabel, EventOfLabel, TaskLabel
  <2>3. frame[p].task \notin cancelReq
    BY <1>0, <2>2 DEF ExecInv, StopCovers
  <2>4. t = frame[p].task \/ status'[t] = status[t]
    BY <1>0, <2>1
  <2>5. t = frame[p].task => status'[t] = "completed"
    BY <1>0, <2>1
  <2> QED
    BY <1>0, <2>1, <2>2, <2>3, <2>4, <2>5 DEF RowMove
<1>4. CASE FailState(p)
  <2> DEFINE r == frame[p].task
             s == IF Retrying(p) THEN "queued" ELSE "failed"
  <2>1. status' = [status EXCEPT ![r] = s] /\ cancelReq' = cancelReq /\ frame[p].pc = "fail_state"
    BY <1>4 DEF FailState, UpdateTaskState, At
  <2>2. s \in {"queued", "failed"}
    OBVIOUS
  <2>3. r \in exec[p]
    BY <1>0, <2>1 DEF PlaceInv, CallsOfPool, CallerOfLabel, TaskLabel
  <2>4. status[r] # "completed"
    BY <1>0, <2>1, <2>3 DEF ExecInv, DoneIsEnding, ReportLabel
  <2> HIDE DEF s
  <2>5. (t = r \/ status'[t] = status[t]) /\ (t = r => status'[t] = s)
    BY <1>0, <2>1
  <2> QED
    BY <1>0, <2>1, <2>2, <2>3, <2>4, <2>5 DEF RowMove
<1>5. CASE Cancel(p)
  <2>1. \/ status'[t] = status[t] /\ (t \in cancelReq' <=> t \in cancelReq)
        \/ status[t] \notin Terminal /\ status'[t] = "cancelled" /\ t \in cancelReq'
    BY <1>5 DEF Cancel, CancelTaskGraph
  <2> QED
    BY <1>0, <2>1 DEF RowMove
<1>6. CASE Advance(p)
  BY <1>0, <1>6 DEF PlaceInv, CallerOfLabel, Advance, AdvanceList, AdvanceRecover, AdvanceRelist,
                    AdvanceWrite, At, ReportLabel, ClaimLabel, TaskLabel
<1>7. CASE \/ ReportRead(p) \/ ReportList(p) \/ ReportWrite(p) \/ ClaimGraph(p) \/ ClaimList(p)
           \/ ClaimFail(p) \/ FailRead(p) \/ FailAttempt(p) \/ FailGraph(p)
  <2>1. UNCHANGED <<status, cancelReq>>
    BY <1>7
    DEF ReportRead, ReportList, ReportWrite, ClaimGraph, ClaimList, ClaimFail, FailRead, FailAttempt,
        FailGraph, UpdateTaskAttempt, UpdateTaskGraphStatus, store
  <2> QED
    BY <1>0, <2>1 DEF RowMove
<1> QED
  BY <1>1, <1>2, <1>3, <1>4, <1>5, <1>6, <1>7 DEF Step, Report, ClaimReadyTasks, FailTask

LEMMA NextMoves ==
  ASSUME TypeInv, NEW p \in Workers, Workers = {p}, ApiOps = {}, LifeInv, [PoolNext]_poolVars,
         NEW t \in Tasks
  PROVE  RowMove(t, p)
<1>0. PlaceInv(p) /\ exec \in [Workers -> SUBSET Tasks]
  BY DEF LifeInv, TypeInv, PoolTypeOK
<1>1. ASSUME UNCHANGED <<status, cancelReq>>,
             \A u \in exec'[p] : u \in exec[p] \/ status[u] = "running"
      PROVE  RowMove(t, p)
  BY <1>1 DEF RowMove
<1>2. CASE RuntimeStep(p) /\ Step(p)
  BY <1>2, StepMoves DEF RuntimeStep
<1>3. CASE RuntimeStep(p) /\ Record(p)
  BY <1>1, <1>3 DEF RuntimeStep, Record, PutBlackboardEntry, store, pool
<1>4. CASE LoopStep(p)
  <2>1. CASE Iterate(p) \/ AfterReport(p) \/ AfterCancel(p) \/ PoolReturns(p)
    BY <1>1, <1>4, <2>1 DEF LoopStep, Iterate, AfterReport, AfterClaim, AfterCancel, PoolReturns, store, pool
  <2>2. CASE AfterClaim(p) /\ ~PoolReturns(p)
    <3>1. UNCHANGED <<status, cancelReq>> /\ exec'[p] = frame[p].ids
          /\ \A u \in frame[p].ids : status[u] = "running"
      BY <1>0, <2>2 DEF AfterClaim, store, At, PlaceInv, ClaimIsReady
    <3> QED
      BY <1>1, <3>1
  <2> QED
    BY <1>4, <2>1, <2>2 DEF LoopStep
<1>5. CASE \/ ExecutionEnds(p) \/ Crash(p) \/ Reply(p) \/ StartPool(p) \/ SetStop(p)
           \/ \E u \in Tasks : HandlerStep(p, u) \/ Heartbeat(p, u)
  <2>1. UNCHANGED <<status, cancelReq>> /\ exec'[p] \subseteq exec[p]
    <3>1. CASE ExecutionEnds(p) \/ Crash(p) \/ StartPool(p) \/ SetStop(p)
      BY <1>0, <3>1 DEF ExecutionEnds, Crash, StartPool, SetStop, store
    <3>2. CASE Reply(p)
      BY <1>0, <3>2 DEF Reply, At, PlaceInv, CallsOfPool
    <3>3. CASE \E u \in Tasks : HandlerStep(p, u) \/ Heartbeat(p, u)
      BY <3>3 DEF HandlerStep, HandlerReturns, HandlerMissing, HandlerRaises, HandlerStopped, HandlerTimesOut,
                  TimeoutFails, Ends, Heartbeat, RenewTaskLease, store, pool
    <3> QED
      BY <1>5, <3>1, <3>2, <3>3
  <2> QED
    BY <1>1, <2>1
<1>6. CASE Post(p)
  BY <1>6 DEF Post, PostAdvance, PostComplete, PostFail, PostCancel, Submit
<1>7. CASE (Lapse /\ UNCHANGED pool) \/ UNCHANGED poolVars
  BY <1>1, <1>7 DEF Lapse, LeaseLapses, pool, poolVars, store
<1> QED
  BY <1>2, <1>3, <1>4, <1>5, <1>6, <1>7 DEF PoolNext, ProcessNext, RuntimeStep

\* A pool that is alone with its tables keeps the promise of a task graph, over
\* any graph and through any lapsed leases, timeouts, cancellations and crashes:
\* no task starts before its dependencies are done, nothing done is executed
\* again, nothing cancelled comes back (engine.py:139-324, taskgraph.py:236-359).
THEOREM LifecycleIsKept ==
  ASSUME NEW p, Workers = {p}, ApiOps = {}
  PROVE  PoolSpec => KeepsLifecycle
<1>1. PoolInit => Lifecycle!LifecycleInit
  <2> SUFFICES ASSUME PoolInit PROVE Lifecycle!LifecycleInit
    OBVIOUS
  <2>1. TypeInv /\ LifeInv
    BY InitType, InitLife
  <2>2. \A t \in Tasks : LifecycleState(t) = "waiting"
    BY <2>1, LifeNow DEF Life, LifeInv, PoolInit, Init, StoreInit
  <2> QED
    BY <2>2 DEF Lifecycle!LifecycleInit
<1>2. TypeInv /\ TypeInv' /\ CancelledNeverRuns /\ LifeInv /\ [PoolNext]_poolVars
      => LifeInv' /\ [Lifecycle!LifecycleNext]_[t \in Tasks |-> LifecycleState(t)]
  <2> SUFFICES ASSUME TypeInv, TypeInv', CancelledNeverRuns, LifeInv, [PoolNext]_poolVars
               PROVE  LifeInv' /\ Lifecycle!LifecycleNext
    OBVIOUS
  <2>1. LifeInv'
    BY NextLife
  <2>2. ASSUME NEW t \in Tasks
        PROVE  /\ LifecycleState(t) \in LifecycleStates
               /\ MayMove(LifecycleState(t), LifecycleState(t)', DependenciesDone(t))
    <3>1. CancelIsRequested /\ CancelIsRequested' /\ RowMove(t, p)
      BY <2>1, NextMoves DEF LifeInv
    <3>2. LifecycleState(t) \in LifecycleStates
      BY <3>1, LifeNow DEF Life, LifecycleStates
    <3> QED
      BY <3>1, <3>2, MoveOfRow
  <2> QED
    BY <2>1, <2>2, AbstractStep
<1>3. PoolSpec => []TypeInv
  BY InitType, NextType, PTL DEF PoolSpec
<1>4. PoolInit => LifeInv
  BY InitLife
<1> QED
  BY <1>1, <1>2, <1>3, <1>4, CancelledIsNotExecuted, PTL
  DEF PoolSpec, KeepsLifecycle, Lifecycle!LifecycleSpec
=============================================================================
