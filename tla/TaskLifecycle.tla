--------------------------- MODULE TaskLifecycle ---------------------------
(***************************************************************************)
(* What a task graph promises to the code that runs it (README.md:38-39,   *)
(* docs/aeitron_complete_architecture_manual.md:403-418), without tables,  *)
(* leases, reports or processes: every task starts only over finished      *)
(* dependencies, finished work stays finished, and cancellation takes      *)
(* whatever is not finished, for good.                                     *)
(***************************************************************************)
EXTENDS Naturals

CONSTANTS Tasks, DependsOn

VARIABLE state

States == {"waiting", "active", "done", "failed", "cancelled"}

LifecycleInit == state = [t \in Tasks |-> "waiting"]

\* A task may be started over the results of all its dependencies.
MayStart(t) == \A d \in DependsOn[t] : state[d] = "done"

\* Where a task may go in one step.  Tasks move together: one transaction
\* starts several, and gives up several others.
Moves(t) ==
  CASE state[t] = "waiting" -> {"waiting", "cancelled"}
                                 \union (IF MayStart(t) THEN {"active"} ELSE {})
    [] state[t] = "active"  -> {"active", "waiting", "done", "failed", "cancelled"}
    [] OTHER                -> {state[t]}

LifecycleNext ==
  /\ state' \in [Tasks -> States]
  /\ \A t \in Tasks : state'[t] \in Moves(t)

LifecycleSpec == LifecycleInit /\ [][LifecycleNext]_state
=============================================================================
