---------------------------- MODULE MCWorkerPool ----------------------------
(* Small graphs cut out of build_graph (taskgraph.py:142-153) for TLC.       *)
EXTENDS WorkerPool, TLC

CONSTANTS edit, test, security_review, verify

MCTasksOne == {edit}
MCTasksChain == {edit, test}
MCTasksFork == {edit, test, security_review}
MCTasksDiamond == {edit, test, security_review, verify}

MCDependsOn ==
  [t \in Tasks |-> CASE t = edit -> {}
                     [] t \in {test, security_review} -> {edit}
                     [] t = verify -> {test, security_review}]

MCOrder ==
  [t \in Tasks |-> CASE t = edit -> 1 [] t = test -> 2
                     [] t = security_review -> 3 [] t = verify -> 4]

\* Processes are interchangeable: only their identity tells leases apart.
MCSymmetry == Permutations(Workers)
=============================================================================
