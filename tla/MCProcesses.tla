---------------------------- MODULE MCProcesses -----------------------------
(* Two processes with a pool each, and a project whose patches an execution  *)
(* and a client handle.  The two share no state: each behaviour is one of    *)
(* one part, which is chosen in the first state.                             *)
EXTENDS MCWorkerPool, AgentPatches

CONSTANTS f1, f2, Parts
VARIABLE part

MCProposals == {f1 :> 2, f1 :> 3 @@ f2 :> 2}

MCInit == part \in Parts /\ PoolInit /\ PatchesInit

MCNext ==
  /\ UNCHANGED part
  \* A behaviour has the cancellation or the crash.
  /\ \/ part = "tasks" /\ PoolNext /\ apiCalls' + crashes' <= 1 /\ UNCHANGED patchesVars
     \* Two actors handle a patch at once, or something fails, which may be
     \* the undo of a failure too.
     \/ /\ part = "patches" /\ PatchesNext /\ UNCHANGED poolVars
        /\ contended' = {} \/ patchFaults' = 0
        /\ \/ patchFaults' \in {patchFaults, 1}
           \/ \E x \in Actors : writer[x].doing = "undo" /\ RestoreFails(x)
     \* Executions and clients may stop; the pools have to go on.
     \/ part = "patches" /\ UNCHANGED <<poolVars, patchesVars>>

MCSpec == MCInit /\ [][MCNext]_<<part, poolVars, patchesVars>>
=============================================================================
