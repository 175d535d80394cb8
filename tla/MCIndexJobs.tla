---------------------------- MODULE MCIndexJobs -----------------------------
(* Jobs and workers are interchangeable for the safety properties.  A        *)
(* behaviour has three claims, or two where a failure or a direct call comes *)
(* in; it does not have both of these, unless the call dies as it builds.    *)
EXTENDS IndexJobs, FiniteSetsExt, TLC

MCSymmetry == Permutations(Jobs) \union Permutations(Workers)

Called == {c \in Calls : call[c].pc # "idle"}
DiedBuilding(c) == call[c].pc = "done" /\ Building(c)

MCBound ==
  /\ MapThenSumSet(LAMBDA j : attempt[j], Jobs) <=
       IF Called = {} /\ failures = 0 THEN 3 ELSE 2
  /\ failures = 0 \/ \A c \in Called : DiedBuilding(c)
=============================================================================
