---------------------------- MODULE MCVectorSync ----------------------------
(* Three revisions of a small repository: each shares a chunk with the one   *)
(* before it, adds one and drops one; the third returns to a dropped chunk.  *)
EXTENDS VectorSync, TLC

CONSTANTS a, b, c, w1, w2

MCChunks == {a, b, c}
MCChunksOf ==
  [r \in Revisions |-> CASE r = 1 -> {a, b} [] r = 2 -> {b, c} [] r = 3 -> {a, c}]

\* One worker that dies, or two that only overlap.
MCDeployments ==
  {[workers |-> {w1}, revisions |-> 3, crashes |-> 2],
   [workers |-> {w1, w2}, revisions |-> 2, crashes |-> 0]}
=============================================================================
