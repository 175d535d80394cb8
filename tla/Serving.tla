------------------------------- MODULE Serving -------------------------------
(***************************************************************************)
(* The native server (model_ops/native_serving.py): requests wait in a     *)
(* bounded line for one of the generation slots, and a generation runs in  *)
(* a thread that nothing can stop.                                         *)
(*                                                                         *)
(* The event loop runs one coroutine at a time, and _state_lock is never   *)
(* held over an await: a step is what happens between two awaits.  A       *)
(* client that leaves while its answer is streamed cancels the coroutine   *)
(* of its request (StreamingResponse, external); other requests go on      *)
(* without their client.                                                   *)
(***************************************************************************)
EXTENDS Naturals, Sequences, FiniteSets, SequencesExt

CONSTANTS
  Requests,       \* requests that may be under way at a time
  MaxConcurrent, MaxQueueDepth,
  MaxDepartures   \* bound: clients that leave

ASSUME ServingAssumption ==
  MaxConcurrent \in Nat \ {0} /\ MaxQueueDepth \in Nat /\ MaxDepartures \in Nat

VARIABLES
  slots,       \* free slots of the semaphore
  line,        \* its waiters, in order
  queued, active, \* the counters
  serving,     \* where each request is
  generating,  \* requests whose thread runs
  departures

servingVars == <<slots, line, queued, active, serving, generating, departures>>

ServingInit ==
  /\ slots = MaxConcurrent /\ line = << >>
  /\ queued = 0 /\ active = 0
  /\ serving = [r \in Requests |-> "none"]
  /\ generating = {}
  /\ departures = 0

Moves(r, from, to) == serving[r] = from /\ serving' = [serving EXCEPT ![r] = to]

Arrive(r) ==
  /\ r \notin generating /\ Moves(r, "none", "waiting")
  /\ queued < MaxQueueDepth
  /\ queued' = queued + 1 /\ line' = Append(line, r)
  /\ UNCHANGED <<slots, active, generating, departures>>

Acquire(r) ==
  /\ line # << >> /\ r = Head(line) /\ slots > 0 /\ Moves(r, "waiting", "generating")
  /\ slots' = slots - 1 /\ line' = Tail(line)
  /\ queued' = queued - 1 /\ active' = active + 1
  /\ generating' = generating \union {r}
  /\ UNCHANGED departures

QueueTimeout(r) ==
  /\ Moves(r, "waiting", "none")
  /\ line' = Remove(line, r) /\ queued' = queued - 1
  /\ UNCHANGED <<slots, active, generating, departures>>

ThreadEnds(r) ==
  /\ r \in generating /\ generating' = generating \ {r}
  /\ UNCHANGED <<slots, line, queued, active, serving, departures>>

ReleaseSlot ==
  /\ slots' = slots + 1 /\ active' = active - 1
  /\ UNCHANGED <<line, queued, generating, departures>>

\* The generation answered or raised.
AnswerRequest(r) == r \notin generating /\ Moves(r, "generating", "none") /\ ReleaseSlot

\* Mutant: the slot is given back when the client is answered 504.
TimeoutReleases(r) == Moves(r, "generating", "none") /\ ReleaseSlot
\* Answered 504: a background task holds the slot until the thread ends.
GenerationTimeout(r) ==
  /\ Moves(r, "generating", "background")
  /\ UNCHANGED <<slots, line, queued, active, generating, departures>>

ReleaseAfterCompletion(r) ==
  r \notin generating /\ Moves(r, "background", "none") /\ ReleaseSlot

\* CancelledError is neither a TimeoutError nor an Exception: a waiter keeps
\* its place in the count, a generation its slot, for ever.
Depart(r) ==
  /\ departures < MaxDepartures /\ departures' = departures + 1
  /\ \/ Moves(r, "waiting", "none") /\ line' = Remove(line, r)
     \/ Moves(r, "generating", "none") /\ UNCHANGED line
  /\ UNCHANGED <<slots, queued, active, generating>>

ServingNext ==
  \E r \in Requests :
    \/ Arrive(r) \/ Acquire(r) \/ QueueTimeout(r) \/ ThreadEnds(r) \/ AnswerRequest(r)
    \/ GenerationTimeout(r) \/ ReleaseAfterCompletion(r) \/ Depart(r)

ServingSpec == ServingInit /\ [][ServingNext]_servingVars

-----------------------------------------------------------------------------
(* No more generations run on the model at a time than max_concurrent,     *)
(* though requests time out and clients leave while their threads go on:   *)
(* "its slot remains held until the worker exits; another model operation  *)
(* cannot overlap the still-running task" (the manual, lines 5619-5622).   *)
GenerationsDoNotOverlap == Cardinality(generating) <= MaxConcurrent
=============================================================================
