--------------------------- MODULE TrainingEvents ---------------------------
(***************************************************************************)
(* The events of one training attempt on their way from the workers to     *)
(* those who read them: the reporter of each rank with its queue and its   *)
(* write-ahead log (WorkspaceProgressReporter in shared/progress.py), the  *)
(* requests the gateways serve (ingest_events and the event bus in         *)
(* training_workspace.py), the archiver (TrainingEventArchiver) and a      *)
(* client that follows the stream (stream_events).                         *)
(*                                                                         *)
(* An event is its rank and its position there.  Its kind is abstracted to *)
(* whether the reporter may drop it when the queue is full.  A request     *)
(* outlives the reporter's wait for it, and a handler may be overtaken     *)
(* between the transaction that numbers its events and Redis.              *)
(***************************************************************************)
EXTENDS Naturals, Sequences, FiniteSets, SequencesExt

CONSTANTS
  Ranks,         \* the ranks of the attempt, each with a reporter
  MaxEmitted,    \* bound: events of each rank
  DurableSets,   \* bound: which events are errors, checkpoints or evaluations
  QueueCapacity, \* queue_capacity
  BatchSize,     \* batch_size
  Requests,      \* bound: requests that are under way at a time
  ChunkEvents,   \* chunk_events
  Faults,        \* which occur: "timeout", "redis", "gateway", "worker", "archiver"
  MaxFaults,     \* bound: how often
  NoSlot         \* no request

ASSUME EventsAssumption ==
  /\ MaxEmitted \in [Ranks -> Nat]
  /\ DurableSets \subseteq SUBSET (Ranks \X Nat)
  /\ {QueueCapacity, BatchSize, ChunkEvents} \subseteq Nat \ {0}
  /\ NoSlot \notin Requests

VARIABLES
  durable,       \* the events that are errors, checkpoints or evaluations
  reporter,      \* the delivery loop of each rank and what it holds
  wal,           \* the write-ahead log of each rank: a sequence of rows
  request,       \* the requests at the gateways
  known,         \* training_event_ingress
  eventSequence, \* training_jobs.event_sequence
  stream,        \* the Redis stream: its entries with their ids
  cursor,        \* training_jobs.archived_event_sequence
  archiver,      \* the chunk the archiver is writing
  archived,      \* the sequences in the chunks that have an artifact
  follower,      \* Last-Event-ID and the sequences the client was sent
  refused,       \* history: the events Redis did not take
  gone,          \* history: the events a dying process took with it
  faults

senders == <<durable, reporter, wal, request, known, eventSequence, stream, refused, gone>>
readers == <<cursor, archiver, archived, follower>>
busVars == <<known, eventSequence, stream>>
eventsVars == <<durable, reporter, wal, request, busVars, readers, refused, gone, faults>>

NoRequest == [pc |-> "free", events |-> << >>, first |-> 0]

\* on: the request that is waited for; sending: its
\* events; rows: the rows of the log still to be replayed; retained: the rows
\* to be kept.
Fresh(n) == [pc |-> "start", emitted |-> n, pending |-> << >>, latest |-> {},
             batch |-> << >>, sending |-> << >>, on |-> NoSlot, rows |-> << >>, retained |-> << >>]

EventsInit ==
  /\ durable \in DurableSets
  /\ reporter = [r \in Ranks |-> Fresh(0)]
  /\ wal = [r \in Ranks |-> << >>]
  /\ request = [q \in Requests |-> NoRequest]
  /\ known = {}
  /\ eventSequence = 0
  /\ stream = << >>
  /\ cursor = 0
  /\ archiver = [pc |-> "idle", chunk |-> {}]
  /\ archived = {}
  /\ follower = [last |-> 0, seen |-> {}]
  /\ refused = {}
  /\ gone = {}
  /\ faults = 0

Strikes(kind) == kind \in Faults /\ faults < MaxFaults /\ faults' = faults + 1
-----------------------------------------------------------------------------
(* The reporter.  Emit runs in the trainer's thread, the rest in the        *)
(* delivery thread.                                                         *)

Loop(r, label) == reporter[r].pc = label
Flat(rows) == UNION {ToSet(rows[i]) : i \in DOMAIN rows}

\* A full queue: what may not be dropped is logged, of the rest the latest is
\* kept.  The log is locked while it is replayed.
Emit(r) ==
  LET me == reporter[r]
      e == <<r, me.emitted + 1>>
      full == Len(me.pending) >= QueueCapacity
  IN /\ me.pc # "down"
     /\ me.emitted < MaxEmitted[r]
     /\ full /\ e \in durable => me.pc \notin {"replay", "replaying"}
     /\ reporter' = [reporter EXCEPT ![r].emitted = @ + 1,
          ![r].pending = IF full THEN @ ELSE Append(@, e),
          ![r].latest = IF full /\ e \notin durable THEN {e} ELSE @]
     /\ wal' = IF full /\ e \in durable THEN [wal EXCEPT ![r] = Append(@, <<e>>)] ELSE wal
     /\ UNCHANGED <<durable, request, busVars, readers, refused, gone, faults>>

\* The log is replayed when the process starts.  The loop replays it again
\* after thirty seconds without a flush, which the heartbeat that it sends
\* every five seconds never lets happen.
ReadWal(r) ==
  /\ Loop(r, "start")
  /\ reporter' = [reporter EXCEPT ![r].pc = IF wal[r] = << >> THEN "run" ELSE "replay",
                                  ![r].rows = wal[r], ![r].retained = << >>]
  /\ UNCHANGED <<durable, wal, request, busVars, readers, refused, gone, faults>>

\* The retained rows replace the log.
ReplaceWal(r) ==
  /\ Loop(r, "replay")
  /\ reporter[r].rows = << >>
  /\ wal' = [wal EXCEPT ![r] = reporter[r].retained]
  /\ reporter' = [reporter EXCEPT ![r].pc = "run", ![r].retained = << >>]
  /\ UNCHANGED <<durable, request, busVars, readers, refused, gone, faults>>

Take(r) ==
  /\ Loop(r, "run")
  /\ reporter[r].pending # << >>
  /\ Len(reporter[r].batch) < BatchSize
  /\ reporter' = [reporter EXCEPT ![r].pending = Tail(@),
                                  ![r].batch = Append(@, Head(reporter[r].pending))]
  /\ UNCHANGED <<durable, wal, request, busVars, readers, refused, gone, faults>>

TakeLatest(r) ==
  /\ Loop(r, "run")
  /\ Len(reporter[r].batch) < BatchSize
  /\ \E e \in reporter[r].latest :
       reporter' = [reporter EXCEPT ![r].latest = {}, ![r].batch = Append(@, e)]
  /\ UNCHANGED <<durable, wal, request, busVars, readers, refused, gone, faults>>

Post(r, q, label, events) ==
  /\ request[q].pc = "free"
  /\ request' = [request EXCEPT ![q] = [pc |-> "allocate", events |-> events, first |-> 0]]
  /\ reporter' = [reporter EXCEPT ![r].pc = label, ![r].sending = events, ![r].on = q,
       ![r].batch = IF label = "sending" THEN << >> ELSE @]

Flush(r, q) ==
  /\ Loop(r, "run")
  /\ reporter[r].batch # << >>
  /\ Post(r, q, "sending", reporter[r].batch)
  /\ UNCHANGED <<durable, wal, busVars, readers, refused, gone, faults>>

Replay(r, q) ==
  /\ Loop(r, "replay")
  /\ reporter[r].rows # << >>
  /\ Post(r, q, "replaying", Head(reporter[r].rows))
  /\ UNCHANGED <<durable, wal, busVars, readers, refused, gone, faults>>

\* What the reporter does with an answer.  Mutant: a row that was not
\* delivered is dropped from the log.
RetainedNever(r, ok) == reporter[r].retained
Retained(r, ok) ==
  IF ok THEN reporter[r].retained ELSE Append(reporter[r].retained, Head(reporter[r].rows))

Answered(r, ok) ==
  reporter' = [reporter EXCEPT ![r] =
    IF @.pc = "sending"
    THEN [@ EXCEPT !.pc = IF ok THEN "run" ELSE "log", !.on = NoSlot,
                   !.sending = IF ok THEN << >> ELSE reporter[r].sending]
    ELSE [@ EXCEPT !.pc = "replay", !.on = NoSlot, !.sending = << >>, !.rows = Tail(reporter[r].rows),
                   !.retained = Retained(r, ok)]]

\* _send returns, with or without the answer 200.
Receive(r) ==
  /\ reporter[r].on # NoSlot
  /\ request[reporter[r].on].pc \in {"done", "failed"}
  /\ Answered(r, request[reporter[r].on].pc = "done")
  /\ request' = [request EXCEPT ![reporter[r].on] = NoRequest]
  /\ UNCHANGED <<durable, wal, busVars, readers, refused, gone, faults>>

\* Ten seconds have passed or the connection broke; the gateway goes on.
TimesOut(r) ==
  /\ reporter[r].on # NoSlot
  /\ Strikes("timeout")
  /\ Answered(r, FALSE)
  /\ request' = IF request[reporter[r].on].pc \in {"done", "failed"}
                THEN [request EXCEPT ![reporter[r].on] = NoRequest] ELSE request
  /\ UNCHANGED <<durable, wal, busVars, readers, refused, gone>>

WriteWal(r) ==
  /\ Loop(r, "log")
  /\ wal' = [wal EXCEPT ![r] = Append(@, reporter[r].sending)]
  /\ reporter' = [reporter EXCEPT ![r].pc = "run", ![r].sending = << >>]
  /\ UNCHANGED <<durable, request, busVars, readers, refused, gone, faults>>

Volatile(r) ==
  ToSet(reporter[r].pending) \union reporter[r].latest \union ToSet(reporter[r].batch)
    \union ToSet(reporter[r].sending)

\* The process dies, or ends before its queue is empty, and is restarted.
WorkerDies(r) ==
  /\ ~Loop(r, "down")
  /\ Strikes("worker")
  /\ reporter' = [reporter EXCEPT ![r] = [Fresh(@.emitted) EXCEPT !.pc = "down"]]
  /\ gone' = gone \union (Volatile(r) \ Flat(wal[r]))
  /\ request' = [q \in Requests |->
       IF q = reporter[r].on /\ request[q].pc \in {"done", "failed"} THEN NoRequest ELSE request[q]]
  /\ UNCHANGED <<durable, wal, busVars, readers, refused>>

WorkerRestarts(r) ==
  /\ Loop(r, "down")
  /\ reporter' = [reporter EXCEPT ![r].pc = "start"]
  /\ UNCHANGED <<durable, wal, request, busVars, readers, refused, gone, faults>>

Deliver(r) ==
  \/ ReadWal(r) \/ ReplaceWal(r) \/ Take(r) \/ TakeLatest(r) \/ Receive(r) \/ WriteWal(r)
  \/ \E q \in Requests : Flush(r, q) \/ Replay(r, q)
-----------------------------------------------------------------------------
(* The gateways. *)

Awaited(q) == \E r \in Ranks : reporter[r].on = q
Ends(q, label) == request' = [request EXCEPT ![q] =
  IF Awaited(q) THEN [@ EXCEPT !.pc = label] ELSE NoRequest]

\* allocate_event_sequences: one transaction that locks the job's row.
\* Mutant: events that were numbered before are numbered again.
UnknownAll(q) == request[q].events
Unknown(q) ==
  LET events == request[q].events
      new[i \in 0 .. Len(events)] ==
        IF i = 0 THEN << >>
        ELSE IF events[i] \in known THEN new[i - 1] ELSE Append(new[i - 1], events[i])
  IN new[Len(events)]

AllocateSequences(q) ==
  /\ request[q].pc = "allocate"
  /\ LET new == Unknown(q) IN
     /\ known' = known \union ToSet(new)
     /\ eventSequence' = eventSequence + Len(new)
     /\ IF new = << >> THEN Ends(q, "done")
        ELSE request' = [request EXCEPT ![q] =
               [pc |-> "append", events |-> new, first |-> eventSequence + 1]]
  /\ UNCHANGED <<durable, reporter, wal, stream, readers, refused, gone, faults>>

\* XADD takes an id only if it is greater than the last one; the batch is one
\* transaction and its ids are adjacent.  Mutant: any id is taken.
TakenAlways(q) == TRUE
Taken(q) == stream = << >> \/ request[q].first > Last(stream).id

Entries(q) == [i \in DOMAIN request[q].events |->
                 [id |-> request[q].first + i - 1, event |-> request[q].events[i]]]

AppendToStream(q) ==
  /\ request[q].pc = "append"
  /\ IF Taken(q)
     THEN stream' = stream \o Entries(q) /\ Ends(q, "done") /\ UNCHANGED refused
     ELSE /\ refused' = refused \union ToSet(request[q].events)
          /\ Ends(q, "failed")
          /\ UNCHANGED stream
  /\ UNCHANGED <<durable, reporter, wal, known, eventSequence, readers, gone, faults>>

RedisFails(q) ==
  /\ request[q].pc = "append"
  /\ Strikes("redis")
  /\ refused' = refused \union ToSet(request[q].events)
  /\ Ends(q, "failed")
  /\ UNCHANGED <<durable, reporter, wal, busVars, readers, gone>>

GatewayDies(q) ==
  /\ request[q].pc \in {"allocate", "append"}
  /\ Strikes("gateway")
  /\ gone' = IF request[q].pc = "append" THEN gone \union ToSet(request[q].events) ELSE gone
  /\ Ends(q, "failed")
  /\ UNCHANGED <<durable, reporter, wal, busVars, readers, refused>>
-----------------------------------------------------------------------------
(* Those who read the stream. *)

IdsAfter(n) == {stream[i].id : i \in DOMAIN stream} \ (0 .. n)

\* The first entries after n in the order of the ids; at most limit.
Page(n, limit) == {i \in IdsAfter(n) : Cardinality({j \in IdsAfter(n) : j < i}) < limit}
Greatest(ids) == CHOOSE i \in ids : \A j \in ids : j <= i

ReadChunk ==
  /\ archiver.pc = "idle"
  /\ Page(cursor, ChunkEvents) # {}
  /\ archiver' = [pc |-> "put", chunk |-> Page(cursor, ChunkEvents)]
  /\ UNCHANGED <<senders, cursor, archived, follower, faults>>

AddArtifact ==
  /\ archiver.pc = "put"
  /\ archived' = archived \union archiver.chunk
  /\ archiver' = [archiver EXCEPT !.pc = "advance"]
  /\ UNCHANGED <<senders, cursor, follower, faults>>

UpdateArchiveCursor ==
  /\ archiver.pc = "advance"
  /\ cursor' = Greatest(archiver.chunk)
  /\ archiver' = [pc |-> "idle", chunk |-> {}]
  /\ UNCHANGED <<senders, archived, follower, faults>>

\* The controller's process, in which the archiver runs, dies.
ArchiverDies ==
  /\ archiver.pc # "idle"
  /\ Strikes("archiver")
  /\ archiver' = [pc |-> "idle", chunk |-> {}]
  /\ UNCHANGED <<senders, cursor, archived, follower>>

\* A page of at most a hundred entries; a client that reconnects goes on
\* after the last one it was sent.
StreamEvents ==
  /\ IdsAfter(follower.last) # {}
  /\ follower' = [last |-> Greatest(IdsAfter(follower.last)),
                  seen |-> follower.seen \union IdsAfter(follower.last)]
  /\ UNCHANGED <<senders, cursor, archiver, archived, faults>>

EventsNext ==
  \/ \E r \in Ranks : Emit(r) \/ Deliver(r) \/ TimesOut(r) \/ WorkerDies(r) \/ WorkerRestarts(r)
  \/ \E q \in Requests :
       AllocateSequences(q) \/ AppendToStream(q) \/ RedisFails(q) \/ GatewayDies(q)
  \/ ReadChunk \/ AddArtifact \/ UpdateArchiveCursor \/ ArchiverDies
  \/ StreamEvents

EventsSpec == EventsInit /\ [][EventsNext]_eventsVars
-----------------------------------------------------------------------------
(* Properties. *)

Ids == {stream[i].id : i \in DOMAIN stream}
Streamed == {stream[i].event : i \in DOMAIN stream}
Held == UNION {Volatile(r) \union Flat(wal[r]) : r \in Ranks}
Emitted == UNION {{r} \X (1 .. reporter[r].emitted) : r \in Ranks}

\* The stream has each event at most once, however often a request, a replay
\* of the log or a restarted worker sends it.
StreamedOnce == Cardinality(Streamed) = Len(stream)

\* Two gateways append concurrently, also late, yet neither reader passes an
\* event: the archiver's cursor stays behind what the chunks have, wherever it
\* dies, and a client that reconnects after the last event it was sent has
\* seen all those before.
ReadersMissNothing ==
  /\ {i \in Ids : i <= cursor} \subseteq archived
  /\ {i \in Ids : i <= follower.last} \subseteq follower.seen

\* An event that may not be dropped is held by its reporter, with a handler or
\* in the stream, unless Redis refused it or it died with a process.
Handled == UNION {ToSet(request[q].events) : q \in Requests}
Safe == Held \union Handled \union Streamed \union gone
LostOnlyByRefusal == Emitted \intersect durable \subseteq Safe \union refused

\* Without a death, nothing that may not be dropped is lost: the log is safe to
\* replay after an answer that did not come.
ReplayIsSafe == Emitted \intersect durable \subseteq Safe
=============================================================================
