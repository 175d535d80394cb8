-------------------------------- MODULE Crawl --------------------------------
(***************************************************************************)
(* The data engine (learning/data_engine.py) and the processes that run    *)
(* it: the command line, the crawler worker, which runs one engine several *)
(* times, and the supervisor, which builds a new one for every cycle.      *)
(*                                                                         *)
(* The frontier outlives its processes; the shards are files of the output *)
(* directory, one directory per process.  A crawler is one of the async    *)
(* workers of a run, and a step is what it does between two store calls.   *)
(* What a fetch finds is a choice.                                         *)
(* Priorities, robots caching and throttling are left out.  The tasks of a *)
(* run that raised are taken to end at once, though they live on for a     *)
(* moment.                                                                 *)
(***************************************************************************)
EXTENDS Naturals, TLC

CONSTANTS
  Urls, Seeds,     \* the allowed URLs, and those the sources name
  Links,           \* what each page links to
  Text,            \* the content hash of each page
  Accepted,        \* the texts the quality gate accepts
  Processes,
  Crawling,        \* the engines each process builds, the runs of each engine,
                   \* and the frontiers it can use
  Crawlers,        \* the async workers of each process: <<process, number>>
  MaxDocs, MaxDepth, RetryLimit,
  MaxCycleFailures \* max_failures of the supervisor

ASSUME CrawlAssumption ==
  /\ Seeds \subseteq Urls /\ Links \in [Urls -> SUBSET Urls] /\ DOMAIN Text = Urls
  /\ Crawlers \subseteq Processes \X Nat
  /\ Crawling \in [Processes -> [engines : Nat \ {0}, runs : Nat \ {0},
                               frontiers : SUBSET {"sqlite", "postgres"}]]
  /\ {MaxDepth, RetryLimit} \subseteq Nat /\ {MaxDocs, MaxCycleFailures} \subseteq Nat \ {0}

VARIABLES
  frontier,    \* "sqlite", for one process, or "postgres"
  urls,        \* the frontier: the row of each URL
  documents,   \* the documents table: the process that wrote each content hash
  shards,      \* the clean documents in each process's directory
  process,     \* each process: where it is in its plan
  crawler      \* each crawler: what it does with which row

crawlVars == <<frontier, urls, documents, shards, process, crawler>>

NoUrl == [status |-> "unknown", attempts |-> 0, depth |-> 0]
Off == [pc |-> "off"]
NotStarted == [pc |-> "down", engine |-> 0, run |-> 0, fetched |-> 0, failures |-> 0]
Of(p) == {c \in Crawlers : c[1] = p}

CrawlInit ==
  /\ frontier \in {"sqlite", "postgres"}
  /\ urls = [u \in Urls |-> NoUrl]
  /\ documents = << >>
  /\ shards = [p \in Processes |-> {}]
  /\ process = [p \in Processes |-> NotStarted]
  /\ crawler = [c \in Crawlers |-> Off]

\* INSERT OR IGNORE of some URLs.
Queue(some, depth) ==
  [u \in Urls |-> IF u \in some /\ urls[u].status = "unknown"
                  THEN [NoUrl EXCEPT !.status = "queued", !.depth = depth] ELSE urls[u]]

-----------------------------------------------------------------------------
\* ShardedJsonlWriter(overwrite=True): a new engine begins with no shards.
StartEngine(p) ==
  /\ frontier \in Crawling[p].frontiers
  /\ process[p].pc \in {"down", "engine ended"} /\ process[p].engine < Crawling[p].engines
  /\ process' = [process EXCEPT ![p].pc = "engine", ![p].engine = @ + 1, ![p].run = 0]
  /\ shards' = [shards EXCEPT ![p] = {}]
  /\ UNCHANGED <<frontier, urls, documents, crawler>>

SeedUrls == Queue(Seeds, 0)

StartRun(p) ==
  /\ process[p].pc = "engine" /\ process[p].run < Crawling[p].runs
  /\ process' = [process EXCEPT ![p].pc = "crawling", ![p].run = @ + 1, ![p].fetched = 0]
  /\ urls' = SeedUrls
  /\ crawler' = [c \in Crawlers |-> IF c \in Of(p) THEN [pc |-> "idle"] ELSE crawler[c]]
  /\ UNCHANGED <<frontier, documents, shards>>

\* gather returned: a run that fetched nothing is the last of its process.
EndRun(p) ==
  /\ process[p].pc = "crawling" /\ \A c \in Of(p) : crawler[c] = Off
  /\ process' = [process EXCEPT ![p].pc =
       IF process[p].fetched = 0 THEN "ended"
       ELSE IF process[p].run < Crawling[p].runs THEN "engine" ELSE "engine ended"]
  /\ UNCHANGED <<frontier, urls, documents, shards, crawler>>

\* A store call of a run raised.  Only the supervisor goes on.
RunFails(p) ==
  /\ process[p].pc \in {"engine", "crawling"} /\ process[p].failures < MaxCycleFailures
  /\ process' = [process EXCEPT ![p].failures = @ + 1, ![p].pc =
       IF process[p].failures + 1 = MaxCycleFailures THEN "ended" ELSE "engine ended"]
  /\ crawler' = [c \in Crawlers |-> IF c \in Of(p) THEN Off ELSE crawler[c]]
  /\ UNCHANGED <<frontier, urls, documents, shards>>

-----------------------------------------------------------------------------
Reaches(c, pc) == crawler' = [crawler EXCEPT ![c].pc = pc]
Holds(c, pcs) == crawler[c].pc \in pcs
Counted(p) == [process EXCEPT ![p].fetched = @ + 1]

\* SQLite returns the row as it was read, Postgres as it was written.
ClaimUrl(c, u) ==
  /\ Holds(c, {"idle"}) /\ process[c[1]].fetched < MaxDocs
  /\ urls[u].status = "queued"
  /\ urls' = [urls EXCEPT ![u].status = "in_progress", ![u].attempts = @ + 1]
  /\ crawler' = [crawler EXCEPT ![c] =
       [pc |-> "fetching", url |-> u, attempts |-> urls[u].attempts + IF frontier = "postgres" THEN 1 ELSE 0]]
  /\ UNCHANGED <<frontier, documents, shards, process>>

\* Nothing to claim now, rows whose next_fetch_at is to come included.
Return(c) ==
  /\ Holds(c, {"idle"})
  /\ process[c[1]].fetched >= MaxDocs
     \/ \A u \in Urls : urls[u].status = "queued" => urls[u].attempts > 0
  /\ crawler' = [crawler EXCEPT ![c] = Off]
  /\ UNCHANGED <<frontier, urls, documents, shards, process>>

\* Mutant: the attempt that has just failed is not counted.
AfterFailureOnce(attempts, limit) == IF attempts > limit THEN "failed" ELSE "queued"
AfterFailure(attempts, limit) == IF attempts + 1 >= limit THEN "failed" ELSE "queued"

MarkFailed(c, limit) ==
  /\ urls' = [urls EXCEPT ![crawler[c].url].status = AfterFailure(crawler[c].attempts, limit)]
  /\ crawler' = [crawler EXCEPT ![c] = [pc |-> "idle"]]
  /\ UNCHANGED <<frontier, documents, shards, process>>

MarkDone(c, pc) ==
  /\ urls' = [urls EXCEPT ![crawler[c].url].status = "done"]
  /\ process' = Counted(c[1])
  /\ crawler' = [crawler EXCEPT ![c].pc = pc]
  /\ UNCHANGED <<frontier, documents, shards>>

Disallowed(c) == Holds(c, {"fetching"}) /\ MarkFailed(c, 0)

\* Any exception of the try block, one after mark_done included.
Fails(c) ==
  /\ Holds(c, {"fetching", "written", "recorded", "linked", "reporting"})
  /\ MarkFailed(c, RetryLimit)

Unsupported(c) == Holds(c, {"fetching"}) /\ MarkDone(c, "idle")

WritePage(c) ==
  /\ Holds(c, {"fetching"})
  /\ Reaches(c, "written")
  /\ shards' = [shards EXCEPT ![c[1]] = @ \union ({Text[crawler[c].url]} \cap Accepted)]
  /\ UNCHANGED <<frontier, urls, documents, process>>

\* The first row of a content hash stays; the shard it names is its own.
RecordFetch(c) ==
  /\ Holds(c, {"written"}) /\ Reaches(c, "recorded")
  /\ documents' = documents @@ (Text[crawler[c].url] :> c[1])
  /\ UNCHANGED <<frontier, urls, shards, process>>

EnqueueDiscovered(c) ==
  /\ Holds(c, {"recorded"}) /\ Reaches(c, "linked")
  /\ LET parent == urls[crawler[c].url] IN
     urls' = IF parent.depth >= MaxDepth THEN urls
             ELSE Queue(Links[crawler[c].url], parent.depth + 1)
  /\ UNCHANGED <<frontier, documents, shards, process>>

FinishUrl(c) == Holds(c, {"linked"}) /\ MarkDone(c, "reporting")

Reported(c) ==
  /\ Holds(c, {"reporting"}) /\ crawler' = [crawler EXCEPT ![c] = [pc |-> "idle"]]
  /\ UNCHANGED <<frontier, urls, documents, shards, process>>

CrawlNext ==
  \/ \E p \in Processes : StartEngine(p) \/ StartRun(p) \/ EndRun(p) \/ RunFails(p)
  \/ \E c \in Crawlers :
       \/ \E u \in Urls : ClaimUrl(c, u)
       \/ Return(c) \/ Disallowed(c) \/ Fails(c) \/ Unsupported(c)
       \/ WritePage(c) \/ RecordFetch(c) \/ EnqueueDiscovered(c) \/ FinishUrl(c) \/ Reported(c)

CrawlSpec == CrawlInit /\ [][CrawlNext]_crawlVars

-----------------------------------------------------------------------------
(* A URL is fetched at most retry_limit times, once if the limit is zero,  *)
(* in all the runs of all the processes on the frontier (mark_failed,      *)
(* claim): a page that fails for ever does not keep the supervisor's       *)
(* cycles going.                                                           *)
FetchesWithinLimit ==
  \A u \in Urls : urls[u].attempts <= IF RetryLimit = 0 THEN 1 ELSE RetryLimit

(* A document the frontier records as accepted, whose page is therefore    *)
(* never fetched again, is in a clean shard of the directory it was        *)
(* written to: a crawl that is resumed goes on with what it has.           *)
CrawledIsKept ==
  \A t \in DOMAIN documents \cap Accepted : t \in shards[documents[t]]
=============================================================================
