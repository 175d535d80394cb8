-------------------------- MODULE WorkspaceProofs ---------------------------
(***************************************************************************)
(* What TLC checks of the training workspace and of the patches of a       *)
(* project on small instances, for any checkpoints, gateways, keys,        *)
(* workers, ranks, files and agents.                                       *)
(***************************************************************************)
EXTENDS TrainingJobs, TrainingAdmission, CheckpointPromotion, AgentPatches,
        FiniteSetTheorems, SequenceTheorems, TLAPS

-----------------------------------------------------------------------------
(* Training jobs. *)

TrainingBatch == [attempt : Nat, events : SUBSET Nat]
TrainingFrame == [pc : JobLabel, job : Row, target : JobStatus, batch : TrainingBatch]

RowTypes == job \in Row /\ attempts \in Seq(JobStatus)

FrameTypes == api \in [Handlers -> TrainingFrame] /\ ctl \in TrainingFrame

TrainingTypes == RowTypes /\ FrameTypes

\* A row that was read is the row, or an older version of it.
Reads(row) ==
  /\ row.version <= job.version
  /\ row.version = job.version => row.status = job.status /\ row.binding = job.binding

\* A version is that of a row, and only the absent row has version 0.
AbsentIsFirst ==
  /\ job.version = 0 <=> job.status = "absent"
  /\ job.version = 0 => job.binding = 0

EveryReadIsARead == Reads(ctl.job) /\ \A h \in Handlers : Reads(api[h].job)

\* The events a request has in hand got their sequences, and no other request
\* has one of them in hand.
InHand(f) == f.pc \in {"append", "apply", "applied"}
EventsOf(f) == {f.batch.attempt} \X f.batch.events

EventsAreSequenced == \A h \in Handlers : InHand(api[h]) => EventsOf(api[h]) \subseteq ingress
HandsDiffer ==
  \A g, h \in Handlers :
    g # h /\ InHand(api[g]) /\ InHand(api[h]) => EventsOf(api[g]) \intersect EventsOf(api[h]) = {}

\* What the controller is about is a row that was created.
CtlReadARow == ctl.pc # "idle" => ctl.job.version > 0

VersionInv == TrainingTypes /\ AbsentIsFirst /\ EveryReadIsARead /\ CtlReadARow
HandInv == TrainingTypes /\ EventsAreSequenced /\ HandsDiffer

LEMMA JobStatuses ==
  /\ JobStatus = {"absent", "validating", "queued", "provisioning", "running", "checkpointing",
                  "evaluating", "succeeded", "failed", "blocked", "cancelled"}
  /\ \A s \in JobStatus : AllowedTransitions[s] \subseteq JobStatus \ {"absent"}
BY DEF JobStatus, AllowedTransitions

LEMMA IdleFrame ==
  /\ NoJob \in Row /\ Idle \in TrainingFrame
  /\ Idle.pc = "idle" /\ Idle.job = NoJob /\ NoJob.version = 0
  /\ NoJob.status = "absent" /\ NoJob.binding = 0
BY JobStatuses DEF NoJob, Idle, NoBatch, Row, TrainingFrame, TrainingBatch, JobLabel

LEMMA RestIsLess ==
  ASSUME NEW b \in TrainingBatch
  PROVE  /\ Rest(b) \in TrainingBatch /\ Rest(b).attempt = b.attempt
         /\ Rest(b).events \subseteq b.events
BY DEF TrainingBatch, Rest

-----------------------------------------------------------------------------
\* What a step does to the row: nothing but the current attempt, or a newer
\* version of it.
Advances ==
  /\ job' \in Row
  /\ \/ job'.version = job.version /\ job'.status = job.status /\ job'.binding = job.binding
     \/ job'.version > job.version /\ job'.status # "absent"

LEMMA MovedRow ==
  ASSUME job \in Row, NEW read, NEW target, Permitted(read, target), job' = Moved(target)
  PROVE  Advances /\ target \in JobStatus /\ target # "absent" /\ Moved(target) \in Row
         /\ job'.status = target /\ job'.cur = job.cur
<1>1. target \in JobStatus /\ target # "absent"
  BY JobStatuses DEF Permitted, Row
<1>3. job.version \in Nat
  BY DEF Row
<1>2. /\ Moved(target) \in Row
      /\ Moved(target).status = target /\ Moved(target).version = job.version + 1
      /\ Moved(target).cur = job.cur
  <2>1. Moved(target) = [job EXCEPT !.status = target, !.version = job.version + 1]
    BY DEF Moved
  <2>2. job.version + 1 \in Nat
    BY <1>3
  <2> QED
    BY <1>1, <2>1, <2>2 DEF Row
<1> QED
  BY <1>1, <1>2, <1>3 DEF Advances

LEMMA BoundRow ==
  ASSUME job \in Row, job.status # "absent", NEW n \in Nat, job' = Bound(n)
  PROVE  Advances
<1>2. job.version \in Nat
  BY DEF Row
<1>1. /\ Bound(n) \in Row
      /\ Bound(n).status = job.status /\ Bound(n).version = job.version + 1
  <2>1. Bound(n) = [job EXCEPT !.binding = n, !.version = job.version + 1]
    BY DEF Bound
  <2>2. job.version + 1 \in Nat
    BY <1>2
  <2>3. job.status \in JobStatus
    BY DEF Row
  <2> QED
    BY <2>1, <2>2, <2>3 DEF Row
<1> QED
  BY <1>1, <1>2 DEF Advances

LEMMA SameRow ==
  ASSUME job \in Row, job' = job
  PROVE  Advances
BY DEF Advances
-----------------------------------------------------------------------------
\* What a step of a request does: to the row, to its frame and to the events.
Serves(h, f) ==
  /\ Advances
  /\ f \in TrainingFrame
  /\ api' = [api EXCEPT ![h] = f]
  /\ f.job \in {api[h].job, job', NoJob}
  /\ UNCHANGED ctl
  /\ ingress \subseteq ingress'
  /\ InHand(f) => \/ InHand(api[h]) /\ EventsOf(f) \subseteq EventsOf(api[h])
                  \/ EventsOf(f) \subseteq ingress' \ ingress

LEMMA FinishServes ==
  ASSUME TrainingTypes, NEW h \in Handlers, Finish(h), UNCHANGED <<job, ingress, ctl>>
  PROVE  \E f : Serves(h, f)
<1>1. Serves(h, Idle)
  BY IdleFrame DEF Serves, Finish, ApiEnter, TrainingTypes, RowTypes, FrameTypes, Advances, InHand
<1> QED
  BY <1>1

LEMMA StepServes ==
  ASSUME TrainingTypes, NEW h \in Handlers, NEW label \in JobLabel, ApiStep(h, label),
         InHand(api[h]) \/ label \notin {"append", "apply", "applied"},
         UNCHANGED <<job, ingress, ctl>>
  PROVE  \E f : Serves(h, f)
<1>1. api[h] \in TrainingFrame
  BY DEF TrainingTypes, FrameTypes
<1> DEFINE f == [api[h] EXCEPT !.pc = label]
<1>2. f \in TrainingFrame /\ f.pc = label /\ f.job = api[h].job /\ f.batch = api[h].batch
  BY <1>1 DEF TrainingFrame
<1>3. api' = [api EXCEPT ![h] = f]
  BY DEF ApiStep, ApiEnter
<1> HIDE DEF f
<1>4. Serves(h, f)
  BY <1>2, <1>3 DEF Serves, TrainingTypes, RowTypes, Advances, InHand, EventsOf
<1> QED
  BY <1>4

LEMMA ReadServes ==
  ASSUME TrainingTypes, NEW h \in Handlers,
         NEW label \in JobLabel \ {"append", "apply", "applied"},
         ApiEnter(h, [Idle EXCEPT !.pc = label, !.job = job]), UNCHANGED <<job, ingress, ctl>>
  PROVE  \E f : Serves(h, f)
<1> DEFINE f == [Idle EXCEPT !.pc = label, !.job = job]
<1>2. f \in TrainingFrame /\ f.pc = label /\ f.job = job
  <2>1. Idle \in TrainingFrame /\ job \in Row
    BY IdleFrame DEF TrainingTypes, RowTypes
  <2> QED
    BY <2>1 DEF TrainingFrame
<1>3. api' = [api EXCEPT ![h] = f]
  BY DEF ApiEnter
<1> HIDE DEF f
<1>4. Serves(h, f)
  BY <1>2, <1>3 DEF Serves, TrainingTypes, RowTypes, Advances, InHand
<1> QED
  BY <1>4

LEMMA MoveServes ==
  ASSUME TrainingTypes, NEW h \in Handlers, NEW target, NEW label \in JobLabel,
         TryMove(h, target, label), InHand(api[h]) \/ label \notin {"append", "apply", "applied"},
         UNCHANGED <<ingress, ctl>>
  PROVE  \E f : Serves(h, f)
<1>1. CASE ~Permitted(api[h].job, target)
  BY <1>1, FinishServes DEF TryMove
<1>2. CASE Permitted(api[h].job, target) /\ label = "idle"
  <2>1. job' = Moved(target) /\ api' = [api EXCEPT ![h] = Idle]
    BY <1>2 DEF TryMove, ApiEnter
  <2>2. Advances
    BY <1>2, <2>1, MovedRow DEF TrainingTypes, RowTypes
  <2>3. Serves(h, Idle)
    BY <2>1, <2>2, IdleFrame DEF Serves, InHand
  <2> QED
    BY <2>3
<1>3. CASE Permitted(api[h].job, target) /\ label # "idle"
  <2> DEFINE f == [api[h] EXCEPT !.pc = label, !.job = Moved(target), !.target = target]
  <2>1. job' = Moved(target) /\ api' = [api EXCEPT ![h] = f]
    BY <1>3 DEF TryMove, ApiEnter
  <2>2. Advances /\ target \in JobStatus /\ Moved(target) \in Row
    BY <1>3, <2>1, MovedRow DEF TrainingTypes, RowTypes
  <2>3. /\ f \in TrainingFrame /\ f.pc = label /\ f.job = Moved(target)
        /\ f.batch = api[h].batch
    <3>1. api[h] \in TrainingFrame
      BY DEF TrainingTypes, FrameTypes
    <3> QED
      BY <2>2, <3>1 DEF TrainingFrame
  <2> HIDE DEF f
  <2>4. Serves(h, f)
    BY <2>1, <2>2, <2>3 DEF Serves, InHand, EventsOf
  <2> QED
    BY <2>4
<1> QED
  BY <1>1, <1>2, <1>3

LEMMA AttemptCreated ==
  ASSUME TrainingTypes, CreateAttempt
  PROVE  Advances /\ NextAttempt \in Nat /\ attempts' \in Seq(JobStatus)
<1>1. Len(attempts) \in Nat /\ job \in Row
  BY DEF TrainingTypes, RowTypes
<1>2. NextAttempt \in Nat
  BY <1>1 DEF NextAttempt
<1>3. job' = [job EXCEPT !.cur = NextAttempt]
  BY DEF CreateAttempt
<1>4. Advances
  BY <1>1, <1>2, <1>3 DEF Row, Advances
<1>5. attempts' \in Seq(JobStatus)
  BY JobStatuses DEF CreateAttempt, TrainingTypes, RowTypes
<1> QED
  BY <1>2, <1>4, <1>5

LEMMA AttemptUpdated ==
  ASSUME TrainingTypes, NEW a, NEW target \in JobStatus, UpdateAttemptStatus(a, target)
  PROVE  attempts' \in Seq(JobStatus)
<1>1. attempts \in Seq(JobStatus)
  BY DEF TrainingTypes, RowTypes
<1>2. CASE a = 0
  BY <1>1, <1>2 DEF UpdateAttemptStatus
<1>3. CASE a # 0
  <2>1. attempts' = [attempts EXCEPT ![a] = target]
    BY <1>3 DEF UpdateAttemptStatus
  <2>2. CASE a \in 1 .. Len(attempts)
    BY <1>1, <2>1, <2>2, ExceptSeq
  <2>3. CASE a \notin 1 .. Len(attempts)
    <3>1. DOMAIN attempts = 1 .. Len(attempts) /\ attempts = [i \in DOMAIN attempts |-> attempts[i]]
      BY <1>1
    <3>2. attempts' = attempts
      BY <2>1, <2>3, <3>1
    <3> QED
      BY <1>1, <3>2
  <2> QED
    BY <2>2, <2>3
<1> QED
  BY <1>2, <1>3

\* A step of a request.
LEMMA HandlerServes ==
  ASSUME VersionInv, HandInv, NEW h \in Handlers,
         Request(h) \/ Serve(h) \/ CrashHandler(h) \/ RedisRaises(h)
  PROVE  \E f : Serves(h, f)
<1>1. TrainingTypes /\ api[h] \in TrainingFrame /\ job \in Row
  BY DEF VersionInv, TrainingTypes, FrameTypes, RowTypes
<1>2. \A l \in {"idle", "insert", "queue", "cancel", "mark", "resume", "claim", "attempt", "run",
          "started", "allocate", "append", "apply", "applied"} : l \in JobLabel
  BY DEF JobLabel
<1>3. CASE BeginCreate(h)
  BY <1>1, <1>2, <1>3, StepServes DEF BeginCreate, storeVars
<1>4. CASE InsertJob(h)
  <2>1. CASE job.status = "absent"
    <3> DEFINE f == [api[h] EXCEPT !.pc = "queue", !.job = job']
    <3>1. job' = [NoJob EXCEPT !.status = "validating", !.version = 1] /\ api' = [api EXCEPT ![h] = f]
      BY <1>4, <2>1 DEF InsertJob, ApiEnter
    <3>2. job' \in Row /\ job'.version = 1 /\ job'.status = "validating"
      BY <3>1, JobStatuses DEF Row, NoJob
    <3>3. Advances
      BY <2>1, <3>2 DEF Advances, VersionInv, AbsentIsFirst
    <3>4. f \in TrainingFrame /\ f.pc = "queue" /\ f.job = job'
      BY <1>1, <1>2, <3>2 DEF TrainingFrame
    <3> HIDE DEF f
    <3>5. Serves(h, f)
      BY <1>4, <3>1, <3>3, <3>4 DEF Serves, InsertJob, InHand
    <3> QED
      BY <3>5
  <2>2. CASE job.status # "absent"
    BY <1>1, <1>4, <2>2, FinishServes DEF InsertJob
  <2> QED
    BY <2>1, <2>2
<1>5. CASE QueueJob(h)
  BY <1>1, <1>2, <1>5, MoveServes DEF QueueJob
<1>6. CASE BeginCancel(h)
  BY <1>1, <1>2, <1>6, ReadServes DEF BeginCancel, storeVars
<1>7. CASE CancelRequested(h)
  <2>1. CASE Permitted(api[h].job, "cancelled")
    <3> DEFINE f == [api[h] EXCEPT !.pc = "mark", !.target = "cancelled"]
    <3>1. job' = Moved("cancelled") /\ api' = [api EXCEPT ![h] = f]
      BY <1>7, <2>1 DEF CancelRequested, ApiEnter
    <3>2. Advances /\ "cancelled" \in JobStatus
      BY <1>1, <2>1, <3>1, MovedRow
    <3>3. f \in TrainingFrame /\ f.pc = "mark" /\ f.job = api[h].job
      BY <1>1, <1>2, <3>2 DEF TrainingFrame
    <3> HIDE DEF f
    <3>4. Serves(h, f)
      BY <1>7, <3>1, <3>2, <3>3 DEF Serves, CancelRequested, InHand
    <3> QED
      BY <3>4
  <2>2. CASE ~Permitted(api[h].job, "cancelled")
    BY <1>1, <1>7, <2>2, FinishServes DEF CancelRequested
  <2> QED
    BY <2>1, <2>2
<1>8. CASE BeginResume(h)
  BY <1>1, <1>2, <1>8, ReadServes DEF BeginResume, storeVars
<1>9. CASE Resume(h)
  BY <1>1, <1>2, <1>9, MoveServes DEF Resume
<1>10. CASE BeginClaim(h)
  BY <1>1, <1>2, <1>10, ReadServes DEF BeginClaim, storeVars
<1>11. CASE ClaimProvision(h)
  BY <1>1, <1>2, <1>11, MoveServes DEF ClaimProvision
<1>12. CASE ClaimAttempt(h)
  <2> DEFINE f == [api[h] EXCEPT !.pc = "run", !.batch.attempt = NextAttempt]
  <2>1. api' = [api EXCEPT ![h] = f]
    BY <1>12 DEF ClaimAttempt, ApiEnter
  <2>2. Advances /\ NextAttempt \in Nat
    BY <1>1, <1>12, AttemptCreated DEF ClaimAttempt
  <2>3. f \in TrainingFrame /\ f.pc = "run" /\ f.job = api[h].job
    BY <1>1, <1>2, <2>2 DEF TrainingFrame, TrainingBatch
  <2> HIDE DEF f
  <2>4. Serves(h, f)
    BY <1>12, <2>1, <2>2, <2>3 DEF Serves, ClaimAttempt, InHand
  <2> QED
    BY <2>4
<1>13. CASE ClaimRun(h)
  BY <1>1, <1>2, <1>13, MoveServes DEF ClaimRun
<1>14. CASE ClaimStarted(h)
  BY <1>1, <1>14, FinishServes DEF ClaimStarted
<1>15. CASE BeginIngest(h)
  <2>1. PICK a \in 1 .. Len(attempts) : \E i \in 1 .. Len(emitted[a]) : \E j \in i .. Len(emitted[a]) :
          ApiEnter(h, [Idle EXCEPT !.pc = "allocate", !.job = job,
                                   !.batch = [attempt |-> a, events |-> i .. j]])
    BY <1>15 DEF BeginIngest
  <2>6. PICK i \in 1 .. Len(emitted[a]) : \E j \in i .. Len(emitted[a]) :
          ApiEnter(h, [Idle EXCEPT !.pc = "allocate", !.job = job,
                                   !.batch = [attempt |-> a, events |-> i .. j]])
    BY <2>1
  <2>7. PICK j \in i .. Len(emitted[a]) :
          ApiEnter(h, [Idle EXCEPT !.pc = "allocate", !.job = job,
                                   !.batch = [attempt |-> a, events |-> i .. j]])
    BY <2>6
  <2> DEFINE f == [Idle EXCEPT !.pc = "allocate", !.job = job,
                               !.batch = [attempt |-> a, events |-> i .. j]]
  <2>2. api' = [api EXCEPT ![h] = f]
    BY <2>7 DEF ApiEnter
  <2>3. [attempt |-> a, events |-> i .. j] \in TrainingBatch
    <3>1. i .. j \in SUBSET Nat
      OBVIOUS
    <3> QED
      BY <3>1 DEF TrainingBatch
  <2>4. f \in TrainingFrame /\ f.pc = "allocate" /\ f.job = job
    BY <1>1, <1>2, <2>3, IdleFrame DEF TrainingFrame
  <2> HIDE DEF f
  <2>5. Serves(h, f)
    BY <1>1, <1>15, <2>2, <2>4 DEF Serves, BeginIngest, InHand, Advances, storeVars
  <2> QED
    BY <2>5
<1>16. CASE AllocateEventSequences(h)
  <2>1. CASE NewEvents(api[h].batch) = {}
    <3>1. Finish(h) /\ UNCHANGED <<job, ctl>> /\ ingress' = ingress
      BY <1>16, <2>1 DEF AllocateEventSequences
    <3> QED
      BY <1>1, <3>1, FinishServes
  <2>2. CASE NewEvents(api[h].batch) # {}
    <3> DEFINE b == api[h].batch
               f == [api[h] EXCEPT !.pc = "append", !.batch.events = NewEvents(b)]
    <3>1. /\ api' = [api EXCEPT ![h] = f]
          /\ ingress' = ingress \union ({b.attempt} \X NewEvents(b))
      BY <1>16, <2>2 DEF AllocateEventSequences, ApiEnter
    <3>2. NewEvents(b) \in SUBSET Nat
      BY <1>1 DEF NewEvents, TrainingFrame, TrainingBatch
    <3>3. /\ f \in TrainingFrame /\ f.pc = "append" /\ f.job = api[h].job
          /\ f.batch.attempt = b.attempt /\ f.batch.events = NewEvents(b)
      BY <1>1, <1>2, <3>2 DEF TrainingFrame, TrainingBatch
    <3> HIDE DEF f
    <3>4. EventsOf(f) \subseteq ingress' \ ingress
      BY <3>1, <3>3 DEF EventsOf, NewEvents
    <3>5. Serves(h, f)
      BY <1>1, <1>16, <3>1, <3>3, <3>4 DEF Serves, AllocateEventSequences, Advances
    <3> QED
      BY <3>5
  <2> QED
    BY <2>1, <2>2
<1>17. CASE AppendEvents(h)
  <2>1. UNCHANGED <<job, ingress, ctl>>
    BY <1>17 DEF AppendEvents, storeVars
  <2>2. CASE ApiStep(h, "apply")
    BY <1>1, <1>2, <1>17, <2>1, <2>2, StepServes DEF AppendEvents, ApiAt, InHand
  <2>3. CASE Finish(h)
    BY <1>1, <2>1, <2>3, FinishServes
  <2> QED
    BY <1>17, <2>2, <2>3 DEF AppendEvents
<1>18. CASE ApplyEvent(h)
  <2>1. InHand(api[h]) /\ UNCHANGED <<ingress, ctl>>
    BY <1>18 DEF ApplyEvent, ApiAt, InHand
  <2>2. CASE UNCHANGED job /\ Finish(h)
    BY <1>1, <2>1, <2>2, FinishServes
  <2>3. CASE UNCHANGED job /\ ApiEnter(h, [api[h] EXCEPT !.batch = Rest(api[h].batch)])
    <3> DEFINE f == [api[h] EXCEPT !.batch = Rest(api[h].batch)]
    <3>1. api' = [api EXCEPT ![h] = f]
      BY <2>3 DEF ApiEnter
    <3>2. api[h].batch \in TrainingBatch
      BY <1>1 DEF TrainingFrame
    <3>3. /\ f \in TrainingFrame /\ f.pc = api[h].pc /\ f.job = api[h].job
          /\ f.batch = Rest(api[h].batch)
      BY <1>1, <3>2, RestIsLess DEF TrainingFrame
    <3> HIDE DEF f
    <3>4. Serves(h, f)
      BY <1>1, <2>1, <2>3, <3>1, <3>2, <3>3, RestIsLess DEF Serves, InHand, EventsOf, Advances
    <3> QED
      BY <3>4
  <2>4. CASE \E target : TryMove(h, target, "applied")
    BY <1>1, <1>2, <2>1, <2>4, MoveServes
  <2> QED
    BY <1>18, <2>2, <2>3, <2>4 DEF ApplyEvent
<1>19. CASE MarkEventAttempt(h)
  <2> DEFINE f == [api[h] EXCEPT !.pc = "apply", !.batch = Rest(api[h].batch)]
  <2>1. api' = [api EXCEPT ![h] = f]
    BY <1>19 DEF MarkEventAttempt, ApiEnter
  <2>2. api[h].batch \in TrainingBatch /\ InHand(api[h])
    BY <1>1, <1>19 DEF TrainingFrame, MarkEventAttempt, ApiAt, InHand
  <2>3. /\ f \in TrainingFrame /\ f.pc = "apply" /\ f.job = api[h].job
        /\ f.batch = Rest(api[h].batch)
    BY <1>1, <1>2, <2>2, RestIsLess DEF TrainingFrame
  <2> HIDE DEF f
  <2>4. Serves(h, f)
    BY <1>1, <1>19, <2>1, <2>2, <2>3, RestIsLess
    DEF Serves, InHand, EventsOf, Advances, MarkEventAttempt
  <2> QED
    BY <2>4
<1>20. CASE MarkCancelled(h)
  BY <1>1, <1>20, FinishServes DEF MarkCancelled
<1>21. CASE CrashHandler(h) \/ RedisRaises(h)
  BY <1>1, <1>21, FinishServes DEF CrashHandler, RedisRaises, storeVars
<1> QED
  BY <1>3, <1>4, <1>5, <1>6, <1>7, <1>8, <1>9, <1>10, <1>11, <1>12, <1>13, <1>14, <1>15, <1>16,
     <1>17, <1>18, <1>19, <1>20, <1>21 DEF Request, Serve

-----------------------------------------------------------------------------
\* What a step of the controller does: to the row and to its frame.
Follows(f) ==
  /\ Advances
  /\ f \in TrainingFrame
  /\ ctl' = f
  /\ f.job \in {ctl.job, job', NoJob}
  /\ f.pc # "idle" => f.job.version > 0
  /\ UNCHANGED <<api, ingress>>

LEMMA StepFollows ==
  ASSUME VersionInv, ctl.pc # "idle", NEW label \in JobLabel, CtlStep(label),
         UNCHANGED <<job, api, ingress>>
  PROVE  \E f : Follows(f)
<1>1. ctl \in TrainingFrame /\ Advances /\ ctl.job.version > 0
  BY DEF VersionInv, TrainingTypes, FrameTypes, RowTypes, Advances, CtlReadARow
<1>2. CASE label = "idle"
  <2>1. Follows(Idle)
    BY <1>1, <1>2, IdleFrame DEF Follows, CtlStep
  <2> QED
    BY <2>1
<1>3. CASE label # "idle"
  <2> DEFINE f == [ctl EXCEPT !.pc = label]
  <2>1. ctl' = f
    BY <1>3 DEF CtlStep
  <2>2. f \in TrainingFrame /\ f.job = ctl.job
    BY <1>1 DEF TrainingFrame
  <2> HIDE DEF f
  <2>3. Follows(f)
    BY <1>1, <2>1, <2>2 DEF Follows
  <2> QED
    BY <2>3
<1> QED
  BY <1>2, <1>3

LEMMA CtlMoveFollows ==
  ASSUME VersionInv, ctl.pc # "idle", NEW target, NEW label \in JobLabel,
         NEW conflict \in JobLabel, CtlMove(target, label, conflict), UNCHANGED <<api, ingress>>
  PROVE  \E f : Follows(f)
<1>1. ctl \in TrainingFrame /\ job \in Row
  BY DEF VersionInv, TrainingTypes, FrameTypes, RowTypes
<1>2. CASE ~Permitted(ctl.job, target)
  BY <1>2, StepFollows DEF CtlMove
<1>3. CASE Permitted(ctl.job, target)
  <2>1. job' = Moved(target)
    BY <1>3 DEF CtlMove
  <2>2. Advances /\ target \in JobStatus /\ Moved(target) \in Row
    BY <1>1, <1>3, <2>1, MovedRow
  <2>3. Moved(target).version > 0
    BY <1>1 DEF Moved, Row
  <2>4. CASE label = "idle"
    <3>1. ctl' = Idle
      BY <1>3, <2>4 DEF CtlMove
    <3>2. Follows(Idle)
      BY <2>2, <3>1, IdleFrame DEF Follows
    <3> QED
      BY <3>2
  <2>5. CASE label # "idle"
    <3> DEFINE f == [ctl EXCEPT !.pc = label, !.job = Moved(target), !.target = target]
    <3>1. ctl' = f
      BY <1>3, <2>5 DEF CtlMove
    <3>2. f \in TrainingFrame /\ f.job = Moved(target)
      BY <1>1, <2>2 DEF TrainingFrame
    <3> HIDE DEF f
    <3>3. Follows(f)
      BY <2>1, <2>2, <2>3, <3>1, <3>2 DEF Follows
    <3> QED
      BY <3>3
  <2> QED
    BY <2>4, <2>5
<1> QED
  BY <1>2, <1>3

\* The binding is written at the version the controller read.
LEMMA BindFollows ==
  ASSUME VersionInv, ctl.pc # "idle", job.version = ctl.job.version, NEW n \in Nat, NEW f,
         job' = Bound(n), ctl' = f, f \in TrainingFrame, f.job = job' \/ f = Idle,
         UNCHANGED <<api, ingress>>
  PROVE  Follows(f)
<1>1. job \in Row /\ job.status # "absent"
  BY DEF VersionInv, TrainingTypes, RowTypes, CtlReadARow, AbsentIsFirst
<1>2. Advances
  BY <1>1, BoundRow
<1>3. job'.version > 0
  BY <1>1 DEF Bound, Row
<1> QED
  BY <1>2, <1>3, IdleFrame DEF Follows

LEMMA ReadFollows ==
  ASSUME VersionInv, job.version > 0, NEW f, f \in TrainingFrame, ctl' = f, f.job = job,
         UNCHANGED <<job, api, ingress>>
  PROVE  Follows(f)
BY DEF VersionInv, TrainingTypes, RowTypes, Advances, Follows

LEMMA AimFollows ==
  ASSUME VersionInv, ctl.pc # "idle", NEW f, f \in TrainingFrame, ctl' = f, f.job = ctl.job,
         Advances, UNCHANGED <<api, ingress>>
  PROVE  Follows(f)
BY DEF VersionInv, CtlReadARow, Follows

LEMMA ControllerFollows ==
  ASSUME VersionInv, Reconcile \/ RotateCredentials \/ SchedulerRaises \/ CrashController
  PROVE  \E f : Follows(f)
<1>1. /\ ctl \in TrainingFrame /\ job \in Row /\ ctl.job \in Row /\ ctl.target \in JobStatus
      /\ ctl.batch.attempt \in Nat /\ ctl.job.binding \in Nat
  BY DEF VersionInv, TrainingTypes, FrameTypes, RowTypes, TrainingFrame, TrainingBatch, Row
<1>2. \A l \in {"idle", "mark", "attempt", "validate", "provision", "submit", "bind", "block",
               "blocking", "status", "move", "markRetry", "retryBinding", "requeue", "fail",
               "failing"} : l \in JobLabel
  BY DEF JobLabel
<1>3. job.status # "absent" <=> job.version > 0
  BY <1>1 DEF VersionInv, AbsentIsFirst, Row
<1>4. ctl.pc # "idle" => job.version > 0
  BY <1>1 DEF VersionInv, CtlReadARow, EveryReadIsARead, Reads, Row
<1>5. job' = job => Advances
  BY <1>1 DEF Advances
<1>a. CASE ListJobs
  <2>1. UNCHANGED <<job, api, ingress>> /\ job.version > 0
    BY <1>3, <1>a DEF ListJobs, storeVars
  <2>2. PICK label \in {"validate", "status"} : ctl' = [Idle EXCEPT !.pc = label, !.job = job]
    BY <1>a DEF ListJobs
  <2> DEFINE f == [Idle EXCEPT !.pc = label, !.job = job]
  <2>3. f \in TrainingFrame /\ f.job = job
    BY <1>1, <1>2, IdleFrame DEF TrainingFrame
  <2> HIDE DEF f
  <2> QED
    BY <2>1, <2>2, <2>3, ReadFollows DEF f
<1>b. CASE Validate
  BY <1>2, <1>b, StepFollows DEF Validate, CtlAt, storeVars
<1>c. CASE Provision
  BY <1>2, <1>c, CtlMoveFollows DEF Provision, CtlAt
<1>d. CASE ProvisionAttempt
  <2> DEFINE f == [ctl EXCEPT !.pc = "submit", !.batch.attempt = NextAttempt]
  <2>1. ctl' = f /\ ctl.pc # "idle" /\ UNCHANGED <<api, ingress>>
    BY <1>d DEF ProvisionAttempt, CtlAt
  <2>2. Advances /\ NextAttempt \in Nat
    BY <1>d, AttemptCreated DEF ProvisionAttempt, VersionInv
  <2>3. f \in TrainingFrame /\ f.job = ctl.job
    BY <1>1, <1>2, <2>2 DEF TrainingFrame, TrainingBatch
  <2> HIDE DEF f
  <2> QED
    BY <2>1, <2>2, <2>3, AimFollows
<1>e. CASE SubmitAttempt
  BY <1>2, <1>e, StepFollows DEF SubmitAttempt, CtlAt, storeVars
<1>f. CASE UpdateBinding
  <2>1. ctl.pc # "idle" /\ UNCHANGED <<api, ingress>>
    BY <1>f DEF UpdateBinding, CtlAt
  <2>2. CASE job.version = ctl.job.version
    BY <1>1, <1>f, <2>1, <2>2, BindFollows, IdleFrame DEF UpdateBinding
  <2>3. CASE job.version # ctl.job.version
    BY <1>2, <1>f, <2>1, <2>3, StepFollows DEF UpdateBinding
  <2> QED
    BY <2>2, <2>3
<1>g. CASE ReadToBlock
  <2>1. PICK label \in {"blocking", "fail"} : ctl' = [ctl EXCEPT !.job = job, !.pc = label]
    BY <1>g DEF ReadToBlock
  <2> DEFINE f == [ctl EXCEPT !.job = job, !.pc = label]
  <2>2. f \in TrainingFrame /\ f.job = job
    BY <1>1, <1>2 DEF TrainingFrame
  <2>3. UNCHANGED <<job, api, ingress>> /\ job.version > 0
    BY <1>4, <1>g DEF ReadToBlock, storeVars, CtlAt
  <2> HIDE DEF f
  <2> QED
    BY <2>1, <2>2, <2>3, ReadFollows DEF f
<1>h. CASE Block
  BY <1>2, <1>h, CtlMoveFollows DEF Block, CtlAt
<1>i. CASE PollStatus
  <2>1. UNCHANGED <<job, api, ingress>> /\ ctl.pc # "idle"
    BY <1>i DEF PollStatus, storeVars, CtlAt
  <2>2. CASE ctl' = Idle
    BY <1>2, <2>1, <2>2, StepFollows DEF CtlStep
  <2>3. CASE /\ RuntimeTarget(cluster[ctl.job.binding]) \in AllowedTransitions[ctl.job.status]
             /\ ctl' = [ctl EXCEPT !.pc = "move", !.target = RuntimeTarget(cluster[ctl.job.binding])]
    <3> DEFINE target == RuntimeTarget(cluster[ctl.job.binding])
               f == [ctl EXCEPT !.pc = "move", !.target = target]
    <3>1. target \in JobStatus
      BY <1>1, <2>3, JobStatuses DEF Row
    <3> HIDE DEF target
    <3>2. f \in TrainingFrame /\ f.job = ctl.job
      BY <1>1, <1>2, <3>1 DEF TrainingFrame
    <3> HIDE DEF f
    <3>3. ctl' = f
      BY <2>3 DEF f, target
    <3> QED
      BY <1>5, <2>1, <3>2, <3>3, AimFollows
  <2> QED
    BY <1>i, <2>2, <2>3 DEF PollStatus
<1>j. CASE FollowScheduler
  BY <1>2, <1>j, CtlMoveFollows DEF FollowScheduler, CtlAt
<1>k. CASE MarkAttempt \/ CrashController
  BY <1>2, <1>k, StepFollows DEF MarkAttempt, CrashController, storeVars, CtlAt, CtlStep
<1>l. CASE MarkFailedAttempt
  <2>1. ctl.pc # "idle" /\ UNCHANGED <<job, api, ingress>>
    BY <1>l DEF MarkFailedAttempt, CtlAt
  <2>2. CtlStep("retryBinding") \/ CtlStep("idle")
    BY <1>l DEF MarkFailedAttempt, CtlStep
  <2> QED
    BY <1>2, <2>1, <2>2, StepFollows
<1>m. CASE RetryBinding
  <2>1. ctl.pc # "idle" /\ UNCHANGED <<api, ingress>>
    BY <1>m DEF RetryBinding, CtlAt
  <2>2. CASE job.version = ctl.job.version
    <3> DEFINE f == [ctl EXCEPT !.pc = "requeue", !.job = job']
    <3>1. job' = Bound(ctl.job.binding) /\ ctl' = f
      BY <1>m, <2>2 DEF RetryBinding
    <3>2. job' \in Row
      BY <1>1, <1>3, <1>4, <2>1, <3>1, BoundRow DEF Advances
    <3>3. f \in TrainingFrame /\ f.job = job'
      BY <1>1, <1>2, <3>2 DEF TrainingFrame
    <3> HIDE DEF f
    <3> QED
      BY <1>1, <2>1, <2>2, <3>1, <3>3, BindFollows
  <2>3. CASE job.version # ctl.job.version
    BY <1>2, <1>m, <2>1, <2>3, StepFollows DEF RetryBinding
  <2> QED
    BY <2>2, <2>3
<1>n. CASE Requeue
  BY <1>2, <1>n, CtlMoveFollows DEF Requeue, CtlAt
<1>o. CASE ReadToFail
  <2>1. UNCHANGED <<job, api, ingress>> /\ ctl.pc # "idle" /\ job.version > 0
    BY <1>4, <1>o DEF ReadToFail, storeVars, CtlAt
  <2>2. CASE ctl' = Idle
    BY <1>2, <2>1, <2>2, StepFollows DEF CtlStep
  <2>3. CASE ctl' = [ctl EXCEPT !.pc = "failing", !.job = job]
    <3> DEFINE f == [ctl EXCEPT !.pc = "failing", !.job = job]
    <3>1. f \in TrainingFrame /\ f.job = job
      BY <1>1, <1>2 DEF TrainingFrame
    <3> HIDE DEF f
    <3> QED
      BY <2>1, <2>3, <3>1, ReadFollows DEF f
  <2> QED
    BY <1>o, <2>2, <2>3 DEF ReadToFail
<1>p. CASE FailJob
  BY <1>2, <1>p, CtlMoveFollows DEF FailJob, CtlAt
<1>q. CASE RotateCredentials
  <2>1. ctl.pc # "idle" /\ UNCHANGED <<api, ingress>>
    BY <1>q DEF RotateCredentials, CtlAt
  <2>2. CASE job.version = ctl.job.version
    <3> DEFINE f == [ctl EXCEPT !.job = job']
    <3>1. job' = Bound(ctl.job.binding) /\ ctl' = f
      BY <1>q, <2>2 DEF RotateCredentials
    <3>2. job' \in Row
      BY <1>1, <1>3, <1>4, <2>1, <3>1, BoundRow DEF Advances
    <3>3. f \in TrainingFrame /\ f.job = job'
      BY <1>1, <1>2, <3>2 DEF TrainingFrame
    <3> HIDE DEF f
    <3> QED
      BY <1>1, <2>1, <2>2, <3>1, <3>3, BindFollows
  <2>3. CASE job.version # ctl.job.version
    BY <1>2, <1>q, <2>1, <2>3, StepFollows DEF RotateCredentials
  <2> QED
    BY <2>2, <2>3
<1>r. CASE SchedulerRaises
  BY <1>2, <1>r, StepFollows DEF SchedulerRaises, CtlAt, storeVars
<1> QED
  BY <1>a, <1>b, <1>c, <1>d, <1>e, <1>f, <1>g, <1>h, <1>i, <1>j, <1>k, <1>l, <1>m, <1>n, <1>o,
     <1>p, <1>q, <1>r DEF Reconcile

-----------------------------------------------------------------------------
LEMMA AttemptsTyped ==
  ASSUME TrainingTypes, [TrainingNext]_trainingVars
  PROVE  attempts' \in Seq(JobStatus)
<1>1. CASE attempts' = attempts
  BY <1>1 DEF TrainingTypes, RowTypes
<1>2. CASE CreateAttempt
  BY <1>2, AttemptCreated
<1>3. CASE \E a : \E target \in JobStatus : UpdateAttemptStatus(a, target)
  BY <1>3, AttemptUpdated
<1>4. \A h \in Handlers : api[h].target \in JobStatus
  BY DEF TrainingTypes, FrameTypes, TrainingFrame
<1>5. ctl.target \in JobStatus /\ "running" \in JobStatus /\ "failed" \in JobStatus
  BY JobStatuses DEF TrainingTypes, FrameTypes, TrainingFrame
<1>6. CASE RegisterPromoted \/ World \/ UNCHANGED trainingVars
  BY <1>1, <1>6 DEF RegisterPromoted, World, WorkerStarts, WorkerEnds,
    SchedulerCancels, WorkerEmits, storeVars, trainingVars
<1>7. ASSUME NEW h \in Handlers, Request(h) \/ CrashHandler(h) \/ RedisRaises(h)
      PROVE  attempts' = attempts
  BY <1>7 DEF Request, BeginCreate, BeginCancel, BeginResume, BeginClaim, BeginIngest, CrashHandler,
    RedisRaises, storeVars
<1>8. ASSUME NEW h \in Handlers, Serve(h)
      PROVE  \/ attempts' = attempts \/ CreateAttempt
             \/ \E a : \E target \in JobStatus : UpdateAttemptStatus(a, target)
  <2>1. CASE ClaimAttempt(h)
    BY <2>1 DEF ClaimAttempt
  <2>2. CASE ClaimStarted(h) \/ MarkEventAttempt(h) \/ MarkCancelled(h)
    BY <1>4, <1>5, <2>2 DEF ClaimStarted, MarkEventAttempt, MarkCancelled
  <2>3. CASE \/ InsertJob(h) \/ QueueJob(h) \/ CancelRequested(h) \/ Resume(h)
             \/ ClaimProvision(h) \/ ClaimRun(h) \/ AllocateEventSequences(h)
             \/ AppendEvents(h) \/ ApplyEvent(h)
    BY <2>3 DEF InsertJob, QueueJob, CancelRequested, Resume, ClaimProvision, ClaimRun,
      AllocateEventSequences, AppendEvents, ApplyEvent, storeVars
  <2> QED
    BY <1>8, <2>1, <2>2, <2>3 DEF Serve
<1>9. CASE Reconcile \/ RotateCredentials \/ SchedulerRaises \/ CrashController
  <2>1. CASE ProvisionAttempt
    BY <1>2, <2>1 DEF ProvisionAttempt
  <2>2. CASE MarkAttempt \/ MarkFailedAttempt
    BY <1>3, <1>5, <2>2 DEF MarkAttempt, MarkFailedAttempt
  <2>3. CASE \/ ListJobs \/ Validate \/ Provision \/ SubmitAttempt \/ UpdateBinding
             \/ ReadToBlock \/ Block \/ PollStatus \/ FollowScheduler \/ RetryBinding
             \/ Requeue \/ ReadToFail \/ FailJob \/ RotateCredentials \/ SchedulerRaises
             \/ CrashController
    BY <1>1, <2>3 DEF ListJobs, Validate, Provision, SubmitAttempt, UpdateBinding, ReadToBlock,
      Block, PollStatus, FollowScheduler, RetryBinding, Requeue, ReadToFail, FailJob,
      RotateCredentials, SchedulerRaises, CrashController, storeVars
  <2> QED
    BY <1>9, <2>1, <2>2, <2>3 DEF Reconcile
<1> QED
  BY <1>1, <1>2, <1>3, <1>6, <1>7, <1>8, <1>9 DEF TrainingNext

LEMMA ReadsAdvance ==
  ASSUME job \in Row, AbsentIsFirst, Advances, NEW row \in Row, Reads(row)
  PROVE  Reads(row)'
BY DEF Reads, Advances, Row

LEMMA FreshReads ==
  ASSUME job \in Row, AbsentIsFirst, Advances
  PROVE  AbsentIsFirst' /\ Reads(job)' /\ Reads(NoJob)'
<1>1. AbsentIsFirst'
  BY DEF AbsentIsFirst, Advances, Row
<1>2. Reads(job)'
  BY DEF Reads, Advances, Row
<1>3. Reads(NoJob)'
  BY <1>1, IdleFrame DEF Reads, Advances, Row, AbsentIsFirst
<1> QED
  BY <1>1, <1>2, <1>3

LEMMA HandlerKeeps ==
  ASSUME VersionInv, HandInv, NEW h \in Handlers, NEW f, Serves(h, f), attempts' \in Seq(JobStatus)
  PROVE  VersionInv' /\ HandInv'
<1>1. /\ api \in [Handlers -> TrainingFrame] /\ ctl \in TrainingFrame /\ job \in Row
      /\ f \in TrainingFrame /\ AbsentIsFirst
  BY DEF VersionInv, TrainingTypes, FrameTypes, RowTypes, Serves
<1>2. api'[h] = f /\ \A g \in Handlers \ {h} : api'[g] = api[g]
  BY <1>1 DEF Serves
<1>3. TrainingTypes'
  <2>1. api' \in [Handlers -> TrainingFrame] /\ ctl' \in TrainingFrame
    BY <1>1 DEF Serves
  <2>2. job' \in Row
    BY DEF Serves, Advances
  <2> QED
    BY <2>1, <2>2 DEF TrainingTypes, RowTypes, FrameTypes
<1>4. AbsentIsFirst' /\ Reads(job)' /\ Reads(NoJob)'
  BY <1>1, FreshReads DEF Serves
<1>5. EveryReadIsARead'
  <2>1. \A row \in Row : Reads(row) => Reads(row)'
    BY <1>1, ReadsAdvance DEF Serves
  <2>2. ctl.job \in Row /\ (\A g \in Handlers : api[g].job \in Row) /\ f.job \in Row
    BY <1>1 DEF TrainingFrame
  <2>3. Reads(ctl.job)' 
    <3>1. ctl' = ctl /\ Reads(ctl.job)
      BY DEF Serves, VersionInv, EveryReadIsARead
    <3> QED
      BY <2>1, <2>2, <3>1 DEF Reads
  <2>4. ASSUME NEW g \in Handlers PROVE Reads(api[g].job)'
    <3>1. Reads(api[g].job)
      BY DEF VersionInv, EveryReadIsARead
    <3>2. CASE api'[g].job = api[g].job
      BY <2>1, <2>2, <3>1, <3>2 DEF Reads
    <3>3. CASE api'[g].job = job' \/ api'[g].job = NoJob
      BY <1>4, <3>3 DEF Reads
    <3> QED
      BY <1>2, <3>2, <3>3 DEF Serves
  <2> QED
    BY <2>3, <2>4 DEF EveryReadIsARead
<1>6. CtlReadARow'
  BY DEF Serves, VersionInv, CtlReadARow
<1>7. EventsAreSequenced'
  <2>1. ASSUME NEW g \in Handlers, InHand(api'[g]) PROVE EventsOf(api'[g]) \subseteq ingress'
    <3>1. CASE g = h
      BY <1>2, <2>1, <3>1 DEF Serves, HandInv, EventsAreSequenced
    <3>2. CASE g # h
      BY <1>2, <2>1, <3>2 DEF Serves, HandInv, EventsAreSequenced
    <3> QED
      BY <3>1, <3>2
  <2> QED
    BY <2>1 DEF EventsAreSequenced, InHand, EventsOf
<1>8. HandsDiffer'
  <2>1. ASSUME NEW g \in Handlers \ {h}, InHand(api[g]), InHand(f)
        PROVE  EventsOf(api[g]) \intersect EventsOf(f) = {}
    <3>1. EventsOf(api[g]) \subseteq ingress
      BY <2>1 DEF HandInv, EventsAreSequenced
    <3>2. CASE EventsOf(f) \subseteq ingress' \ ingress
      BY <3>1, <3>2
    <3>3. CASE InHand(api[h]) /\ EventsOf(f) \subseteq EventsOf(api[h])
      <4>1. EventsOf(api[g]) \intersect EventsOf(api[h]) = {}
        BY <2>1, <3>3 DEF HandInv, HandsDiffer
      <4> QED
        BY <3>3, <4>1
    <3> QED
      BY <2>1, <3>2, <3>3 DEF Serves
  <2>2. ASSUME NEW g \in Handlers, NEW k \in Handlers, g # k, InHand(api'[g]), InHand(api'[k])
        PROVE  EventsOf(api'[g]) \intersect EventsOf(api'[k]) = {}
    <3>1. CASE g = h
      BY <1>2, <2>1, <2>2, <3>1
    <3>2. CASE k = h
      BY <1>2, <2>1, <2>2, <3>2
    <3>3. CASE g # h /\ k # h
      BY <1>2, <2>2, <3>3 DEF HandInv, HandsDiffer
    <3> QED
      BY <3>1, <3>2, <3>3
  <2> QED
    BY <2>2 DEF HandsDiffer, InHand, EventsOf
<1> QED
  BY <1>3, <1>4, <1>5, <1>6, <1>7, <1>8 DEF VersionInv, HandInv

LEMMA ControllerKeeps ==
  ASSUME VersionInv, HandInv, NEW f, Follows(f), attempts' \in Seq(JobStatus)
  PROVE  VersionInv' /\ HandInv'
<1>1. /\ api \in [Handlers -> TrainingFrame] /\ ctl \in TrainingFrame /\ job \in Row
      /\ f \in TrainingFrame /\ AbsentIsFirst
  BY DEF VersionInv, TrainingTypes, FrameTypes, RowTypes, Follows
<1>2. TrainingTypes'
  BY <1>1 DEF TrainingTypes, RowTypes, FrameTypes, Follows, Advances
<1>3. AbsentIsFirst' /\ Reads(job)' /\ Reads(NoJob)'
  BY <1>1, FreshReads DEF Follows
<1>4. EveryReadIsARead'
  <2>1. \A row \in Row : Reads(row) => Reads(row)'
    BY <1>1, ReadsAdvance DEF Follows
  <2>2. ctl.job \in Row /\ (\A g \in Handlers : api[g].job \in Row)
    BY <1>1 DEF TrainingFrame
  <2>3. Reads(ctl.job) /\ \A g \in Handlers : Reads(api[g].job)
    BY DEF VersionInv, EveryReadIsARead
  <2>4. Reads(ctl.job)'
    <3>1. CASE ctl'.job = ctl.job
      BY <2>1, <2>2, <2>3, <3>1 DEF Reads
    <3>2. CASE ctl'.job = job' \/ ctl'.job = NoJob
      BY <1>3, <3>2 DEF Reads
    <3> QED
      BY <3>1, <3>2 DEF Follows
  <2>5. api' = api
    BY DEF Follows
  <2>6. \A g \in Handlers : Reads(api[g].job)'
    BY <2>1, <2>2, <2>3, <2>5 DEF Reads
  <2> QED
    BY <2>4, <2>6 DEF EveryReadIsARead
<1>5. CtlReadARow'
  BY DEF Follows, CtlReadARow
<1>6. EventsAreSequenced' /\ HandsDiffer'
  BY DEF Follows, HandInv, EventsAreSequenced, HandsDiffer, InHand, EventsOf
<1> QED
  BY <1>2, <1>3, <1>4, <1>5, <1>6 DEF VersionInv, HandInv

LEMMA TrainingStarts == TrainingInit => VersionInv /\ HandInv
<1> SUFFICES ASSUME TrainingInit PROVE VersionInv /\ HandInv
  OBVIOUS
<1>1. TrainingTypes
  BY IdleFrame DEF TrainingInit, TrainingTypes, RowTypes, FrameTypes
<1>2. AbsentIsFirst /\ EveryReadIsARead /\ CtlReadARow
  BY IdleFrame DEF TrainingInit, AbsentIsFirst, EveryReadIsARead, Reads, CtlReadARow
<1>3. EventsAreSequenced /\ HandsDiffer
  BY IdleFrame DEF TrainingInit, EventsAreSequenced, HandsDiffer, InHand
<1> QED
  BY <1>1, <1>2, <1>3 DEF VersionInv, HandInv

LEMMA TrainingStep ==
  VersionInv /\ HandInv /\ [TrainingNext]_trainingVars => VersionInv' /\ HandInv'
<1> SUFFICES ASSUME VersionInv, HandInv, [TrainingNext]_trainingVars PROVE VersionInv' /\ HandInv'
  OBVIOUS
<1>1. attempts' \in Seq(JobStatus)
  BY AttemptsTyped DEF VersionInv
<1>2. CASE RegisterPromoted \/ World \/ UNCHANGED trainingVars
  <2>1. UNCHANGED <<job, attempts, ingress, api, ctl>>
    BY <1>2 DEF RegisterPromoted, World, WorkerStarts, WorkerEnds,
      SchedulerCancels, WorkerEmits, storeVars, trainingVars
  <2>2. VersionInv'
    BY <2>1 DEF VersionInv, TrainingTypes, RowTypes, FrameTypes, AbsentIsFirst, EveryReadIsARead,
      Reads, CtlReadARow
  <2>3. EventsAreSequenced' /\ HandsDiffer'
    BY <2>1 DEF HandInv, EventsAreSequenced, HandsDiffer, InHand, EventsOf
  <2> QED
    BY <2>2, <2>3 DEF HandInv, VersionInv
<1>3. CASE \E h \in Handlers : Request(h) \/ Serve(h) \/ CrashHandler(h) \/ RedisRaises(h)
  BY <1>1, <1>3, HandlerServes, HandlerKeeps
<1>4. CASE Reconcile \/ RotateCredentials \/ SchedulerRaises \/ CrashController
  BY <1>1, <1>4, ControllerFollows, ControllerKeeps
<1> QED
  BY <1>2, <1>3, <1>4 DEF TrainingNext

LEMMA TrainingInvHolds == TrainingSpec => [](VersionInv /\ HandInv)
BY TrainingStarts, TrainingStep, PTL DEF TrainingSpec

\* Comparing versions is enough: whoever read the version that a job has, read
\* its status and its binding.  (transition_job, update_binding.)
THEOREM VersionsTellStates == TrainingSpec => []VersionNamesState
<1>1. VersionInv => VersionNamesState
  BY DEF VersionInv, EveryReadIsARead, Reads, VersionNamesState
<1> QED
  BY <1>1, TrainingInvHolds, PTL

\* An event is in the hands of one request only, however often it arrives.
\* (allocate_event_sequences and ingest_events.)
THEOREM EventsAreHandledOnce == TrainingSpec => []OneHandlerPerEvent
<1>1. HandInv => OneHandlerPerEvent
  <2> SUFFICES ASSUME HandInv, NEW g \in Handlers, NEW h \in Handlers, g # h,
                      {api[g].pc, api[h].pc} \subseteq {"append", "apply", "applied"},
                      api[g].batch.attempt = api[h].batch.attempt
               PROVE  api[g].batch.events \intersect api[h].batch.events = {}
    BY DEF OneHandlerPerEvent
  <2>1. EventsOf(api[g]) \intersect EventsOf(api[h]) = {}
    BY DEF HandInv, HandsDiffer, InHand
  <2>2. \A k \in api[g].batch.events :
          /\ <<api[g].batch.attempt, k>> \in EventsOf(api[g])
          /\ k \in api[h].batch.events => <<api[g].batch.attempt, k>> \in EventsOf(api[h])
    BY DEF EventsOf
  <2> QED
    BY <2>1, <2>2
<1> QED
  BY <1>1, TrainingInvHolds, PTL
-----------------------------------------------------------------------------
(* Workers. *)

ClusterStates == {"none", "pending", "active", "succeeded", "failed", "cancelled"}
Claiming == {"claim", "attempt", "run", "started"}
Retrying == {"markRetry", "retryBinding", "requeue"}

\* An attempt may be created: the job was not provisioned since it was queued,
\* or its provisioning has not come to the attempt.
Fresh == job.status \in {"absent", "validating", "queued"}
Creates(h) == api[h].pc = "attempt"
Creating == ctl.pc = "attempt" \/ \E h \in Handlers : Creates(h)

FirstFailed == Len(cluster) >= 1 /\ cluster[1] = "failed"

WorkerTypes ==
  /\ cluster \in Seq(ClusterStates)
  /\ Len(cluster) = Len(attempts)
  /\ resumes \in Nat /\ hiccups \in Nat
  /\ spec \in Jobs
  /\ job.binding <= Len(cluster) /\ ctl.job.binding <= Len(cluster)
  /\ ctl.batch.attempt <= Len(cluster)
  /\ \A h \in Handlers : api[h].pc = "queue" => api[h].job.status = "validating"

\* Each kind of scheduler has its own way to start a worker.
OneWayToStart ==
  /\ spec.scheduler = "notebook" => ctl.pc = "idle"
  /\ spec.scheduler = "cluster" => \A h \in Handlers : api[h].pc \notin Claiming

OneCreates ==
  /\ Fresh => ~Creating
  /\ \A g, h \in Handlers : Creates(g) /\ Creates(h) => g = h

\* What the controller is told of the cluster, and what it submits.
ControllerKnows ==
  /\ ctl.pc = "status" => ctl.job.binding # 0
  /\ ctl.pc = "move" => ctl.target # "queued" /\ (ctl.target = "failed" => FirstFailed)
  /\ ctl.pc \in Retrying => FirstFailed
  /\ ctl.pc \in {"submit", "bind"} => ctl.batch.attempt = Len(cluster)
  /\ ctl.pc = "submit" => Len(cluster) >= 1 /\ cluster[Len(cluster)] = "none"
  /\ ctl.pc \in {"retryBinding", "requeue"} => Len(cluster) < spec.maximum_attempts

SecondAfterFirst ==
  /\ Len(cluster) >= 2 => FirstFailed /\ spec.scheduler = "cluster"
  /\ Len(cluster) >= 1 /\ (Fresh \/ Creating) => FirstFailed /\ spec.scheduler = "cluster"

Budgeted ==
  /\ Len(cluster) <= spec.maximum_attempts
  /\ Fresh \/ Creating => Len(cluster) < spec.maximum_attempts

Undisturbed == OneCreates /\ ControllerKnows /\ SecondAfterFirst /\ Budgeted

WorkersInv ==
  /\ TrainingTypes /\ WorkerTypes /\ OneWayToStart
  /\ resumes = 0 /\ hiccups = 0 => Undisturbed

LEMMA TransitionsToFresh ==
  \A s \in JobStatus :
    /\ "validating" \notin AllowedTransitions[s] /\ "absent" \notin AllowedTransitions[s]
    /\ "provisioning" \in AllowedTransitions[s] => s = "queued"
    /\ "queued" \in AllowedTransitions[s] => s \in {"validating", "failed", "cancelled"}
BY DEF JobStatus, AllowedTransitions

LEMMA LengthKept ==
  ASSUME TrainingTypes, NEW a, NEW target, UpdateAttemptStatus(a, target)
  PROVE  Len(attempts') = Len(attempts)
<1>1. attempts \in Seq(JobStatus)
  BY DEF TrainingTypes, RowTypes
<1>2. CASE a = 0
  BY <1>2 DEF UpdateAttemptStatus
<1>3. CASE a # 0
  <2>1. attempts' = [attempts EXCEPT ![a] = target]
    BY <1>3 DEF UpdateAttemptStatus
  <2>2. attempts \in Seq(JobStatus \union {target})
    BY <1>1, SeqMonotonic
  <2>3. CASE a \in 1 .. Len(attempts)
    BY <2>1, <2>2, <2>3, ExceptSeq
  <2>4. CASE a \notin 1 .. Len(attempts)
    <3>1. DOMAIN attempts = 1 .. Len(attempts) /\ attempts = [i \in DOMAIN attempts |-> attempts[i]]
      BY <1>1
    <3>2. attempts' = attempts
      BY <2>1, <2>4, <3>1
    <3> QED
      BY <3>2
  <2> QED
    BY <2>3, <2>4
<1> QED
  BY <1>2, <1>3

\* A transition: where it leads, and what it leaves of the row.
LEMMA MovedJob ==
  ASSUME TrainingTypes, NEW read, NEW target, Permitted(read, target), job' = Moved(target)
  PROVE  /\ job'.binding = job.binding /\ job'.status = target
         /\ Moved(target).binding = job.binding
         /\ Fresh' <=> target = "queued"
         /\ target = "provisioning" => job.status = "queued"
         /\ target = "queued" => job.status \in {"validating", "failed", "cancelled"}
<1>1. job \in Row
  BY DEF TrainingTypes, RowTypes
<1>2. job'.status = target /\ job'.binding = job.binding
  BY <1>1 DEF Moved, Row
<1>3. job.status \in JobStatus /\ target \in AllowedTransitions[job.status]
  BY <1>1 DEF Row, Permitted
<1> QED
  BY <1>2, <1>3, TransitionsToFresh DEF Fresh

-----------------------------------------------------------------------------
\* A step of a request that creates no attempt and starts no worker.
Plain(h) ==
  /\ UNCHANGED <<spec, cluster, ctl>>
  /\ Len(attempts') = Len(attempts)
  /\ job'.binding = job.binding
  /\ \A g \in Handlers \ {h} : api'[g] = api[g]
  /\ api'[h].pc # "attempt"
  /\ api'[h].pc \in Claiming => spec.scheduler = "notebook"
  /\ api'[h].pc = "queue" => api'[h].job.status = "validating"
  /\ resumes' \in Nat /\ hiccups' \in Nat
  /\ resumes' = 0 => resumes = 0
  /\ hiccups' = 0 => hiccups = 0
  /\ resumes' = 0 => (Fresh' => Fresh)

LEMMA PlainKeeps ==
  ASSUME WorkersInv, TrainingTypes', NEW h \in Handlers, Plain(h)
  PROVE  WorkersInv'
<1>1. WorkerTypes'
  BY DEF WorkersInv, WorkerTypes, Plain
<1>2. OneWayToStart'
  BY DEF WorkersInv, OneWayToStart, Plain, TrainingAssumption
<1>3. ASSUME resumes' = 0, hiccups' = 0
      PROVE  Undisturbed'
  <2>1. Undisturbed /\ (Fresh' => Fresh)
    BY <1>3 DEF WorkersInv, Plain
  <2>2. \A g \in Handlers : Creates(g)' => Creates(g)
    BY DEF Creates, Plain
  <2>3. Creating' => Creating
    BY <2>2 DEF Creating, Plain
  <2>4. OneCreates'
    BY <2>1, <2>2, <2>3 DEF Undisturbed, OneCreates
  <2>5. ControllerKnows'
    BY <2>1 DEF Undisturbed, ControllerKnows, Plain, FirstFailed
  <2>6. SecondAfterFirst' /\ Budgeted'
    BY <2>1, <2>3 DEF Undisturbed, SecondAfterFirst, Budgeted, Plain, FirstFailed
  <2> QED
    BY <2>4, <2>5, <2>6 DEF Undisturbed
<1> QED
  BY <1>1, <1>2, <1>3 DEF WorkersInv

\* The frame a request goes on with.
LEMMA EnteredFrame ==
  ASSUME TrainingTypes, NEW h \in Handlers, NEW f, ApiEnter(h, f)
  PROVE  api'[h] = f /\ \A g \in Handlers \ {h} : api'[g] = api[g]
BY DEF TrainingTypes, FrameTypes, ApiEnter

LEMMA QuietPlain ==
  ASSUME TrainingTypes, WorkerTypes, NEW h \in Handlers, NEW f, ApiEnter(h, f),
         f.pc \notin {"attempt", "queue"},
         f.pc \in Claiming => spec.scheduler = "notebook",
         UNCHANGED <<spec, job, cluster, ctl, resumes>>, Len(attempts') = Len(attempts),
         hiccups' \in Nat, hiccups' = 0 => hiccups = 0
  PROVE  Plain(h)
BY EnteredFrame DEF Plain, WorkerTypes, Fresh

LEMMA MovePlain ==
  ASSUME TrainingTypes, WorkerTypes, NEW h \in Handlers, NEW target, NEW label,
         TryMove(h, target, label), label \notin {"attempt", "queue"},
         label \in Claiming => spec.scheduler = "notebook",
         Permitted(api[h].job, target) /\ target = "queued" => Fresh \/ resumes' = resumes + 1,
         UNCHANGED <<spec, attempts, cluster, ctl, hiccups>>, resumes' \in {resumes, resumes + 1}
  PROVE  Plain(h)
<1>1. /\ resumes \in Nat /\ hiccups \in Nat /\ Idle.pc = "idle" /\ "idle" \notin Claiming
      /\ api[h] \in TrainingFrame
  BY IdleFrame DEF WorkerTypes, Claiming, TrainingTypes, FrameTypes
<1>2. CASE ~Permitted(api[h].job, target)
  BY <1>1, <1>2, EnteredFrame DEF TryMove, Finish, Plain, Fresh
<1>3. CASE Permitted(api[h].job, target)
  <2> DEFINE f == [api[h] EXCEPT !.pc = label, !.job = Moved(target), !.target = target]
  <2>1. job' = Moved(target) /\ ApiEnter(h, IF label = "idle" THEN Idle ELSE f)
    BY <1>3 DEF TryMove
  <2>2. f.pc = label
    BY <1>1 DEF TrainingFrame
  <2> HIDE DEF f
  <2>3. api'[h].pc = label /\ \A g \in Handlers \ {h} : api'[g] = api[g]
    BY <1>1, <2>1, <2>2, EnteredFrame
  <2>4. job'.binding = job.binding /\ (Fresh' <=> target = "queued")
    BY <1>3, <2>1, MovedJob
  <2> QED
    BY <1>1, <1>3, <2>3, <2>4 DEF Plain
<1> QED
  BY <1>2, <1>3
-----------------------------------------------------------------------------
LEMMA StepPlain ==
  ASSUME TrainingTypes, WorkerTypes, NEW h \in Handlers, NEW label,
         ApiStep(h, label), label \notin {"attempt", "queue"} \union Claiming,
         UNCHANGED <<spec, job, cluster, ctl, resumes>>, Len(attempts') = Len(attempts),
         hiccups' \in Nat, hiccups' = 0 => hiccups = 0
  PROVE  Plain(h)
<1> DEFINE f == [api[h] EXCEPT !.pc = label]
<1>1. ApiEnter(h, f)
  BY DEF ApiStep
<1>2. f.pc = label
  BY DEF TrainingTypes, FrameTypes, TrainingFrame
<1> HIDE DEF f
<1> QED
  BY <1>1, <1>2, QuietPlain

LEMMA FinishPlain ==
  ASSUME TrainingTypes, WorkerTypes, NEW h \in Handlers, Finish(h),
         UNCHANGED <<spec, job, cluster, ctl, resumes>>, Len(attempts') = Len(attempts),
         hiccups' \in Nat, hiccups' = 0 => hiccups = 0
  PROVE  Plain(h)
<1>1. Idle.pc \notin {"attempt", "queue"} \union Claiming
  BY IdleFrame DEF Claiming
<1> QED
  BY <1>1, QuietPlain DEF Finish

LEMMA ReadPlain ==
  ASSUME TrainingTypes, WorkerTypes, NEW h \in Handlers, NEW label,
         ApiEnter(h, [Idle EXCEPT !.pc = label, !.job = job]),
         label \notin {"attempt", "queue"}, label \in Claiming => spec.scheduler = "notebook",
         UNCHANGED <<spec, job, cluster, ctl, resumes, attempts, hiccups>>
  PROVE  Plain(h)
<1> DEFINE f == [Idle EXCEPT !.pc = label, !.job = job]
<1>1. ApiEnter(h, f)
  OBVIOUS
<1>2. f.pc = label
  BY IdleFrame DEF TrainingFrame
<1>3. hiccups' \in Nat
  BY DEF WorkerTypes
<1> HIDE DEF f
<1> QED
  BY <1>1, <1>2, <1>3, QuietPlain

LEMMA RequestsArePlain ==
  ASSUME VersionInv, WorkersInv, NEW h \in Handlers, Request(h)
  PROVE  Plain(h)
<1>1. TrainingTypes /\ WorkerTypes /\ hiccups \in Nat
  BY DEF WorkersInv, WorkerTypes
<1>2. {"insert", "cancel", "resume", "allocate"} \intersect ({"attempt", "queue"} \union Claiming) = {}
  BY DEF Claiming
<1>3. CASE BeginCreate(h)
  BY <1>1, <1>2, <1>3, StepPlain DEF BeginCreate, storeVars, worldVars
<1>4. CASE BeginCancel(h)
  BY <1>1, <1>2, <1>4, ReadPlain DEF BeginCancel, storeVars, worldVars
<1>5. CASE BeginResume(h)
  BY <1>1, <1>2, <1>5, ReadPlain DEF BeginResume, storeVars, worldVars
<1>6. CASE BeginClaim(h)
  <2>1. /\ ApiEnter(h, [Idle EXCEPT !.pc = "claim", !.job = job]) /\ spec.scheduler = "notebook"
        /\ UNCHANGED <<spec, job, cluster, ctl, resumes, attempts, hiccups>>
    BY <1>6 DEF BeginClaim, storeVars, worldVars
  <2>2. "claim" \notin {"attempt", "queue"}
    OBVIOUS
  <2> QED
    BY <1>1, <2>1, <2>2, ReadPlain
<1>7. CASE BeginIngest(h)
  <2>1. \E b : ApiEnter(h, [Idle EXCEPT !.pc = "allocate", !.job = job, !.batch = b])
    BY <1>7 DEF BeginIngest
  <2>2. PICK b : ApiEnter(h, [Idle EXCEPT !.pc = "allocate", !.job = job, !.batch = b])
    BY <2>1
  <2> DEFINE f == [Idle EXCEPT !.pc = "allocate", !.job = job, !.batch = b]
  <2>3. ApiEnter(h, f)
    BY <2>2
  <2>4. f.pc = "allocate"
    BY IdleFrame DEF TrainingFrame
  <2> HIDE DEF f
  <2> QED
    BY <1>1, <1>2, <1>7, <2>3, <2>4, QuietPlain DEF BeginIngest, storeVars, worldVars
<1> QED
  BY <1>3, <1>4, <1>5, <1>6, <1>7 DEF Request

\* Of the steps of a request all but three are plain.
Starts(h) == ClaimProvision(h) \/ ClaimAttempt(h) \/ ClaimStarted(h)

LEMMA ServesArePlain ==
  ASSUME VersionInv, WorkersInv, NEW h \in Handlers,
         Serve(h) \/ CrashHandler(h) \/ RedisRaises(h)
  PROVE  Plain(h) \/ Starts(h)
<1>1. /\ TrainingTypes /\ WorkerTypes /\ hiccups \in Nat /\ resumes \in Nat
      /\ api[h] \in TrainingFrame
  BY DEF WorkersInv, WorkerTypes, TrainingTypes, FrameTypes
<1>2. {"idle", "mark", "apply", "applied", "append"} \intersect ({"attempt", "queue"} \union Claiming) = {}
  BY DEF Claiming
<1>3. CASE InsertJob(h)
  <2>1. CASE job.status = "absent"
    <3> DEFINE f == [api[h] EXCEPT !.pc = "queue", !.job = job']
    <3>1. ApiEnter(h, f) /\ job' = [NoJob EXCEPT !.status = "validating", !.version = 1]
      BY <1>3, <2>1 DEF InsertJob
    <3>2. job'.status = "validating" /\ job'.binding = 0
      BY <3>1 DEF NoJob
    <3>3. f.pc = "queue" /\ f.job = job'
      BY <1>1 DEF TrainingFrame
    <3> HIDE DEF f
    <3>4. api'[h] = f /\ \A g \in Handlers \ {h} : api'[g] = api[g]
      BY <1>1, <3>1, EnteredFrame
    <3>5. job.binding = 0
      BY <2>1 DEF VersionInv, AbsentIsFirst
    <3> QED
      BY <1>1, <1>3, <2>1, <3>2, <3>3, <3>4, <3>5 DEF Plain, InsertJob, worldVars, Claiming, Fresh
  <2>2. CASE job.status # "absent"
    BY <1>1, <1>3, <2>2, FinishPlain DEF InsertJob, worldVars
  <2> QED
    BY <2>1, <2>2
<1>4. CASE QueueJob(h)
  <2>1. Permitted(api[h].job, "queued") => Fresh
    BY <1>1, <1>4 DEF QueueJob, ApiAt, WorkerTypes, VersionInv, EveryReadIsARead, Reads,
      Permitted, Fresh
  <2> QED
    BY <1>1, <1>2, <1>4, <2>1, MovePlain DEF QueueJob, worldVars
<1>5. CASE CancelRequested(h)
  <2>1. CASE Permitted(api[h].job, "cancelled")
    <3> DEFINE f == [api[h] EXCEPT !.pc = "mark", !.target = "cancelled"]
    <3>1. ApiEnter(h, f) /\ job' = Moved("cancelled")
      BY <1>5, <2>1 DEF CancelRequested
    <3>2. f.pc = "mark"
      BY <1>1 DEF TrainingFrame
    <3> HIDE DEF f
    <3>3. api'[h] = f /\ \A g \in Handlers \ {h} : api'[g] = api[g]
      BY <1>1, <3>1, EnteredFrame
    <3>4. job'.binding = job.binding /\ ~Fresh'
      BY <1>1, <2>1, <3>1, MovedJob
    <3> QED
      BY <1>1, <1>2, <1>5, <3>2, <3>3, <3>4 DEF Plain, CancelRequested, worldVars
  <2>2. CASE ~Permitted(api[h].job, "cancelled")
    BY <1>1, <1>5, <2>2, FinishPlain DEF CancelRequested, worldVars
  <2> QED
    BY <2>1, <2>2
<1>6. CASE MarkCancelled(h)
  <2>1. Len(attempts') = Len(attempts)
    BY <1>1, <1>6, LengthKept DEF MarkCancelled
  <2> QED
    BY <1>1, <1>6, <2>1, FinishPlain DEF MarkCancelled, worldVars
<1>7. CASE Resume(h)
  <2>1. CASE Permitted(api[h].job, "queued")
    BY <1>1, <1>2, <1>7, <2>1, MovePlain DEF Resume, worldVars
  <2>2. CASE ~Permitted(api[h].job, "queued")
    BY <1>1, <1>2, <1>7, <2>2, MovePlain DEF Resume, worldVars
  <2> QED
    BY <2>1, <2>2
<1>8. CASE ClaimRun(h)
  <2>1. spec.scheduler = "notebook"
    BY <1>8, TrainingAssumption DEF ClaimRun, ApiAt, WorkersInv, OneWayToStart, Claiming,
      WorkerTypes
  <2> QED
    BY <1>1, <1>2, <1>8, <2>1, MovePlain DEF ClaimRun, worldVars
<1>9. CASE AllocateEventSequences(h)
  <2> DEFINE b == api[h].batch
             f == [api[h] EXCEPT !.pc = "append", !.batch.events = NewEvents(b)]
  <2>1. UNCHANGED <<spec, job, cluster, ctl, resumes, hiccups, attempts>>
    BY <1>9 DEF AllocateEventSequences, worldVars
  <2>2. Finish(h) \/ ApiEnter(h, f)
    BY <1>9 DEF AllocateEventSequences
  <2>3. f.pc = "append"
    BY <1>1 DEF TrainingFrame
  <2> HIDE DEF f
  <2> QED
    BY <1>1, <1>2, <2>1, <2>2, <2>3, FinishPlain, QuietPlain
<1>a. CASE AppendEvents(h)
  BY <1>1, <1>2, <1>a, FinishPlain, StepPlain DEF AppendEvents, storeVars, worldVars
<1>b. CASE ApplyEvent(h)
  <2>1. UNCHANGED <<spec, attempts, cluster, ctl, resumes, hiccups>>
    BY <1>b DEF ApplyEvent, worldVars
  <2>2. CASE UNCHANGED job /\ Finish(h)
    BY <1>1, <2>1, <2>2, FinishPlain
  <2>3. CASE UNCHANGED job /\ \E r : ApiEnter(h, [api[h] EXCEPT !.batch = r])
    <3>1. PICK r : ApiEnter(h, [api[h] EXCEPT !.batch = r])
      BY <2>3
    <3> DEFINE f == [api[h] EXCEPT !.batch = r]
    <3>2. f.pc = "apply"
      BY <1>1, <1>b DEF ApplyEvent, ApiAt, TrainingFrame
    <3>3. ApiEnter(h, f)
      BY <3>1
    <3> HIDE DEF f
    <3> QED
      BY <1>1, <1>2, <2>1, <2>3, <3>2, <3>3, QuietPlain
  <2>4. CASE \E kind, s : TryMove(h, EventTarget(kind, s), "applied")
    <3>1. PICK kind, s : TryMove(h, EventTarget(kind, s), "applied")
      BY <2>4
    <3>2. EventTarget(kind, s) # "queued"
      BY DEF EventTarget
    <3> QED
      BY <1>1, <1>2, <2>1, <3>1, <3>2, MovePlain
  <2> QED
    BY <1>b, <2>2, <2>3, <2>4 DEF ApplyEvent
<1>c. CASE MarkEventAttempt(h)
  <2>1. Len(attempts') = Len(attempts)
    BY <1>1, <1>c, LengthKept DEF MarkEventAttempt
  <2> DEFINE f == [api[h] EXCEPT !.pc = "apply", !.batch = Rest(@)]
  <2>2. ApiEnter(h, f)
    BY <1>c DEF MarkEventAttempt
  <2>3. f.pc = "apply"
    BY <1>1 DEF TrainingFrame
  <2> HIDE DEF f
  <2> QED
    BY <1>1, <1>2, <1>c, <2>1, <2>2, <2>3, QuietPlain DEF MarkEventAttempt, worldVars
<1>d. CASE CrashHandler(h) \/ RedisRaises(h)
  <2>1. /\ Finish(h) /\ hiccups' = hiccups + 1
        /\ UNCHANGED <<spec, job, cluster, ctl, resumes, attempts>>
    BY <1>d DEF CrashHandler, RedisRaises, Crashes, storeVars, worldVars
  <2>2. hiccups' \in Nat /\ hiccups' # 0
    BY <1>1, <2>1
  <2> QED
    BY <1>1, <2>1, <2>2, FinishPlain
<1> QED
  BY <1>3, <1>4, <1>5, <1>6, <1>7, <1>8, <1>9, <1>a, <1>b, <1>c, <1>d DEF Serve, Starts
-----------------------------------------------------------------------------
\* One place of the sequence of an attempt's scheduler jobs changes.
PlaceSetTo(s, a, x, t) == t = [s EXCEPT ![a] = x]
SameBut(s, a, t) ==
  /\ t \in Seq(ClusterStates) /\ Len(t) = Len(s)
  /\ \A i \in 1 .. Len(s) : i # a => t[i] = s[i]

LEMMA PlaceSet ==
  ASSUME NEW s \in Seq(ClusterStates), NEW a, NEW x \in ClusterStates, NEW t, PlaceSetTo(s, a, x, t)
  PROVE  SameBut(s, a, t)
<1>1. CASE a \in 1 .. Len(s)
  BY <1>1, ExceptSeq DEF PlaceSetTo, SameBut
<1>2. CASE a \notin 1 .. Len(s)
  <2>1. DOMAIN s = 1 .. Len(s) /\ s = [i \in DOMAIN s |-> s[i]]
    OBVIOUS
  <2>2. t = s
    BY <1>2, <2>1 DEF PlaceSetTo
  <2> QED
    BY <1>2, <2>2 DEF SameBut
<1> QED
  BY <1>1, <1>2

\* What a request of a notebook finds: no attempt, when it may create one.
LEMMA NotebookFinds ==
  ASSUME WorkersInv, NEW h \in Handlers, api[h].pc \in Claiming
  PROVE  /\ spec.scheduler = "notebook" /\ ctl.pc = "idle"
         /\ Undisturbed => /\ Len(cluster) <= 1
                           /\ Fresh \/ Creating => Len(cluster) = 0
<1>1. spec.scheduler = "notebook" /\ ctl.pc = "idle"
  BY TrainingAssumption DEF WorkersInv, OneWayToStart, WorkerTypes
<1>2. Len(cluster) \in Nat
  BY DEF WorkersInv, WorkerTypes
<1> QED
  BY <1>1, <1>2 DEF Undisturbed, SecondAfterFirst

LEMMA ClaimProvisionKeeps ==
  ASSUME WorkersInv, TrainingTypes', NEW h \in Handlers, ClaimProvision(h)
  PROVE  WorkersInv'
<1>1. TrainingTypes /\ WorkerTypes /\ hiccups \in Nat /\ api[h] \in TrainingFrame
  BY DEF WorkersInv, WorkerTypes, TrainingTypes, FrameTypes
<1>2. /\ api[h].pc = "claim" /\ api[h].pc \in Claiming
      /\ UNCHANGED <<spec, attempts, cluster, ctl, resumes, hiccups>>
  BY DEF ClaimProvision, ApiAt, worldVars, Claiming
<1>3. CASE ~Permitted(api[h].job, "provisioning")
  <2>1. Plain(h)
    BY <1>1, <1>2, <1>3, FinishPlain DEF ClaimProvision, TryMove
  <2> QED
    BY <2>1, PlainKeeps
<1>4. CASE Permitted(api[h].job, "provisioning")
  <2> DEFINE f == [api[h] EXCEPT !.pc = "attempt", !.job = Moved("provisioning"),
                                 !.target = "provisioning"]
  <2>1. ApiEnter(h, f) /\ job' = Moved("provisioning")
    BY <1>4 DEF ClaimProvision, TryMove
  <2>2. f.pc = "attempt"
    BY <1>1 DEF TrainingFrame
  <2> HIDE DEF f
  <2>3. api'[h].pc = "attempt" /\ \A g \in Handlers \ {h} : api'[g] = api[g]
    BY <1>1, <2>1, <2>2, EnteredFrame
  <2>4. job'.binding = job.binding /\ Fresh /\ ~Fresh'
    BY <1>1, <1>4, <2>1, MovedJob DEF Fresh
  <2>5. WorkerTypes'
    BY <1>1, <1>2, <2>3, <2>4 DEF WorkerTypes
  <2>6. OneWayToStart'
    BY <1>2, <2>3, NotebookFinds DEF WorkersInv, OneWayToStart
  <2>7. ASSUME resumes' = 0, hiccups' = 0
        PROVE  Undisturbed'
    <3>1. Undisturbed
      BY <1>2, <2>7 DEF WorkersInv
    <3>2. ctl.pc = "idle" /\ Len(cluster) = 0 /\ Len(cluster) < spec.maximum_attempts
      BY <1>2, <2>4, <3>1, NotebookFinds DEF Undisturbed, Budgeted
    <3>3. \A g \in Handlers : Creates(g)' => g = h
      BY <2>3, <2>4, <3>1 DEF Undisturbed, OneCreates, Creating, Creates
    <3>4. OneCreates'
      BY <2>4, <3>3 DEF OneCreates
    <3>5. ControllerKnows'
      BY <1>2, <3>2 DEF ControllerKnows, Retrying
    <3>6. SecondAfterFirst' /\ Budgeted'
      <4>1. spec.maximum_attempts \in Nat
        BY <1>1, TrainingAssumption DEF WorkerTypes
      <4> QED
        BY <1>2, <3>2, <4>1 DEF SecondAfterFirst, Budgeted
    <3> QED
      BY <3>4, <3>5, <3>6 DEF Undisturbed
  <2> QED
    BY <2>5, <2>6, <2>7 DEF WorkersInv
<1> QED
  BY <1>3, <1>4

\* The first attempt, of whoever creates it.
LEMMA AttemptAppended ==
  ASSUME WorkersInv, CreateAttempt
  PROVE  /\ cluster' \in Seq(ClusterStates) /\ Len(cluster') = Len(cluster) + 1
         /\ Len(cluster) \in Nat /\ NextAttempt = Len(cluster) + 1
         /\ cluster'[Len(cluster) + 1] = "none"
         /\ \A i \in 1 .. Len(cluster) : cluster'[i] = cluster[i]
         /\ Len(attempts') = Len(attempts) + 1
         /\ job'.status = job.status /\ job'.binding = job.binding
<1>1. cluster \in Seq(ClusterStates) /\ Len(cluster) = Len(attempts)
  BY DEF WorkersInv, WorkerTypes
<1>2. attempts \in Seq(JobStatus) /\ job \in Row
  BY DEF WorkersInv, TrainingTypes, RowTypes
<1>3. cluster' = Append(cluster, "none") /\ "none" \in ClusterStates
  BY DEF CreateAttempt, ClusterStates
<1>4. cluster' \in Seq(ClusterStates) /\ Len(cluster') = Len(cluster) + 1
  BY <1>1, <1>3
<1>5. cluster'[Len(cluster) + 1] = "none" /\ \A i \in 1 .. Len(cluster) : cluster'[i] = cluster[i]
  BY <1>1, <1>3
<1>6. "provisioning" \in JobStatus
  BY JobStatuses
<1>7. Len(attempts') = Len(attempts) + 1
  BY <1>2, <1>6 DEF CreateAttempt
<1>8. job'.status = job.status /\ job'.binding = job.binding
  BY <1>2 DEF CreateAttempt, Row
<1> QED
  BY <1>1, <1>4, <1>5, <1>7, <1>8 DEF NextAttempt

LEMMA ClaimAttemptKeeps ==
  ASSUME WorkersInv, TrainingTypes', NEW h \in Handlers, ClaimAttempt(h)
  PROVE  WorkersInv'
<1>1. TrainingTypes /\ WorkerTypes /\ api[h] \in TrainingFrame
  BY DEF WorkersInv, WorkerTypes, TrainingTypes, FrameTypes
<1>2. /\ api[h].pc = "attempt" /\ api[h].pc \in Claiming
      /\ UNCHANGED <<spec, ctl, resumes, hiccups>>
  BY DEF ClaimAttempt, ApiAt, Claiming
<1>3. /\ cluster' \in Seq(ClusterStates) /\ Len(cluster') = Len(cluster) + 1
      /\ Len(cluster) \in Nat /\ Len(attempts') = Len(attempts) + 1
      /\ job'.status = job.status /\ job'.binding = job.binding
  BY AttemptAppended DEF ClaimAttempt
<1> DEFINE f == [api[h] EXCEPT !.pc = "run", !.batch.attempt = NextAttempt]
<1>4. ApiEnter(h, f)
  BY DEF ClaimAttempt
<1>5. f.pc = "run"
  BY <1>1 DEF TrainingFrame
<1> HIDE DEF f
<1>6. api'[h].pc = "run" /\ \A g \in Handlers \ {h} : api'[g] = api[g]
  BY <1>1, <1>4, <1>5, EnteredFrame
<1>7. WorkerTypes'
  <2>1. job.binding <= Len(cluster) + 1 /\ ctl.job.binding <= Len(cluster) + 1
        /\ ctl.batch.attempt <= Len(cluster) + 1
    <3>1. job.binding \in Nat /\ ctl.job.binding \in Nat /\ ctl.batch.attempt \in Nat
      BY <1>1 DEF TrainingTypes, RowTypes, FrameTypes, Row, TrainingFrame, TrainingBatch
    <3> QED
      BY <1>1, <1>3, <3>1 DEF WorkerTypes
  <2> QED
    BY <1>1, <1>2, <1>3, <1>6, <2>1 DEF WorkerTypes
<1>8. OneWayToStart'
  BY <1>2, <1>6, NotebookFinds DEF WorkersInv, OneWayToStart
<1>9. ASSUME resumes' = 0, hiccups' = 0
      PROVE  Undisturbed'
  <2>1. Undisturbed /\ Creating /\ Creates(h)
    BY <1>2, <1>9 DEF WorkersInv, Creating, Creates
  <2>2. ctl.pc = "idle" /\ Len(cluster) = 0 /\ Len(cluster) < spec.maximum_attempts
    BY <1>2, <2>1, NotebookFinds DEF Undisturbed, Budgeted
  <2>3. ~Creating' /\ \A g \in Handlers : ~Creates(g)'
    BY <1>2, <1>6, <2>1, <2>2 DEF Undisturbed, OneCreates, Creating, Creates
  <2>4. ~Fresh'
    BY <1>3, <2>1 DEF Undisturbed, OneCreates, Fresh
  <2>5. OneCreates' /\ ControllerKnows'
    BY <1>2, <2>2, <2>3 DEF OneCreates, ControllerKnows, Retrying
  <2>6. spec.maximum_attempts \in Nat
    BY <1>1, TrainingAssumption DEF WorkerTypes
  <2>7. SecondAfterFirst' /\ Budgeted'
    BY <1>2, <1>3, <2>2, <2>3, <2>4, <2>6 DEF SecondAfterFirst, Budgeted
  <2> QED
    BY <2>5, <2>7 DEF Undisturbed
<1> QED
  BY <1>7, <1>8, <1>9 DEF WorkersInv

LEMMA ClaimStartedKeeps ==
  ASSUME WorkersInv, TrainingTypes', NEW h \in Handlers, ClaimStarted(h)
  PROVE  WorkersInv'
<1>1. TrainingTypes /\ WorkerTypes /\ api[h] \in TrainingFrame /\ cluster \in Seq(ClusterStates)
  BY DEF WorkersInv, WorkerTypes, TrainingTypes, FrameTypes
<1>2. /\ api[h].pc \in Claiming /\ UNCHANGED <<spec, job, ctl, resumes, hiccups>>
      /\ Idle.pc = "idle" /\ "idle" \notin Claiming
  BY IdleFrame DEF ClaimStarted, ApiAt, Claiming
<1>3. cluster' \in Seq(ClusterStates) /\ Len(cluster') = Len(cluster) /\ Len(attempts') = Len(attempts)
  <2>1. PlaceSetTo(cluster, api[h].batch.attempt, "active", cluster') /\ "active" \in ClusterStates
    BY DEF ClaimStarted, ClusterStates, PlaceSetTo
  <2>4. SameBut(cluster, api[h].batch.attempt, cluster')
    BY <1>1, <2>1, PlaceSet
  <2>2. cluster' \in Seq(ClusterStates) /\ Len(cluster') = Len(cluster)
    BY <2>4 DEF SameBut
  <2>3. Len(attempts') = Len(attempts)
    BY <1>1, LengthKept DEF ClaimStarted
  <2> QED
    BY <2>2, <2>3
<1>4. api'[h] = Idle /\ \A g \in Handlers \ {h} : api'[g] = api[g]
  BY <1>1, EnteredFrame DEF ClaimStarted, Finish
<1>5. WorkerTypes'
  BY <1>1, <1>2, <1>3, <1>4, IdleFrame DEF WorkerTypes
<1>6. OneWayToStart'
  BY <1>2, <1>4, NotebookFinds DEF WorkersInv, OneWayToStart
<1>7. ASSUME resumes' = 0, hiccups' = 0
      PROVE  Undisturbed'
  <2>1. Undisturbed
    BY <1>2, <1>7 DEF WorkersInv
  <2>2. /\ ctl.pc = "idle" /\ Len(cluster) <= 1 /\ Len(cluster) \in Nat
        /\ Fresh \/ Creating => Len(cluster) = 0
    BY <1>1, <1>2, <2>1, NotebookFinds
  <2>3. \A g \in Handlers : Creates(g)' => Creates(g)
    BY <1>4, IdleFrame DEF Creates
  <2>4. (Creating' => Creating) /\ (Fresh' <=> Fresh)
    BY <1>2, <2>3 DEF Creating, Fresh
  <2>5. OneCreates' /\ ControllerKnows'
    BY <1>2, <2>1, <2>2, <2>3, <2>4 DEF Undisturbed, OneCreates, ControllerKnows, Retrying
  <2>6. SecondAfterFirst' /\ Budgeted'
    BY <1>2, <1>3, <2>1, <2>2, <2>4 DEF Undisturbed, SecondAfterFirst, Budgeted
  <2> QED
    BY <2>5, <2>6 DEF Undisturbed
<1> QED
  BY <1>5, <1>6, <1>7 DEF WorkersInv
-----------------------------------------------------------------------------
\* A step of the controller that creates no attempt and asks the scheduler for
\* none: what it needs to know when nothing has disturbed it, and what it
\* leaves to the next one.
Steered ==
  /\ ControllerKnows'
  /\ ctl'.pc = "attempt" => Fresh
  /\ Fresh' => ctl'.pc # "attempt" /\ (Fresh \/ ctl.pc = "requeue")

Steers ==
  /\ UNCHANGED <<spec, cluster, api, resumes>>
  /\ spec.scheduler # "notebook"
  /\ Len(attempts') = Len(attempts)
  /\ job'.binding <= Len(cluster)
  /\ ctl'.job.binding <= Len(cluster)
  /\ ctl'.batch.attempt <= Len(cluster)
  /\ hiccups' \in Nat
  /\ hiccups' = 0 => hiccups = 0
  /\ hiccups' = 0 /\ Undisturbed => Steered

LEMMA SteersKeeps ==
  ASSUME WorkersInv, TrainingTypes', Steers
  PROVE  WorkersInv'
<1>1. WorkerTypes'
  BY DEF WorkersInv, WorkerTypes, Steers
<1>2. OneWayToStart'
  BY DEF WorkersInv, OneWayToStart, Steers
<1>3. ASSUME resumes' = 0, hiccups' = 0
      PROVE  Undisturbed'
  <2>1. Undisturbed /\ Steered
    BY <1>3 DEF WorkersInv, Steers
  <2>2. \A g \in Handlers : ~Creates(g) /\ ~Creates(g)'
    BY TrainingAssumption DEF WorkersInv, WorkerTypes, OneWayToStart, Steers, Claiming, Creates
  <2>3. Creating' <=> ctl'.pc = "attempt"
    BY <2>2 DEF Creating
  <2>4. OneCreates'
    BY <2>1, <2>2, <2>3 DEF Steered, OneCreates
  <2>5. spec.scheduler = "cluster"
    BY TrainingAssumption DEF WorkersInv, WorkerTypes, Steers
  <2>6. CASE Fresh
    <3>1. /\ Len(cluster) >= 2 => FirstFailed
          /\ Len(cluster) >= 1 => FirstFailed
          /\ Len(cluster) <= spec.maximum_attempts /\ Len(cluster) < spec.maximum_attempts
      BY <2>1, <2>6 DEF Undisturbed, SecondAfterFirst, Budgeted
    <3>2. UNCHANGED <<spec, cluster>> /\ (FirstFailed' <=> FirstFailed)
      BY DEF Steers, FirstFailed
    <3> QED
      BY <2>1, <2>4, <2>5, <3>1, <3>2 DEF Undisturbed, SecondAfterFirst, Budgeted, Steered
  <2>7. CASE ~Fresh
    <3>1. ~Creating'
      BY <2>1, <2>3, <2>7 DEF Steered
    <3>2. Fresh' => FirstFailed /\ Len(cluster) < spec.maximum_attempts
      BY <2>1, <2>7 DEF Steered, Undisturbed, ControllerKnows, Retrying
    <3> QED
      BY <2>1, <2>5, <3>1, <3>2, <2>4 DEF Undisturbed, SecondAfterFirst, Budgeted, Steers,
        FirstFailed,
        Steered
  <2> QED
    BY <2>1, <2>4, <2>6, <2>7 DEF Undisturbed, Steered
<1> QED
  BY <1>1, <1>2, <1>3 DEF WorkersInv

LEMMA CtlSteers ==
  ASSUME WorkersInv, ctl.pc # "idle"
  PROVE  /\ spec.scheduler # "notebook" /\ hiccups \in Nat /\ TrainingTypes /\ WorkerTypes
         /\ ctl \in TrainingFrame /\ ctl.job \in Row /\ job \in Row
         /\ job.binding <= Len(cluster) /\ ctl.job.binding <= Len(cluster)
         /\ ctl.batch.attempt <= Len(cluster) /\ Len(cluster) \in Nat
BY DEF WorkersInv, WorkerTypes, OneWayToStart, TrainingTypes, RowTypes, FrameTypes, TrainingFrame

\* The controller goes on, or is done with the job.
LEMMA StepFrame ==
  ASSUME TrainingTypes, NEW label, CtlStep(label)
  PROVE  /\ ctl'.pc = label
         /\ ctl'.job.binding \in {0, ctl.job.binding}
         /\ ctl'.batch.attempt \in {0, ctl.batch.attempt}
<1>1. CASE label = "idle"
  <2>1. ctl' = Idle
    BY <1>1 DEF CtlStep
  <2>2. Idle.batch.attempt = 0
    BY DEF Idle, NoBatch
  <2> QED
    BY <1>1, <2>1, <2>2, IdleFrame
<1>2. CASE label # "idle"
  <2>1. ctl' = [ctl EXCEPT !.pc = label]
    BY <1>2 DEF CtlStep
  <2> QED
    BY <2>1 DEF TrainingTypes, FrameTypes, TrainingFrame
<1> QED
  BY <1>1, <1>2

\* Labels at which the controller claims to know nothing.
Plainly == {"idle", "validate", "provision", "attempt", "block", "blocking", "mark", "fail", "failing"}

LEMMA StepSteers ==
  ASSUME WorkersInv, ctl.pc # "idle", NEW label \in Plainly \ {"attempt"}, CtlStep(label),
         UNCHANGED <<spec, job, cluster, api, resumes>>, Len(attempts') = Len(attempts),
         hiccups' \in Nat, hiccups' = 0 => hiccups = 0
  PROVE  Steers
<1>1. /\ spec.scheduler # "notebook" /\ TrainingTypes /\ Len(cluster) \in Nat
      /\ job.binding <= Len(cluster) /\ ctl.job.binding <= Len(cluster)
      /\ ctl.batch.attempt <= Len(cluster)
  BY CtlSteers
<1>2. /\ ctl'.pc = label /\ ctl'.job.binding \in {0, ctl.job.binding}
      /\ ctl'.batch.attempt \in {0, ctl.batch.attempt}
  BY <1>1, StepFrame
<1>3. Steered
  BY <1>2 DEF Steered, ControllerKnows, Retrying, Plainly, Fresh
<1> QED
  BY <1>1, <1>2, <1>3 DEF Steers

LEMMA MoveSteers ==
  ASSUME WorkersInv, ctl.pc # "idle", NEW target, NEW label, NEW conflict \in Plainly \ {"attempt"},
         CtlMove(target, label, conflict),
         label \in Plainly \/ (label = "markRetry" /\ (Undisturbed => FirstFailed)),
         label = "attempt" => target = "provisioning",
         Undisturbed /\ target = "queued" => ctl.pc = "requeue",
         UNCHANGED <<spec, attempts, cluster, api, resumes, hiccups>>
  PROVE  Steers
<1>1. /\ spec.scheduler # "notebook" /\ TrainingTypes /\ Len(cluster) \in Nat /\ hiccups \in Nat
      /\ job.binding <= Len(cluster) /\ ctl.job.binding <= Len(cluster)
      /\ ctl.batch.attempt <= Len(cluster)
  BY CtlSteers
<1>2. CASE ~Permitted(ctl.job, target)
  BY <1>1, <1>2, StepSteers DEF CtlMove
<1>3. CASE Permitted(ctl.job, target)
  <2>1. /\ job' = Moved(target)
        /\ ctl' = IF label = "idle" THEN Idle
                  ELSE [ctl EXCEPT !.pc = label, !.job = Moved(target), !.target = target]
    BY <1>3 DEF CtlMove
  <2>2. /\ job'.binding = job.binding /\ Moved(target).binding = job.binding
        /\ (Fresh' <=> target = "queued") /\ (target = "provisioning" => Fresh)
    BY <1>1, <1>3, <2>1, MovedJob DEF Fresh
  <2>3. /\ ctl'.pc = label /\ ctl'.job.binding \in {0, job.binding}
        /\ ctl'.batch.attempt \in {0, ctl.batch.attempt}
    <3>1. CASE label = "idle"
      <4>1. ctl' = Idle /\ Idle.batch.attempt = 0
        BY <2>1, <3>1 DEF Idle, NoBatch
      <4> QED
        BY <3>1, <4>1, IdleFrame
    <3>2. CASE label # "idle"
      <4>1. ctl' = [ctl EXCEPT !.pc = label, !.job = Moved(target), !.target = target]
        BY <2>1, <3>2
      <4> QED
        BY <1>1, <2>2, <4>1 DEF TrainingTypes, FrameTypes, TrainingFrame
    <3> QED
      BY <3>1, <3>2
  <2>4. Undisturbed => Steered
    <3> SUFFICES ASSUME Undisturbed PROVE Steered
      OBVIOUS
    <3>1. ControllerKnows'
      <4>1. CASE label \in Plainly
        BY <2>3, <4>1 DEF ControllerKnows, Retrying, Plainly
      <4>2. CASE label = "markRetry" /\ FirstFailed
        <5>1. FirstFailed' /\ ctl'.pc = "markRetry"
          BY <2>3, <4>2 DEF FirstFailed
        <5> QED
          BY <5>1 DEF ControllerKnows, Retrying
      <4> QED
        BY <4>1, <4>2
    <3> QED
      BY <2>2, <2>3, <3>1 DEF Steered
  <2> QED
    BY <1>1, <2>2, <2>3, <2>4 DEF Steers
<1> QED
  BY <1>2, <1>3
-----------------------------------------------------------------------------
\* The controller reads the row, or knows the row it wrote.
LEMMA FrameSteers ==
  ASSUME WorkersInv, spec.scheduler # "notebook", NEW f, ctl' = f, f \in TrainingFrame,
         f.pc # "attempt", f.job.binding <= Len(cluster), f.batch.attempt <= Len(cluster),
         job'.status = job.status, job'.binding <= Len(cluster),
         UNCHANGED <<spec, cluster, api, resumes>>, Len(attempts') = Len(attempts),
         hiccups' \in Nat, hiccups' = 0 => hiccups = 0,
         hiccups' = 0 /\ Undisturbed => ControllerKnows'
  PROVE  Steers
<1>1. Fresh' <=> Fresh
  BY DEF Fresh
<1> QED
  BY <1>1 DEF Steers, Steered

LEMMA ListSteers ==
  ASSUME WorkersInv, ListJobs
  PROVE  Steers
<1>1. /\ UNCHANGED <<spec, job, attempts, cluster, api, resumes, hiccups>>
      /\ spec.scheduler # "notebook" /\ job \in Row /\ job.binding <= Len(cluster)
      /\ Len(cluster) \in Nat /\ hiccups \in Nat
  BY DEF ListJobs, storeVars, worldVars, WorkersInv, WorkerTypes, TrainingTypes, RowTypes
<1>2. PICK label \in {"validate", "status"} :
        /\ ctl' = [Idle EXCEPT !.pc = label, !.job = job]
        /\ label = "status" => job.binding # 0
  BY DEF ListJobs
<1> DEFINE f == [Idle EXCEPT !.pc = label, !.job = job]
<1>3. /\ f \in TrainingFrame /\ f.pc = label /\ f.job = job /\ f.batch.attempt = 0
  <2>1. label \in JobLabel
    BY DEF JobLabel
  <2>2. Idle.batch.attempt = 0
    BY DEF Idle, NoBatch
  <2> QED
    BY <1>1, <2>1, <2>2, IdleFrame DEF TrainingFrame
<1>4. ctl' = f
  BY <1>2
<1> HIDE DEF f
<1>5. ControllerKnows'
  BY <1>2, <1>3, <1>4 DEF ControllerKnows, Retrying
<1> QED
  BY <1>1, <1>3, <1>4, <1>5, FrameSteers

LEMMA BindSteers ==
  ASSUME WorkersInv, UpdateBinding \/ RetryBinding \/ RotateCredentials
  PROVE  Steers
<1>1. ctl.pc # "idle" /\ UNCHANGED <<spec, attempts, cluster, api, resumes>>
  BY DEF UpdateBinding, RetryBinding, RotateCredentials, CtlAt, worldVars
<1>2. /\ spec.scheduler # "notebook" /\ hiccups \in Nat /\ TrainingTypes
      /\ ctl \in TrainingFrame /\ ctl.job \in Row /\ job \in Row
      /\ ctl.job.binding <= Len(cluster)
      /\ ctl.batch.attempt <= Len(cluster) /\ Len(cluster) \in Nat
      /\ job.binding <= Len(cluster)
  BY <1>1, CtlSteers
<1>3. hiccups' \in Nat /\ (hiccups' = 0 => hiccups = 0)
  BY <1>2 DEF UpdateBinding, RetryBinding, RotateCredentials
<1>4. CASE job.version = ctl.job.version
  <2>1. PICK n \in {ctl.job.binding, ctl.batch.attempt} :
          /\ job' = Bound(n)
          /\ \/ ctl' = Idle
             \/ ctl.pc = "retryBinding" /\ ctl' = [ctl EXCEPT !.pc = "requeue", !.job = job']
             \/ ctl.pc = "status" /\ hiccups' = hiccups + 1 /\ ctl' = [ctl EXCEPT !.job = job']
    BY <1>4 DEF UpdateBinding, RetryBinding, RotateCredentials, CtlAt
  <2>2. n \in Nat /\ n <= Len(cluster)
    BY <1>2, <2>1 DEF TrainingFrame, TrainingBatch, Row
  <2>3. /\ job'.status = job.status /\ job'.binding = n /\ job' \in Row
    <3>1. job.version + 1 \in Nat /\ job.status \in JobStatus
      BY <1>2 DEF Row
    <3>2. job' = [job EXCEPT !.binding = n, !.version = job.version + 1]
      BY <2>1 DEF Bound
    <3> QED
      BY <1>2, <2>2, <3>1, <3>2 DEF Row
  <2>4. CASE ctl' = Idle
    <3>1. Idle.pc = "idle" /\ Idle.job.binding = 0 /\ Idle.batch.attempt = 0 /\ Idle \in TrainingFrame
      BY IdleFrame DEF Idle, NoBatch
    <3>2. ControllerKnows'
      BY <2>4, <3>1 DEF ControllerKnows, Retrying
    <3> QED
      BY <1>1, <1>2, <1>3, <2>2, <2>3, <2>4, <3>1, <3>2, FrameSteers
  <2>5. CASE ctl.pc = "retryBinding" /\ ctl' = [ctl EXCEPT !.pc = "requeue", !.job = job']
    <3> DEFINE f == [ctl EXCEPT !.pc = "requeue", !.job = job']
    <3>1. f \in TrainingFrame /\ f.pc = "requeue" /\ f.job = job' /\ f.batch = ctl.batch
      BY <1>2, <2>3 DEF TrainingFrame, JobLabel
    <3>2. ctl' = f
      BY <2>5
    <3> HIDE DEF f
    <3>3. Undisturbed => ControllerKnows'
      BY <1>1, <2>5, <3>1, <3>2 DEF Undisturbed, ControllerKnows, Retrying, FirstFailed
    <3> QED
      BY <1>1, <1>2, <1>3, <2>2, <2>3, <3>1, <3>2, <3>3, FrameSteers
  <2>6. CASE ctl.pc = "status" /\ hiccups' = hiccups + 1 /\ ctl' = [ctl EXCEPT !.job = job']
    <3> DEFINE f == [ctl EXCEPT !.job = job']
    <3>1. f \in TrainingFrame /\ f.pc = "status" /\ f.job = job' /\ f.batch = ctl.batch
      BY <1>2, <2>3, <2>6 DEF TrainingFrame
    <3>2. ctl' = f /\ hiccups' # 0
      BY <1>2, <2>6
    <3> HIDE DEF f
    <3> QED
      BY <1>1, <1>2, <1>3, <2>2, <2>3, <3>1, <3>2, FrameSteers
  <2> QED
    BY <2>1, <2>4, <2>5, <2>6
<1>5. CASE job.version # ctl.job.version
  <2>1. UNCHANGED job /\ \E label \in {"block", "fail"} : CtlStep(label)
    BY <1>5 DEF UpdateBinding, RetryBinding, RotateCredentials
  <2>2. {"block", "fail"} \subseteq Plainly \ {"attempt"}
    BY DEF Plainly
  <2> QED
    BY <1>1, <1>3, <2>1, <2>2, StepSteers
<1> QED
  BY <1>4, <1>5

LEMMA ReadSteers ==
  ASSUME WorkersInv, ReadToBlock \/ ReadToFail
  PROVE  Steers
<1>1. ctl.pc # "idle" /\ UNCHANGED <<spec, job, attempts, cluster, api, resumes, hiccups>>
  BY DEF ReadToBlock, ReadToFail, CtlAt, storeVars, worldVars
<1>2. /\ spec.scheduler # "notebook" /\ hiccups \in Nat /\ TrainingTypes
      /\ ctl \in TrainingFrame /\ job \in Row
      /\ ctl.batch.attempt <= Len(cluster) /\ Len(cluster) \in Nat
      /\ job.binding <= Len(cluster)
  BY <1>1, CtlSteers
<1>3. CASE ctl' = Idle
  <2>1. CtlStep("idle") /\ "idle" \in Plainly \ {"attempt"}
    BY <1>3 DEF CtlStep, Plainly
  <2> QED
    BY <1>1, <1>2, <2>1, StepSteers
<1>4. CASE \E label \in {"blocking", "fail", "failing"} : ctl' = [ctl EXCEPT !.pc = label, !.job = job]
  <2>1. PICK label \in {"blocking", "fail", "failing"} : ctl' = [ctl EXCEPT !.pc = label, !.job = job]
    BY <1>4
  <2> DEFINE f == [ctl EXCEPT !.pc = label, !.job = job]
  <2>2. f \in TrainingFrame /\ f.pc = label /\ f.job = job /\ f.batch = ctl.batch
    <3>1. label \in JobLabel
      BY DEF JobLabel
    <3> QED
      BY <1>2, <3>1 DEF TrainingFrame
  <2>3. ctl' = f
    BY <2>1
  <2> HIDE DEF f
  <2>4. ControllerKnows'
    BY <2>2, <2>3 DEF ControllerKnows, Retrying
  <2> QED
    BY <1>1, <1>2, <2>2, <2>3, <2>4, FrameSteers
<1>5. CASE ReadToBlock
  <2> DEFINE label == IF "blocked" \in AllowedTransitions[job.status] THEN "blocking" ELSE "fail"
  <2>1. ctl' = [ctl EXCEPT !.job = job, !.pc = label] /\ label \in {"blocking", "fail"}
    BY <1>5 DEF ReadToBlock
  <2> HIDE DEF label
  <2>2. ctl' = [ctl EXCEPT !.pc = label, !.job = job]
    BY <1>2, <2>1 DEF TrainingFrame
  <2> QED
    BY <1>4, <2>1, <2>2
<1>6. CASE ReadToFail
  BY <1>3, <1>4, <1>6 DEF ReadToFail
<1> QED
  BY <1>5, <1>6

\* What a poll finds: when it finds a failure, the first attempt failed.
LEMMA PollSteers ==
  ASSUME WorkersInv, PollStatus
  PROVE  Steers
<1>1. ctl.pc = "status" /\ UNCHANGED <<spec, job, attempts, cluster, api, resumes, hiccups>>
  BY DEF PollStatus, CtlAt, storeVars, worldVars
<1>2. /\ spec.scheduler # "notebook" /\ hiccups \in Nat /\ TrainingTypes
      /\ ctl \in TrainingFrame /\ ctl.job \in Row /\ job \in Row
      /\ ctl.job.binding <= Len(cluster)
      /\ ctl.batch.attempt <= Len(cluster) /\ Len(cluster) \in Nat
      /\ job.binding <= Len(cluster)
  BY <1>1, CtlSteers
<1> DEFINE target == RuntimeTarget(cluster[ctl.job.binding])
<1>3. CASE ctl' = Idle
  <2>1. CtlStep("idle") /\ "idle" \in Plainly \ {"attempt"}
    BY <1>3 DEF CtlStep, Plainly
  <2> QED
    BY <1>1, <1>2, <2>1, StepSteers
<1>4. CASE /\ target \in AllowedTransitions[ctl.job.status]
           /\ ctl' = [ctl EXCEPT !.pc = "move", !.target = target]
  <2> DEFINE f == [ctl EXCEPT !.pc = "move", !.target = target]
  <2>1. target \in JobStatus /\ target # "queued"
    <3>1. target # "queued"
      BY DEF RuntimeTarget
    <3> QED
      BY <1>2, <1>4, <3>1, JobStatuses DEF Row
  <2>2. target = "failed" => cluster[ctl.job.binding] = "failed"
    BY DEF RuntimeTarget
  <2> HIDE DEF target
  <2>3. f \in TrainingFrame /\ f.pc = "move" /\ f.job = ctl.job /\ f.batch = ctl.batch /\ f.target = target
    BY <1>2, <2>1 DEF TrainingFrame, JobLabel
  <2>4. ctl' = f
    BY <1>4
  <2> HIDE DEF f
  <2>5. Undisturbed => (target = "failed" => FirstFailed)
    <3> SUFFICES ASSUME Undisturbed, target = "failed" PROVE FirstFailed
      OBVIOUS
    <3>1. ctl.job.binding \in Nat /\ ctl.job.binding # 0
      BY <1>1, <1>2 DEF Undisturbed, ControllerKnows, Row
    <3>2. CASE Len(cluster) >= 2
      BY <3>2 DEF Undisturbed, SecondAfterFirst
    <3>3. CASE ~(Len(cluster) >= 2)
      <4>1. ctl.job.binding = 1 /\ Len(cluster) = 1
        <5>1. Len(cluster) <= 1 /\ ctl.job.binding <= Len(cluster)
          BY <1>2, <3>3
        <5>2. \A n, l \in Nat : n # 0 /\ n <= l /\ l <= 1 => n = 1 /\ l = 1
          OBVIOUS
        <5>3. Len(cluster) \in Nat
          BY <1>2
        <5> QED
          BY <3>1, <5>1, <5>2, <5>3
      <4> QED
        BY <2>2, <4>1 DEF FirstFailed
    <3> QED
      BY <3>2, <3>3
  <2>6. Undisturbed => ControllerKnows'
    <3> SUFFICES ASSUME Undisturbed PROVE ControllerKnows'
      OBVIOUS
    <3>1. target = "failed" => FirstFailed'
      BY <1>1, <2>5 DEF FirstFailed
    <3> QED
      BY <2>1, <2>3, <2>4, <3>1 DEF ControllerKnows, Retrying
  <2> QED
    BY <1>1, <1>2, <2>3, <2>4, <2>6, FrameSteers
<1> QED
  BY <1>3, <1>4 DEF PollStatus

LEMMA MarkSteers ==
  ASSUME WorkersInv, MarkAttempt \/ MarkFailedAttempt
  PROVE  Steers
<1>1. ctl.pc # "idle" /\ UNCHANGED <<spec, job, cluster, api, resumes, hiccups>>
  BY DEF MarkAttempt, MarkFailedAttempt, CtlAt, worldVars
<1>2. /\ spec.scheduler # "notebook" /\ hiccups \in Nat /\ TrainingTypes /\ WorkerTypes
      /\ ctl \in TrainingFrame /\ job \in Row
      /\ ctl.job.binding <= Len(cluster)
      /\ ctl.batch.attempt <= Len(cluster) /\ Len(cluster) \in Nat
      /\ job.binding <= Len(cluster)
  BY <1>1, CtlSteers
<1>3. Len(attempts') = Len(attempts)
  BY <1>2, LengthKept DEF MarkAttempt, MarkFailedAttempt
<1>4. CASE ctl' = Idle
  <2>1. CtlStep("idle") /\ "idle" \in Plainly \ {"attempt"}
    BY <1>4 DEF CtlStep, Plainly
  <2> QED
    BY <1>1, <1>2, <1>3, <2>1, StepSteers
<1>5. CASE ctl.pc = "markRetry" /\ RetryLeft /\ ctl' = [ctl EXCEPT !.pc = "retryBinding"]
  <2> DEFINE f == [ctl EXCEPT !.pc = "retryBinding"]
  <2>1. f \in TrainingFrame /\ f.pc = "retryBinding" /\ f.job = ctl.job /\ f.batch = ctl.batch
    BY <1>2 DEF TrainingFrame, JobLabel
  <2>2. ctl' = f
    BY <1>5
  <2> HIDE DEF f
  <2>3. Undisturbed => ControllerKnows'
    <3> SUFFICES ASSUME Undisturbed PROVE ControllerKnows'
      OBVIOUS
    <3>1. FirstFailed'
      BY <1>1, <1>5 DEF Undisturbed, ControllerKnows, Retrying, FirstFailed
    <3>2. Len(cluster) < spec.maximum_attempts
      BY <1>2, <1>5 DEF RetryLeft, WorkerTypes
    <3> QED
      BY <1>1, <2>1, <2>2, <3>1, <3>2 DEF ControllerKnows, Retrying
  <2> QED
    BY <1>1, <1>2, <1>3, <2>1, <2>2, <2>3, FrameSteers
<1> QED
  BY <1>4, <1>5 DEF MarkAttempt, MarkFailedAttempt, CtlAt

LEMMA MovesSteer ==
  ASSUME WorkersInv, Provision \/ Block \/ FollowScheduler \/ Requeue \/ FailJob
  PROVE  Steers
<1>1. ctl.pc # "idle" /\ UNCHANGED <<spec, attempts, cluster, api, resumes, hiccups>>
  BY DEF Provision, Block, FollowScheduler, Requeue, FailJob, CtlAt, worldVars
<1>2. {"idle", "attempt", "mark", "block", "fail"} \subseteq Plainly
  BY DEF Plainly
<1>3. CASE Provision
  BY <1>1, <1>2, <1>3, MoveSteers DEF Provision
<1>4. CASE Block
  BY <1>1, <1>2, <1>4, MoveSteers DEF Block
<1>5. CASE FollowScheduler
  <2>1. ctl.pc = "move"
    BY <1>5 DEF FollowScheduler, CtlAt
  <2>2. Undisturbed => ctl.target # "queued" /\ (ctl.target = "failed" => FirstFailed)
    BY <2>1 DEF Undisturbed, ControllerKnows
  <2>3. CASE ctl.target = "failed"
    <3>1. CtlMove("failed", "markRetry", "fail")
      BY <1>5, <2>3 DEF FollowScheduler
    <3> QED
      BY <1>1, <1>2, <2>2, <2>3, <3>1, MoveSteers
  <2>4. CASE ctl.target # "failed"
    <3>1. CtlMove(ctl.target, "mark", "fail")
      BY <1>5, <2>4 DEF FollowScheduler
    <3> QED
      BY <1>1, <1>2, <2>2, <3>1, MoveSteers
  <2> QED
    BY <2>3, <2>4
<1>6. CASE Requeue
  BY <1>1, <1>2, <1>6, MoveSteers DEF Requeue, CtlAt
<1>7. CASE FailJob
  BY <1>1, <1>2, <1>7, MoveSteers DEF FailJob
<1> QED
  BY <1>3, <1>4, <1>5, <1>6, <1>7

LEMMA StepsSteer ==
  ASSUME WorkersInv, Validate \/ SchedulerRaises \/ CrashController
  PROVE  Steers
<1>1. ctl.pc # "idle" /\ UNCHANGED <<spec, job, attempts, cluster, api, resumes>>
  BY DEF Validate, SchedulerRaises, CrashController, CtlAt, storeVars, worldVars
<1>2. hiccups \in Nat
  BY <1>1, CtlSteers
<1>3. hiccups' \in {hiccups, hiccups + 1}
  BY DEF Validate, SchedulerRaises, CrashController, Crashes
<1>4. \E label \in {"provision", "block", "fail", "idle"} : CtlStep(label)
  BY DEF Validate, SchedulerRaises, CrashController, CtlStep
<1>5. {"provision", "block", "fail", "idle"} \subseteq Plainly \ {"attempt"}
  BY DEF Plainly
<1> QED
  BY <1>1, <1>2, <1>3, <1>4, <1>5, StepSteers
-----------------------------------------------------------------------------
LEMMA ProvisionAttemptKeeps ==
  ASSUME WorkersInv, TrainingTypes', ProvisionAttempt
  PROVE  WorkersInv'
<1>1. ctl.pc = "attempt" /\ CreateAttempt /\ UNCHANGED <<spec, api, resumes, hiccups>>
  BY DEF ProvisionAttempt, CtlAt
<1>2. /\ spec.scheduler # "notebook" /\ TrainingTypes /\ WorkerTypes
      /\ ctl \in TrainingFrame /\ ctl.job \in Row /\ job \in Row
      /\ job.binding <= Len(cluster) /\ ctl.job.binding <= Len(cluster)
  BY <1>1, CtlSteers
<1>3. /\ cluster' \in Seq(ClusterStates) /\ Len(cluster') = Len(cluster) + 1
      /\ Len(cluster) \in Nat /\ Len(attempts') = Len(attempts) + 1
      /\ NextAttempt = Len(cluster) + 1
      /\ job'.status = job.status /\ job'.binding = job.binding
      /\ cluster'[Len(cluster) + 1] = "none"
      /\ \A i \in 1 .. Len(cluster) : cluster'[i] = cluster[i]
  BY <1>1, AttemptAppended
<1>4. ctl'.pc = "submit" /\ ctl'.job = ctl.job /\ ctl'.batch.attempt = Len(cluster) + 1
  BY <1>2, <1>3 DEF ProvisionAttempt, TrainingFrame, TrainingBatch
<1>5. WorkerTypes'
  <2>1. job.binding \in Nat /\ ctl.job.binding \in Nat
    BY <1>2 DEF Row
  <2>2. job.binding <= Len(cluster) + 1 /\ ctl.job.binding <= Len(cluster) + 1
    BY <1>2, <1>3, <2>1
  <2> QED
    BY <1>1, <1>2, <1>3, <1>4, <2>2 DEF WorkerTypes
<1>6. OneWayToStart'
  BY <1>1, <1>2 DEF WorkersInv, OneWayToStart
<1>7. ASSUME resumes' = 0, hiccups' = 0
      PROVE  Undisturbed'
  <2>1. Undisturbed /\ Creating
    BY <1>1, <1>7 DEF WorkersInv, Creating
  <2>2. ~Fresh /\ ~Fresh'
    BY <1>3, <2>1 DEF Undisturbed, OneCreates, Fresh
  <2>3. \A g \in Handlers : ~Creates(g)'
    BY <1>1, <1>2, TrainingAssumption DEF WorkersInv, WorkerTypes, OneWayToStart, Claiming, Creates
  <2>4. ~Creating' /\ OneCreates'
    BY <1>4, <2>3 DEF Creating, OneCreates
  <2>5. Len(cluster) < spec.maximum_attempts /\ (Len(cluster) >= 1 => FirstFailed)
    BY <2>1 DEF Undisturbed, SecondAfterFirst, Budgeted
  <2>6. spec.scheduler = "cluster" /\ spec.maximum_attempts \in Nat
    BY <1>2, TrainingAssumption DEF WorkerTypes
  <2>7. FirstFailed => FirstFailed'
    BY <1>3 DEF FirstFailed
  <2>8. Len(cluster') >= 2 => Len(cluster) >= 1
    BY <1>3
  <2>9. SecondAfterFirst'
    BY <1>1, <2>2, <2>4, <2>5, <2>6, <2>7, <2>8 DEF SecondAfterFirst
  <2>10. Budgeted'
    BY <1>1, <1>3, <2>2, <2>4, <2>5, <2>6 DEF Budgeted
  <2>11. ControllerKnows'
    <3>1. Len(cluster') >= 1 /\ cluster'[Len(cluster')] = "none" /\ ctl'.batch.attempt = Len(cluster')
      BY <1>3, <1>4
    <3> QED
      BY <1>4, <3>1 DEF ControllerKnows, Retrying
  <2> QED
    BY <2>4, <2>9, <2>10, <2>11 DEF Undisturbed
<1> QED
  BY <1>5, <1>6, <1>7 DEF WorkersInv

\* The scheduler takes an attempt, which its controller then records.
LEMMA SubmitAttemptKeeps ==
  ASSUME WorkersInv, TrainingTypes', SubmitAttempt
  PROVE  WorkersInv'
<1>1. ctl.pc = "submit" /\ UNCHANGED <<spec, job, attempts, api, resumes, hiccups>>
  BY DEF SubmitAttempt, CtlAt, storeVars
<1>2. /\ spec.scheduler # "notebook" /\ TrainingTypes /\ WorkerTypes /\ hiccups \in Nat
      /\ ctl.job \in Row /\ job \in Row /\ ctl \in TrainingFrame
      /\ job.binding <= Len(cluster) /\ ctl.job.binding <= Len(cluster)
      /\ ctl.batch.attempt <= Len(cluster) /\ Len(cluster) \in Nat
  BY <1>1, CtlSteers
<1>3. CASE UNCHANGED cluster /\ CtlStep("block")
  <2>1. "block" \in Plainly \ {"attempt"}
    BY DEF Plainly
  <2>2. Steers
    BY <1>1, <1>2, <1>3, <2>1, StepSteers
  <2> QED
    BY <2>2, SteersKeeps
<1>4. CASE PlaceSetTo(cluster, ctl.batch.attempt, "pending", cluster') /\ CtlStep("bind")
  <2>1. /\ cluster' \in Seq(ClusterStates) /\ Len(cluster') = Len(cluster)
        /\ \A i \in 1 .. Len(cluster) : i # ctl.batch.attempt => cluster'[i] = cluster[i]
    <3>1. cluster \in Seq(ClusterStates) /\ "pending" \in ClusterStates
      BY <1>2 DEF WorkerTypes, ClusterStates
    <3>2. SameBut(cluster, ctl.batch.attempt, cluster')
      BY <1>4, <3>1, PlaceSet
    <3> QED
      BY <3>2 DEF SameBut
  <2>2. ctl'.pc = "bind" /\ ctl'.job = ctl.job /\ ctl'.batch = ctl.batch
    <3>1. ctl' = [ctl EXCEPT !.pc = "bind"]
      BY <1>4 DEF CtlStep
    <3> QED
      BY <1>2, <3>1 DEF TrainingFrame
  <2>3. WorkerTypes'
    BY <1>1, <1>2, <2>1, <2>2 DEF WorkerTypes
  <2>4. OneWayToStart'
    BY <1>1, <1>2 DEF WorkersInv, OneWayToStart
  <2>5. ASSUME resumes' = 0, hiccups' = 0
        PROVE  Undisturbed'
    <3>1. Undisturbed
      BY <1>1, <2>5 DEF WorkersInv
    <3>2. /\ Len(cluster) >= 1 /\ cluster[Len(cluster)] = "none"
          /\ ctl.batch.attempt = Len(cluster)
      BY <1>1, <3>1 DEF Undisturbed, ControllerKnows
    <3>3. FirstFailed => FirstFailed'
      <4>1. FirstFailed => ctl.batch.attempt # 1
        BY <3>2 DEF FirstFailed
      <4>2. 1 \in 1 .. Len(cluster)
        BY <1>2, <3>2
      <4> QED
        BY <2>1, <4>1, <4>2 DEF FirstFailed
    <3>4. (Creating' => Creating) /\ (Fresh' <=> Fresh)
          /\ \A g \in Handlers : Creates(g)' <=> Creates(g)
      BY <1>1, <2>2 DEF Creating, Creates, Fresh
    <3>5. OneCreates'
      BY <3>1, <3>4 DEF Undisturbed, OneCreates
    <3>6. SecondAfterFirst' /\ Budgeted'
      BY <1>1, <2>1, <3>1, <3>3, <3>4 DEF Undisturbed, SecondAfterFirst, Budgeted
    <3>7. ControllerKnows'
      BY <2>1, <2>2, <3>2 DEF ControllerKnows, Retrying
    <3> QED
      BY <3>5, <3>6, <3>7 DEF Undisturbed
  <2> QED
    BY <2>3, <2>4, <2>5 DEF WorkersInv
<1> QED
  BY <1>3, <1>4 DEF SubmitAttempt, PlaceSetTo

\* A worker starts or ends: it is not one that failed, nor one that nobody
\* submitted.
LEMMA WorldKeeps ==
  ASSUME WorkersInv, TrainingTypes', UNCHANGED <<spec, job, attempts, api, ctl, resumes, hiccups>>,
         \/ UNCHANGED cluster
         \/ \E a : \E x \in ClusterStates :
              cluster[a] \in {"pending", "active"} /\ PlaceSetTo(cluster, a, x, cluster')
  PROVE  WorkersInv'
<1>1. cluster \in Seq(ClusterStates) /\ Len(cluster) \in Nat /\ WorkerTypes
  BY DEF WorkersInv, WorkerTypes
<1>2. /\ cluster' \in Seq(ClusterStates) /\ Len(cluster') = Len(cluster)
      /\ \A i \in 1 .. Len(cluster) :
           cluster[i] \notin {"pending", "active"} => cluster'[i] = cluster[i]
  <2>1. CASE UNCHANGED cluster
    BY <1>1, <2>1
  <2>2. CASE \E a : \E x \in ClusterStates :
               cluster[a] \in {"pending", "active"} /\ PlaceSetTo(cluster, a, x, cluster')
    <3>1. PICK a : \E x \in ClusterStates :
               cluster[a] \in {"pending", "active"} /\ PlaceSetTo(cluster, a, x, cluster')
      BY <2>2
    <3>2. PICK x \in ClusterStates : PlaceSetTo(cluster, a, x, cluster')
      BY <3>1
    <3>3. SameBut(cluster, a, cluster')
      BY <1>1, <3>2, PlaceSet
    <3> QED
      BY <3>1, <3>3 DEF SameBut
  <2> QED
    BY <2>1, <2>2
<1>3. WorkerTypes'
  BY <1>1, <1>2 DEF WorkerTypes
<1>4. OneWayToStart'
  BY DEF WorkersInv, OneWayToStart
<1>5. ASSUME resumes' = 0, hiccups' = 0
      PROVE  Undisturbed'
  <2>1. Undisturbed
    BY <1>5 DEF WorkersInv
  <2>2. FirstFailed => FirstFailed'
    BY <1>1, <1>2 DEF FirstFailed
  <2>3. Len(cluster) >= 1 /\ cluster[Len(cluster)] = "none" => cluster'[Len(cluster)] = "none"
    BY <1>1, <1>2
  <2>4. (Creating' <=> Creating) /\ (Fresh' <=> Fresh)
        /\ \A g \in Handlers : Creates(g)' <=> Creates(g)
    BY DEF Creating, Creates, Fresh
  <2>5. OneCreates'
    BY <2>1, <2>4 DEF Undisturbed, OneCreates
  <2>6. SecondAfterFirst' /\ Budgeted'
    BY <1>2, <2>1, <2>2, <2>4 DEF Undisturbed, SecondAfterFirst, Budgeted
  <2>7. ControllerKnows'
    BY <1>2, <2>1, <2>2, <2>3 DEF Undisturbed, ControllerKnows
  <2> QED
    BY <2>5, <2>6, <2>7 DEF Undisturbed
<1> QED
  BY <1>3, <1>4, <1>5 DEF WorkersInv

LEMMA WorkersStart == TrainingInit => WorkersInv
<1> SUFFICES ASSUME TrainingInit PROVE WorkersInv
  OBVIOUS
<1>1. TrainingTypes
  BY TrainingStarts DEF VersionInv
<1>2. /\ cluster = << >> /\ attempts = << >> /\ job = NoJob /\ ctl = Idle /\ spec \in Jobs
      /\ resumes = 0 /\ hiccups = 0 /\ \A h \in Handlers : api[h] = Idle
  BY DEF TrainingInit
<1>3. Idle.batch.attempt = 0 /\ "idle" \notin Claiming /\ "idle" \notin Retrying
  BY DEF Idle, NoBatch, Claiming, Retrying
<1>4. WorkerTypes
  BY <1>2, <1>3, IdleFrame DEF WorkerTypes
<1>5. OneWayToStart
  BY <1>2, <1>3, IdleFrame DEF OneWayToStart
<1>6. OneCreates /\ ControllerKnows
  BY <1>2, <1>3, IdleFrame DEF OneCreates, ControllerKnows, Creating, Creates
<1>7. spec.maximum_attempts \in Nat \ {0} /\ Len(cluster) = 0
  BY <1>2, TrainingAssumption
<1>8. SecondAfterFirst /\ Budgeted
  BY <1>7 DEF SecondAfterFirst, Budgeted
<1> QED
  BY <1>1, <1>4, <1>5, <1>6, <1>8 DEF WorkersInv, Undisturbed

LEMMA WorkersStep ==
  VersionInv /\ WorkersInv /\ TrainingTypes' /\ [TrainingNext]_trainingVars => WorkersInv'
<1> SUFFICES ASSUME VersionInv, WorkersInv, TrainingTypes', [TrainingNext]_trainingVars
             PROVE  WorkersInv'
  OBVIOUS
<1>1. CASE \E h \in Handlers : Request(h) \/ Serve(h) \/ CrashHandler(h) \/ RedisRaises(h)
  <2>1. PICK h \in Handlers : Request(h) \/ Serve(h) \/ CrashHandler(h) \/ RedisRaises(h)
    BY <1>1
  <2>2. Plain(h) \/ Starts(h)
    BY <2>1, RequestsArePlain, ServesArePlain
  <2> QED
    BY <2>2, PlainKeeps, ClaimProvisionKeeps, ClaimAttemptKeeps, ClaimStartedKeeps DEF Starts
<1>2. CASE Reconcile \/ RotateCredentials \/ SchedulerRaises \/ CrashController
  <2>1. CASE ProvisionAttempt \/ SubmitAttempt
    BY <2>1, ProvisionAttemptKeeps, SubmitAttemptKeeps
  <2>2. CASE ~(ProvisionAttempt \/ SubmitAttempt)
    <3>1. Steers
      BY <1>2, <2>2, ListSteers, BindSteers, ReadSteers, PollSteers, MarkSteers, MovesSteer,
        StepsSteer
        DEF Reconcile
    <3> QED
      BY <3>1, SteersKeeps
  <2> QED
    BY <2>1, <2>2
<1>3. CASE RegisterPromoted \/ World \/ UNCHANGED trainingVars
  <2>1. UNCHANGED <<spec, job, attempts, api, ctl, resumes, hiccups>>
    BY <1>3 DEF RegisterPromoted, World, WorkerStarts, WorkerEnds,
      SchedulerCancels, WorkerEmits, storeVars, trainingVars
  <2>2. \/ UNCHANGED cluster
        \/ \E a : \E x \in ClusterStates :
             cluster[a] \in {"pending", "active"} /\ PlaceSetTo(cluster, a, x, cluster')
    <3>1. {"active", "succeeded", "failed", "cancelled"} \subseteq ClusterStates
      BY DEF ClusterStates
    <3>2. CASE World
      <4>1. PICK a \in 1 .. Len(cluster) :
              \/ WorkerStarts(a) \/ WorkerEnds(a) \/ SchedulerCancels(a)
              \/ \E k \in spec.kinds : WorkerEmits(a, k)
        BY <3>2 DEF World
      <4>2. CASE WorkerStarts(a)
        BY <3>1, <4>2 DEF WorkerStarts, PlaceSetTo
      <4>3. CASE WorkerEnds(a)
        BY <3>1, <4>3 DEF WorkerEnds, PlaceSetTo
      <4>4. CASE SchedulerCancels(a)
        BY <3>1, <4>4 DEF SchedulerCancels, PlaceSetTo
      <4>5. CASE \E k \in spec.kinds : WorkerEmits(a, k)
        BY <4>5 DEF WorkerEmits
      <4> QED
        BY <4>1, <4>2, <4>3, <4>4, <4>5
    <3>3. CASE RegisterPromoted \/ UNCHANGED trainingVars
      BY <3>3 DEF RegisterPromoted, worldVars, trainingVars
    <3> QED
      BY <1>3, <3>2, <3>3
  <2> QED
    BY <2>1, <2>2, WorldKeeps
<1> QED
  BY <1>1, <1>2, <1>3 DEF TrainingNext

LEMMA WorkersInvHolds == TrainingSpec => []WorkersInv
<1>1. VersionInv => TrainingTypes
  BY DEF VersionInv
<1> QED
  BY <1>1, WorkersStart, WorkersStep, TrainingInvHolds, PTL DEF TrainingSpec

LEMMA WorkersCounted ==
  ASSUME WorkersInv, resumes = 0, hiccups = 0
  PROVE  OneWorkerTrains
<1> DEFINE n == Len(cluster)
<1>1. Undisturbed /\ n \in Nat /\ spec.maximum_attempts \in Nat
  BY TrainingAssumption DEF WorkersInv, WorkerTypes
<1>2. n <= spec.maximum_attempts /\ (n >= 2 => FirstFailed)
  BY <1>1 DEF Undisturbed, Budgeted, SecondAfterFirst
<1>3. CASE n <= 1
  <2>1. LiveAttempts \subseteq {1}
    BY <1>1, <1>3 DEF LiveAttempts
  <2>2. Cardinality(LiveAttempts) <= Cardinality({1}) /\ Cardinality({1}) = 1
    BY <2>1, FS_Singleton, FS_Subset
  <2> QED
    BY <2>2 DEF OneWorkerTrains
<1>4. CASE n >= 2
  <2>1. LiveAttempts \subseteq 2 .. n
    BY <1>1, <1>2, <1>4 DEF LiveAttempts, FirstFailed
  <2>2. IsFiniteSet(2 .. n) /\ Cardinality(2 .. n) = n - 1
    BY <1>1, <1>4, FS_Interval
  <2>3. Cardinality(LiveAttempts) <= n - 1 /\ Cardinality(LiveAttempts) \in Nat
    BY <2>1, <2>2, FS_Subset, FS_CardinalityType
  <2>4. Cardinality(LiveAttempts) < spec.maximum_attempts
    BY <1>1, <1>2, <2>3
  <2> QED
    BY <2>4 DEF OneWorkerTrains
<1> QED
  BY <1>1, <1>3, <1>4

\* As long as nobody resumes the job and nothing fails around it, fewer workers
\* train it than it has attempts, or one: clients that claim, the controller and
\* the events start none before the first one has ended.
\* (claim_notebook_job, reconcile_job, _retry_or_finalize.)
THEOREM WorkersAreBounded == TrainingSpec => []OneWorkerTrains
<1>1. WorkersInv => OneWorkerTrains
  BY WorkersCounted DEF OneWorkerTrains
<1> QED
  BY <1>1, WorkersInvHolds, PTL
-----------------------------------------------------------------------------
(* Admission. *)

AdmissionFrame ==
  [pc : {"idle", "predecessor", "quota", "insert", "queue"}, key : Keys \union {NoKey}]

AdmissionTypeOK ==
  /\ created \in Seq(Keys)
  /\ state \in [Keys -> {"absent", "validating", "active", "succeeded", "failed"}]
  /\ proven \in SUBSET Keys
  /\ revived \in SUBSET Keys
  /\ admission \in [Gateways -> AdmissionFrame]

\* Some row before position n succeeded at the milestone before m.
Reached(m, n) ==
  \E j \in DOMAIN created :
    /\ j < n
    /\ Milestone[created[j]] = m - 1
    /\ state[created[j]] = "succeeded"
    /\ created[j] \in proven

\* A request that passed the predecessor check has a row that unlocks its
\* milestone; the row a request goes on to queue is its own.
AdmissionIsDue(g) ==
  /\ admission[g].pc # "idle" => admission[g].key \in Keys
  /\ admission[g].pc \in {"quota", "insert"} /\ Milestone[admission[g].key] > 1
       => Reached(Milestone[admission[g].key], Len(created) + 1)
  /\ admission[g].pc = "queue" => state[admission[g].key] = "validating"

QueuesItsOwn ==
  \A g, h \in Gateways :
    admission[g].pc = "queue" /\ admission[h].pc = "queue" /\ g # h
      => admission[g].key # admission[h].key

Inserting == {g \in Gateways : admission[g].pc = "insert"}

\* Every request that may still insert a row is charged to the overshoot.
AdmissionsCharged ==
  Cardinality(Active \ revived) + Cardinality(Inserting) <= Quota + Cardinality(Gateways) - 1

AdmissionInv ==
  /\ AdmissionTypeOK
  /\ \A i \in DOMAIN created : state[created[i]] # "absent"
  /\ \A i \in DOMAIN created :
       Milestone[created[i]] > 1 => Reached(Milestone[created[i]], i)
  /\ \A g \in Gateways : AdmissionIsDue(g)
  /\ QueuesItsOwn
  /\ AdmissionsCharged

LEMMA AdmissionStarts ==
  ASSUME AdmissionInit
  PROVE  AdmissionInv
<1> USE AdmissionAssumption
<1>1. AdmissionTypeOK
  BY DEF AdmissionInit, AdmissionTypeOK, AdmissionFrame, NoAdmission
<1>2. Active \ revived = {} /\ Inserting = {}
  BY DEF AdmissionInit, Active, Inserting, NoAdmission
<1>3. Cardinality({}) = 0 /\ Cardinality(Gateways) \in Nat
  BY FS_EmptySet, FS_CardinalityType
<1>4. Quota - 1 \in Nat
  OBVIOUS
<1>5. Cardinality(Gateways) = 0 => 0 <= Quota + 0 - 1
  OBVIOUS
<1>6. AdmissionsCharged
  BY <1>2, <1>3, <1>4 DEF AdmissionsCharged
<1>7. \A g \in Gateways : admission[g].pc = "idle"
  BY DEF AdmissionInit, NoAdmission
<1>8. DOMAIN created = {}
  BY DEF AdmissionInit
<1> QED
  BY <1>1, <1>6, <1>7, <1>8 DEF AdmissionInv, AdmissionIsDue, QueuesItsOwn

\* Active jobs and inserting requests that do not become more stay charged.
LEMMA ChargesLast ==
  ASSUME AdmissionInv, AdmissionTypeOK',
         (Active \ revived)' \subseteq Active \ revived, Inserting' \subseteq Inserting
  PROVE  AdmissionsCharged'
<1>1. IsFiniteSet(Active \ revived) /\ IsFiniteSet(Inserting)
  BY AdmissionAssumption, FS_Subset DEF Active, Inserting
<1>2. /\ Cardinality((Active \ revived)') <= Cardinality(Active \ revived)
      /\ Cardinality(Inserting') <= Cardinality(Inserting)
  BY <1>1, FS_Subset
<1>3. /\ Cardinality(Active \ revived) \in Nat /\ Cardinality((Active \ revived)') \in Nat
      /\ Cardinality(Inserting) \in Nat /\ Cardinality(Inserting') \in Nat
      /\ Cardinality(Gateways) \in Nat
  BY <1>1, FS_Subset, FS_CardinalityType, AdmissionAssumption
<1> QED
  BY <1>2, <1>3, AdmissionAssumption DEF AdmissionInv, AdmissionsCharged

\* What was reached stays reached, since success is final.
LEMMA ReachedLasts ==
  ASSUME AdmissionInv, NEW m, NEW n, Reached(m, n),
         created' = created \/ \E k \in Keys : created' = Append(created, k),
         \A k \in Keys : state[k] = "succeeded" => state'[k] = "succeeded",
         proven \subseteq proven'
  PROVE  Reached(m, n)'
<1>1. PICK j \in DOMAIN created : /\ j < n
                                  /\ Milestone[created[j]] = m - 1
                                  /\ state[created[j]] = "succeeded"
                                  /\ created[j] \in proven
  BY DEF Reached
<1>2. j \in DOMAIN created' /\ created'[j] = created[j]
  BY <1>1 DEF AdmissionInv, AdmissionTypeOK
<1>3. created[j] \in Keys
  BY <1>1 DEF AdmissionInv, AdmissionTypeOK
<1> QED
  BY <1>1, <1>2, <1>3 DEF Reached

\* A step of one request that changes no row.
LEMMA OnlyAdmissionMoves ==
  ASSUME AdmissionInv, NEW g \in Gateways, NEW f \in AdmissionFrame,
         admission' = [admission EXCEPT ![g] = f],
         UNCHANGED <<created, state, proven, revived>>,
         f.pc # "queue", AdmissionIsDue(g)', AdmissionsCharged'
  PROVE  AdmissionInv'
<1>1. AdmissionTypeOK'
  BY DEF AdmissionInv, AdmissionTypeOK
<1>2. admission'[g] = f /\ \A h \in Gateways \ {g} : admission'[h] = admission[h]
  BY DEF AdmissionInv, AdmissionTypeOK
<1>3. \A m, n : Reached(m, n)' <=> Reached(m, n)
  BY DEF Reached
<1>4. \A h \in Gateways : AdmissionIsDue(h)'
  BY <1>2, <1>3 DEF AdmissionInv, AdmissionIsDue
<1>5. QueuesItsOwn'
  BY <1>2 DEF AdmissionInv, QueuesItsOwn
<1> QED
  BY <1>1, <1>3, <1>4, <1>5 DEF AdmissionInv

\* A step that only changes the rows, of keys that no request is queueing.
LEMMA OnlyRowsMove ==
  ASSUME AdmissionInv, AdmissionTypeOK', UNCHANGED <<created, admission>>,
         proven \subseteq proven',
         \A k \in Keys : /\ state[k] = "succeeded" => state'[k] = "succeeded"
                         /\ state[k] # "absent" => state'[k] # "absent"
                         /\ state[k] = "validating" => state'[k] = "validating",
         (Active \ revived)' \subseteq Active \ revived
  PROVE  AdmissionInv'
<1>1. Inserting' \subseteq Inserting
  BY DEF Inserting
<1>2. AdmissionsCharged'
  BY <1>1, ChargesLast
<1>3. \A m, n : Reached(m, n) => Reached(m, n)'
  BY ReachedLasts
<1>4. \A i \in DOMAIN created : created[i] \in Keys
  BY DEF AdmissionInv, AdmissionTypeOK
<1>5. \A g \in Gateways : AdmissionIsDue(g)'
  BY <1>3 DEF AdmissionInv, AdmissionIsDue
<1>6. QueuesItsOwn'
  BY DEF AdmissionInv, QueuesItsOwn
<1> QED
  BY <1>2, <1>3, <1>4, <1>5, <1>6 DEF AdmissionInv

LEMMA AdmissionStep ==
  ASSUME AdmissionInv, [AdmissionNext]_admissionVars
  PROVE  AdmissionInv'
<1> USE AdmissionAssumption
<1>1. ASSUME NEW g \in Gateways, NEW k \in Keys, BeginAdmission(g, k)
      PROVE  AdmissionInv'
  <2> DEFINE f == [pc |-> "predecessor", key |-> k]
  <2>1. f \in AdmissionFrame
    BY DEF AdmissionFrame
  <2>2. admission'[g] = f /\ \A h \in Gateways \ {g} : admission'[h] = admission[h]
    BY <1>1 DEF BeginAdmission, AdmissionInv, AdmissionTypeOK
  <2>3. AdmissionIsDue(g)'
    BY <2>2 DEF AdmissionIsDue
  <2>4. AdmissionTypeOK'
    BY <1>1, <2>1 DEF BeginAdmission, AdmissionInv, AdmissionTypeOK
  <2>5. AdmissionsCharged'
    BY <1>1, <2>2, <2>4, ChargesLast DEF BeginAdmission, Active, Inserting
  <2> QED
    BY <1>1, <2>1, <2>3, <2>5, OnlyAdmissionMoves DEF BeginAdmission
<1>2. ASSUME NEW g \in Gateways, ValidateQualificationPredecessor(g)
      PROVE  AdmissionInv'
  <2> DEFINE k == admission[g].key
             f == IF Unlocked(Milestone[k]) THEN [admission[g] EXCEPT !.pc = "quota"] ELSE NoAdmission
  <2>1. k \in Keys /\ admission[g] \in AdmissionFrame
    BY <1>2 DEF ValidateQualificationPredecessor, Asks, AdmissionInv, AdmissionIsDue,
      AdmissionTypeOK
  <2>2. f \in AdmissionFrame /\ f.pc \in {"quota", "idle"} /\ (f.pc = "quota" => f.key = k)
    BY <2>1 DEF AdmissionFrame, NoAdmission
  <2>3. f.pc = "quota" => Unlocked(Milestone[k])
    BY <2>1 DEF AdmissionFrame, NoAdmission
  <2>4. admission' = [admission EXCEPT ![g] = f]
    BY <1>2 DEF ValidateQualificationPredecessor, Goes
  <2> HIDE DEF f
  <2>5. admission'[g] = f /\ \A h \in Gateways \ {g} : admission'[h] = admission[h]
    BY <2>4 DEF AdmissionInv, AdmissionTypeOK
  <2>6. Unlocked(Milestone[k]) /\ Milestone[k] > 1 => Reached(Milestone[k], Len(created) + 1)
    BY <2>1 DEF Unlocked, Newest, Candidates, Reached, AdmissionInv, AdmissionTypeOK
  <2>7. \A m, n : Reached(m, n)' <=> Reached(m, n)
    BY <1>2 DEF ValidateQualificationPredecessor, Reached
  <2>8. AdmissionIsDue(g)'
    BY <1>2, <2>1, <2>2, <2>3, <2>5, <2>6, <2>7 DEF ValidateQualificationPredecessor, AdmissionIsDue
  <2>9. AdmissionTypeOK'
    BY <1>2, <2>2, <2>4 DEF ValidateQualificationPredecessor, AdmissionInv, AdmissionTypeOK
  <2>10. AdmissionsCharged'
    BY <1>2, <2>2, <2>5, <2>9, ChargesLast DEF ValidateQualificationPredecessor, Active, Inserting
  <2> QED
    BY <1>2, <2>2, <2>4, <2>8, <2>10, OnlyAdmissionMoves DEF ValidateQualificationPredecessor
<1>3. ASSUME NEW g \in Gateways, CheckQuota(g)
      PROVE  AdmissionInv'
  <2> DEFINE f == IF QuotaLeft THEN [admission[g] EXCEPT !.pc = "insert"] ELSE NoAdmission
  <2>1. admission[g] \in AdmissionFrame /\ admission[g].pc = "quota"
    BY <1>3 DEF CheckQuota, Asks, AdmissionInv, AdmissionTypeOK
  <2>2. /\ f \in AdmissionFrame /\ f.pc \in {"insert", "idle"}
        /\ f.pc = "insert" => f.key = admission[g].key /\ QuotaLeft
    BY <2>1 DEF AdmissionFrame, NoAdmission
  <2>3. admission' = [admission EXCEPT ![g] = f]
    BY <1>3 DEF CheckQuota, Goes
  <2> HIDE DEF f
  <2>4. admission'[g] = f /\ \A h \in Gateways \ {g} : admission'[h] = admission[h]
    BY <2>3 DEF AdmissionInv, AdmissionTypeOK
  <2>5. \A m, n : Reached(m, n)' <=> Reached(m, n)
    BY <1>3 DEF CheckQuota, Reached
  <2>6. AdmissionIsDue(g)'
    BY <1>3, <2>1, <2>2, <2>4, <2>5 DEF CheckQuota, AdmissionInv, AdmissionIsDue
  <2>7. AdmissionTypeOK'
    BY <1>3, <2>2, <2>3 DEF CheckQuota, AdmissionInv, AdmissionTypeOK
  <2>8. AdmissionsCharged'
    <3>1. CASE f.pc = "idle"
      BY <1>3, <2>4, <2>7, <3>1, ChargesLast DEF CheckQuota, Active, Inserting
    <3>2. CASE QuotaLeft
      <4>1. IsFiniteSet(Active) /\ Active \ revived \subseteq Active /\ Inserting' \subseteq Gateways
        BY FS_Subset DEF Active, Inserting
      <4>2. /\ Cardinality(Active \ revived) <= Cardinality(Active)
            /\ Cardinality(Inserting') <= Cardinality(Gateways)
        BY <4>1, FS_Subset
      <4>3. /\ Cardinality(Active \ revived) \in Nat /\ Cardinality(Active) \in Nat
            /\ Cardinality(Inserting') \in Nat /\ Cardinality(Gateways) \in Nat
        BY <4>1, FS_Subset, FS_CardinalityType
      <4>4. (Active \ revived)' = Active \ revived
        BY <1>3 DEF CheckQuota, Active
      <4> QED
        BY <3>2, <4>2, <4>3, <4>4 DEF QuotaLeft, AdmissionsCharged
    <3> QED
      BY <2>2, <3>1, <3>2
  <2> QED
    BY <1>3, <2>2, <2>3, <2>6, <2>8, OnlyAdmissionMoves DEF CheckQuota
<1>4. ASSUME NEW g \in Gateways, InsertRow(g)
      PROVE  AdmissionInv'
  <2> DEFINE k == admission[g].key
  <2>1. k \in Keys /\ admission[g] \in AdmissionFrame /\ admission[g].pc = "insert"
    BY <1>4 DEF InsertRow, Asks, AdmissionInv, AdmissionIsDue, AdmissionTypeOK
  <2>2. CASE state[k] # "absent"
    <3>1. /\ admission' = [admission EXCEPT ![g] = NoAdmission]
          /\ UNCHANGED <<created, state, proven, revived>>
      BY <1>4, <2>2 DEF InsertRow, Goes
    <3>2. NoAdmission \in AdmissionFrame /\ NoAdmission.pc = "idle"
      BY DEF NoAdmission, AdmissionFrame
    <3>3. admission'[g] = NoAdmission /\ \A h \in Gateways \ {g} : admission'[h] = admission[h]
      BY <3>1 DEF AdmissionInv, AdmissionTypeOK
    <3>4. AdmissionTypeOK'
      BY <3>1, <3>2 DEF AdmissionInv, AdmissionTypeOK
    <3>5. AdmissionsCharged'
      BY <3>1, <3>2, <3>3, <3>4, ChargesLast DEF Active, Inserting
    <3>6. AdmissionIsDue(g)'
      BY <3>2, <3>3 DEF AdmissionIsDue
    <3> QED
      BY <3>1, <3>2, <3>5, <3>6, OnlyAdmissionMoves
  <2>3. CASE state[k] = "absent"
    <3> DEFINE f == [admission[g] EXCEPT !.pc = "queue"]
    <3>1. f \in AdmissionFrame /\ f.pc = "queue" /\ f.key = k
      BY <2>1 DEF AdmissionFrame
    <3>2. /\ admission' = [admission EXCEPT ![g] = f]
          /\ created' = Append(created, k)
          /\ state' = [state EXCEPT ![k] = "validating"]
          /\ UNCHANGED <<proven, revived>>
      BY <1>4, <2>3 DEF InsertRow, Goes
    <3> HIDE DEF f
    <3>3. admission'[g] = f /\ \A h \in Gateways \ {g} : admission'[h] = admission[h]
      BY <3>2 DEF AdmissionInv, AdmissionTypeOK
    <3>4. AdmissionTypeOK'
      <4>1. created' \in Seq(Keys)
        BY <2>1, <3>2 DEF AdmissionInv, AdmissionTypeOK
      <4> QED
        BY <3>1, <3>2, <4>1 DEF AdmissionInv, AdmissionTypeOK
    <3>5. state'[k] = "validating" /\ \A l \in Keys \ {k} : state'[l] = state[l]
      BY <2>1, <3>2 DEF AdmissionInv, AdmissionTypeOK
    <3>6. \A m, n : Reached(m, n) => Reached(m, n)'
      BY <2>1, <2>3, <3>2, <3>5, ReachedLasts
    <3>7. Len(created') = Len(created) + 1 /\ created'[Len(created) + 1] = k
      BY <2>1, <3>2 DEF AdmissionInv, AdmissionTypeOK
    <3>8. /\ DOMAIN created' = DOMAIN created \union {Len(created) + 1}
          /\ \A i \in DOMAIN created : created'[i] = created[i] /\ created[i] \in Keys
      BY <2>1, <3>2 DEF AdmissionInv, AdmissionTypeOK
    <3>9. Len(created) \in Nat /\ DOMAIN created = 1 .. Len(created)
      BY DEF AdmissionInv, AdmissionTypeOK
    <3>10. \A i \in DOMAIN created' : state'[created'[i]] # "absent"
      BY <3>5, <3>7, <3>8 DEF AdmissionInv
    <3>11. Milestone[k] > 1 => Reached(Milestone[k], Len(created) + 1)
      BY <1>4, <2>1 DEF AdmissionInv, AdmissionIsDue
    <3>12. \A i \in DOMAIN created' : Milestone[created'[i]] > 1
             => (Reached(Milestone[created[i]], i))'
      <4>1. ASSUME NEW i \in DOMAIN created, Milestone[created'[i]] > 1
            PROVE  (Reached(Milestone[created[i]], i))'
        <5>1. Reached(Milestone[created[i]], i)
          BY <3>8, <4>1 DEF AdmissionInv
        <5>2. PICK j \in DOMAIN created : /\ j < i
                                          /\ Milestone[created[j]] = Milestone[created[i]] - 1
                                          /\ state[created[j]] = "succeeded"
                                          /\ created[j] \in proven
          BY <5>1 DEF Reached
        <5>3. j \in DOMAIN created' /\ created'[j] = created[j] /\ created'[i] = created[i]
          BY <3>8, <5>2, <4>1
        <5>4. state'[created[j]] = "succeeded"
          BY <2>3, <3>5, <3>8, <5>2
        <5> QED
          BY <3>2, <5>2, <5>3, <5>4 DEF Reached
      <4>2. ASSUME Milestone[k] > 1
            PROVE  (Reached(Milestone[created[Len(created)]], Len(created)))'
        <5>1. PICK j \in DOMAIN created : /\ j < Len(created) + 1
                                          /\ Milestone[created[j]] = Milestone[k] - 1
                                          /\ state[created[j]] = "succeeded"
                                          /\ created[j] \in proven
          BY <3>11, <4>2 DEF Reached
        <5>2. j \in DOMAIN created' /\ created'[j] = created[j]
          BY <3>8, <5>1
        <5>3. state'[created[j]] = "succeeded"
          BY <2>3, <3>5, <3>8, <5>1
        <5> QED
          BY <3>2, <3>7, <5>1, <5>2, <5>3 DEF Reached
      <4> QED
        BY <3>7, <3>8, <4>1, <4>2
    <3>13. \A h \in Gateways : AdmissionIsDue(h)'
      <4>1. ASSUME NEW h \in Gateways \ {g}
            PROVE  AdmissionIsDue(h)'
        <5>1. admission'[h] = admission[h] /\ AdmissionIsDue(h)
          BY <3>3 DEF AdmissionInv
        <5>2. admission'[h].pc # "idle" => admission'[h].key \in Keys
          BY <5>1 DEF AdmissionIsDue
        <5>3. admission'[h].pc = "queue" => state'[admission'[h].key] = "validating"
          BY <3>5, <5>1, <5>2 DEF AdmissionIsDue
        <5>4. ASSUME admission[h].pc \in {"quota", "insert"}, Milestone[admission[h].key] > 1
              PROVE  Reached(Milestone[admission[h].key], Len(created) + 1)'
          <6>1. PICK j \in DOMAIN created : /\ j < Len(created) + 1
                                            /\ Milestone[created[j]] = Milestone[admission[h].key] - 1
                                            /\ state[created[j]] = "succeeded"
                                            /\ created[j] \in proven
            BY <5>1, <5>4 DEF AdmissionIsDue, Reached
          <6>2. j \in DOMAIN created' /\ created'[j] = created[j] /\ j < Len(created') + 1
            BY <3>7, <3>8, <3>9, <6>1
          <6>3. state'[created[j]] = "succeeded"
            BY <2>3, <3>5, <3>8, <6>1
          <6> QED
            BY <3>2, <5>1, <6>1, <6>2, <6>3 DEF Reached
        <5> QED
          BY <5>1, <5>2, <5>3, <5>4 DEF AdmissionIsDue
      <4>3. AdmissionIsDue(g)'
        BY <2>1, <3>1, <3>3, <3>5 DEF AdmissionIsDue
      <4> QED
        BY <4>1, <4>3
    <3>14. QueuesItsOwn'
      BY <2>3, <3>1, <3>3 DEF QueuesItsOwn, AdmissionInv, AdmissionIsDue
    <3>15. AdmissionsCharged'
      <4>1. (Active \ revived)' \subseteq (Active \ revived) \union {k}
        BY <3>2, <3>5 DEF Active
      <4>2. Inserting' = Inserting \ {g} /\ g \in Inserting
        BY <2>1, <3>1, <3>3 DEF Inserting
      <4>3. IsFiniteSet(Active \ revived) /\ IsFiniteSet(Inserting)
        BY FS_Subset DEF Active, Inserting
      <4>4. IsFiniteSet((Active \ revived) \union {k})
        BY <4>3, FS_AddElement
      <4>5. Cardinality((Active \ revived)') <= Cardinality((Active \ revived) \union {k})
        BY <4>1, <4>4, FS_Subset
      <4>6. \/ Cardinality((Active \ revived) \union {k}) = Cardinality(Active \ revived)
            \/ Cardinality((Active \ revived) \union {k}) = Cardinality(Active \ revived) + 1
        BY <4>3, FS_AddElement
      <4>7. Cardinality(Inserting') = Cardinality(Inserting) - 1
        BY <4>2, <4>3, FS_RemoveElement
      <4>8. /\ Cardinality(Active \ revived) \in Nat /\ Cardinality((Active \ revived)') \in Nat
            /\ Cardinality(Inserting) \in Nat /\ Cardinality(Gateways) \in Nat
        BY <4>1, <4>3, <4>4, FS_Subset, FS_CardinalityType
      <4>9. AdmissionsCharged
        BY DEF AdmissionInv
      <4> QED
        BY <4>5, <4>6, <4>7, <4>8, <4>9 DEF AdmissionsCharged
    <3>16. (\A i \in DOMAIN created : Milestone[created[i]] > 1
              => Reached(Milestone[created[i]], i))'
      BY <3>12
    <3> QED
      BY <3>4, <3>10, <3>13, <3>14, <3>15, <3>16 DEF AdmissionInv
  <2> QED
    BY <2>2, <2>3
<1>5. ASSUME NEW g \in Gateways, QueueRow(g)
      PROVE  AdmissionInv'
  <2> DEFINE k == admission[g].key
  <2>1. /\ k \in Keys /\ admission[g].pc = "queue" /\ state[k] = "validating"
    BY <1>5 DEF QueueRow, Asks, AdmissionInv, AdmissionIsDue
  <2>2. /\ admission' = [admission EXCEPT ![g] = NoAdmission]
        /\ state' = [state EXCEPT ![k] = "active"]
        /\ UNCHANGED <<created, proven, revived>>
    BY <1>5 DEF QueueRow, Goes
  <2>3. NoAdmission \in AdmissionFrame /\ NoAdmission.pc = "idle"
    BY DEF NoAdmission, AdmissionFrame
  <2>4. admission'[g] = NoAdmission /\ \A h \in Gateways \ {g} : admission'[h] = admission[h]
    BY <2>2 DEF AdmissionInv, AdmissionTypeOK
  <2>5. state'[k] = "active" /\ \A l \in Keys \ {k} : state'[l] = state[l]
    BY <2>1, <2>2 DEF AdmissionInv, AdmissionTypeOK
  <2>6. AdmissionTypeOK'
    BY <2>2, <2>3 DEF AdmissionInv, AdmissionTypeOK
  <2>7. AdmissionsCharged'
    BY <2>1, <2>2, <2>3, <2>4, <2>5, <2>6, ChargesLast DEF Active, Inserting
  <2>8. \A m, n : Reached(m, n) => Reached(m, n)'
    BY <2>1, <2>2, <2>5, ReachedLasts
  <2>9. \A i \in DOMAIN created : created[i] \in Keys
    BY DEF AdmissionInv, AdmissionTypeOK
  <2>10. \A h \in Gateways \ {g} : AdmissionIsDue(h)'
    <3> SUFFICES ASSUME NEW h \in Gateways \ {g}
                 PROVE  AdmissionIsDue(h)'
      OBVIOUS
    <3>1. admission'[h] = admission[h] /\ AdmissionIsDue(h)
      BY <2>4 DEF AdmissionInv
    <3>2. admission[h].pc = "queue" => admission[h].key # k
      BY <2>1 DEF AdmissionInv, QueuesItsOwn
    <3> QED
      BY <2>2, <2>5, <2>8, <3>1, <3>2 DEF AdmissionIsDue
  <2>11. AdmissionIsDue(g)'
    BY <2>3, <2>4 DEF AdmissionIsDue
  <2>12. QueuesItsOwn'
    BY <2>3, <2>4 DEF AdmissionInv, QueuesItsOwn
  <2>13. \A i \in DOMAIN created' : state'[created'[i]] # "absent"
    BY <2>2, <2>5, <2>9 DEF AdmissionInv
  <2> QED
    BY <2>2, <2>6, <2>7, <2>8, <2>10, <2>11, <2>12, <2>13 DEF AdmissionInv
<1>6. ASSUME NEW g \in Gateways, AdmissionDies(g)
      PROVE  AdmissionInv'
  <2>1. /\ admission' = [admission EXCEPT ![g] = NoAdmission]
        /\ UNCHANGED <<created, state, proven, revived>>
    BY <1>6 DEF AdmissionDies, Goes
  <2>2. NoAdmission \in AdmissionFrame /\ NoAdmission.pc = "idle"
    BY DEF NoAdmission, AdmissionFrame
  <2>3. admission'[g] = NoAdmission /\ \A h \in Gateways \ {g} : admission'[h] = admission[h]
    BY <2>1 DEF AdmissionInv, AdmissionTypeOK
  <2>4. AdmissionTypeOK'
    BY <2>1, <2>2 DEF AdmissionInv, AdmissionTypeOK
  <2>5. AdmissionsCharged'
    BY <2>1, <2>2, <2>3, <2>4, ChargesLast DEF Active, Inserting
  <2>6. AdmissionIsDue(g)'
    BY <2>2, <2>3 DEF AdmissionIsDue
  <2> QED
    BY <2>1, <2>2, <2>5, <2>6, OnlyAdmissionMoves
<1>7. ASSUME NEW k \in Keys, JobFinishes(k)
      PROVE  AdmissionInv'
  <2>1. PICK s \in {"succeeded", "failed"} : state' = [state EXCEPT ![k] = s]
    BY <1>7 DEF JobFinishes
  <2>2. state'[k] = s /\ \A l \in Keys \ {k} : state'[l] = state[l]
    BY <2>1 DEF AdmissionInv, AdmissionTypeOK
  <2>3. AdmissionTypeOK'
    BY <1>7, <2>1 DEF JobFinishes, AdmissionInv, AdmissionTypeOK
  <2>4. (Active \ revived)' \subseteq Active \ revived
    BY <1>7, <2>2 DEF JobFinishes, Active
  <2> QED
    BY <1>7, <2>2, <2>3, <2>4, OnlyRowsMove DEF JobFinishes
<1>8. ASSUME NEW k \in Keys, Prove(k)
      PROVE  AdmissionInv'
  <2>1. AdmissionTypeOK'
    BY <1>8 DEF Prove, AdmissionInv, AdmissionTypeOK
  <2>2. (Active \ revived)' \subseteq Active \ revived
    BY <1>8 DEF Prove, Active
  <2> QED
    BY <1>8, <2>1, <2>2, OnlyRowsMove DEF Prove
<1>9. ASSUME NEW k \in Keys, Revive(k)
      PROVE  AdmissionInv'
  <2>1. state'[k] = "active" /\ \A l \in Keys \ {k} : state'[l] = state[l]
    BY <1>9 DEF Revive, AdmissionInv, AdmissionTypeOK
  <2>2. AdmissionTypeOK'
    BY <1>9 DEF Revive, AdmissionInv, AdmissionTypeOK
  <2>3. (Active \ revived)' \subseteq Active \ revived
    BY <1>9, <2>1 DEF Revive, Active
  <2> QED
    BY <1>9, <2>1, <2>2, <2>3, OnlyRowsMove DEF Revive
<1>10. ASSUME UNCHANGED admissionVars
       PROVE  AdmissionInv'
  <2>1. AdmissionTypeOK'
    BY <1>10 DEF admissionVars, AdmissionInv, AdmissionTypeOK
  <2>2. (Active \ revived)' \subseteq Active \ revived
    BY <1>10 DEF admissionVars, Active
  <2> QED
    BY <1>10, <2>1, <2>2, OnlyRowsMove DEF admissionVars
<1> QED
  BY <1>1, <1>2, <1>3, <1>4, <1>5, <1>6, <1>7, <1>8, <1>9, <1>10 DEF AdmissionNext

\* The invariant holds in every reachable state.
LEMMA AdmissionInvHolds == AdmissionSpec => []AdmissionInv
BY AdmissionStarts, AdmissionStep, PTL DEF AdmissionSpec

\* However many requests read the quota before another one's insert, the jobs
\* that no resume brought back exceed it by at most one for each other request
\* (create_job's maximum_concurrent_jobs_per_owner).
THEOREM QuotaIsNearlyKept == AdmissionSpec => []QuotaOvershootBounded
<1>1. AdmissionInv => QuotaOvershootBounded
  <2> SUFFICES ASSUME AdmissionInv
               PROVE  QuotaOvershootBounded
    OBVIOUS
  <2>1. IsFiniteSet(Active \ revived) /\ IsFiniteSet(Inserting)
    BY AdmissionAssumption, FS_Subset DEF Active, Inserting
  <2>2. /\ Cardinality(Active \ revived) \in Nat /\ Cardinality(Inserting) \in Nat
        /\ Cardinality(Gateways) \in Nat
    BY <2>1, AdmissionAssumption, FS_CardinalityType
  <2> QED
    BY <2>2, AdmissionAssumption DEF AdmissionInv, AdmissionsCharged, QuotaOvershootBounded
<1> QED
  BY <1>1, AdmissionInvHolds, PTL

\* A campaign reaches its milestones in order although the check of the
\* predecessor and the insert are different transactions
\* (_validate_qualification_predecessor).
THEOREM MilestonesAreOrdered == AdmissionSpec => []MilestonesInOrder
<1>1. AdmissionInv => MilestonesInOrder
  <2> SUFFICES ASSUME AdmissionInv, NEW i \in DOMAIN created, Milestone[created[i]] > 1
               PROVE  \E j \in 1 .. i - 1 :
                        /\ Milestone[created[j]] = Milestone[created[i]] - 1
                        /\ state[created[j]] = "succeeded"
                        /\ created[j] \in proven
    BY DEF MilestonesInOrder
  <2>1. DOMAIN created \subseteq Nat \ {0}
    BY DEF AdmissionInv, AdmissionTypeOK
  <2>2. Reached(Milestone[created[i]], i)
    BY DEF AdmissionInv
  <2>3. PICK j \in DOMAIN created : /\ j < i
                                    /\ Milestone[created[j]] = Milestone[created[i]] - 1
                                    /\ state[created[j]] = "succeeded"
                                    /\ created[j] \in proven
    BY <2>2 DEF Reached
  <2>4. j \in 1 .. i - 1
    BY <2>1, <2>3
  <2> QED
    BY <2>3, <2>4
<1> QED
  BY <1>1, AdmissionInvHolds, PTL
-----------------------------------------------------------------------------
(* Checkpoints. *)

PromotionLabel == {"idle", "register", "verify", "commit", "mark", "point"}
PromotionFrame ==
  [pc : PromotionLabel, uri : Uris \union {Unset},
   content : Contents \union {Unset}, step : Steps \union {Unset}, reload : BOOLEAN]

CheckpointRow ==
  [uri : Uris \union {Unset}, content : Contents \union {Unset}, reload : BOOLEAN,
   promoted : BOOLEAN]

PromotionTypeOK ==
  /\ object \in [Uris -> Contents \union {Unset}]
  /\ artifact \in [Uris -> Contents \union {Unset}]
  /\ checkpoint \in [Steps -> CheckpointRow]
  /\ evaluation \in [Evaluations -> [step : Steps \union {Unset}, passes : BOOLEAN]]
  /\ latest \in Steps \union {Unset}
  /\ server \in [Servers -> PromotionFrame]

\* What a request goes on to do was checked when it began, and still holds.
RequestIsChecked(h) ==
  /\ server[h].pc = "register" => server[h].uri \in Uris
  /\ server[h].pc \in {"verify", "commit"} => server[h].uri \in Uris /\ server[h].step \in Steps
  /\ server[h].pc = "mark" =>
       server[h].step \in Steps /\ Committed(server[h].step) /\ Proven(server[h].step)
  /\ server[h].pc = "point" => server[h].step \in Steps /\ checkpoint[server[h].step].promoted

PromotionInv ==
  /\ PromotionTypeOK
  /\ \A h \in Servers : RequestIsChecked(h)
  /\ \A s \in Steps : checkpoint[s].promoted => Committed(s) /\ Proven(s)
  /\ latest # Unset => checkpoint[latest].promoted

LEMMA PromotionFrameMoves ==
  ASSUME NEW f \in PromotionFrame, NEW label \in PromotionLabel
  PROVE  [f EXCEPT !.pc = label] \in PromotionFrame
BY DEF PromotionFrame

LEMMA WaitingIsFrame == Waiting \in PromotionFrame
BY DEF PromotionFrame, PromotionLabel, Waiting

LEMMA RowPromoted ==
  ASSUME NEW c \in CheckpointRow
  PROVE  [c EXCEPT !.promoted = TRUE] \in CheckpointRow
BY DEF CheckpointRow

LEMMA PromotionStarts ==
  ASSUME PromotionInit
  PROVE  PromotionInv
BY PromotionAssumption
  DEF PromotionInit, PromotionInv, PromotionTypeOK, PromotionFrame, PromotionLabel, CheckpointRow,
    PromotionLabel, RequestIsChecked, NoCheckpoint, NoEvaluation,
      Waiting

\* What a step must leave so that requests and releases stay checked: what is
\* committed, proven or promoted stays so.
LEMMA ChecksLast ==
  ASSUME PromotionInv, PromotionTypeOK',
         \A s \in Steps : /\ Committed(s) => Committed(s)' /\ checkpoint'[s].reload = checkpoint[s].reload
                          /\ checkpoint[s].promoted => checkpoint'[s].promoted,
         \A e \in Evaluations : evaluation[e].passes => evaluation'[e] = evaluation[e],
         NEW h \in Servers, server'[h] = server[h]
  PROVE  RequestIsChecked(h)'
<1>1. ASSUME NEW s \in Steps, Committed(s), Proven(s) PROVE Proven(s)'
  <2>1. PICK e \in Evaluations : evaluation[e] = [step |-> s, passes |-> TRUE]
    BY <1>1 DEF Proven
  <2>2. evaluation[e].passes
    BY <2>1
  <2>3. evaluation'[e] = [step |-> s, passes |-> TRUE]
    BY <2>1, <2>2
  <2>4. checkpoint'[s].reload
    BY <1>1 DEF Proven
  <2> QED
    BY <1>1, <2>3, <2>4 DEF Proven
<1> QED
  BY <1>1 DEF RequestIsChecked, PromotionInv

\* A step of one request that leaves the checkpoints and evaluations alone.
LEMMA OnlyRequestMoves ==
  ASSUME PromotionInv, PromotionTypeOK', NEW h \in Servers, RequestIsChecked(h)',
         \E f : server' = [server EXCEPT ![h] = f],
         UNCHANGED <<checkpoint, evaluation, latest>>
  PROVE  PromotionInv'
<1>1. \A s \in Steps : (Committed(s) <=> Committed(s)') /\ (Proven(s) <=> Proven(s)')
  BY DEF Committed, Proven
<1>2. \A g \in Servers \ {h} : server'[g] = server[g]
  BY DEF PromotionInv, PromotionTypeOK,
              PromotionFrame, PromotionLabel, CheckpointRow
<1>3. \A g \in Servers : RequestIsChecked(g)'
  BY <1>1, <1>2 DEF RequestIsChecked, PromotionInv
<1> QED
  BY <1>1, <1>3 DEF PromotionInv

LEMMA PromotionStep ==
  ASSUME PromotionInv, [PromotionNext]_promotionVars
  PROVE  PromotionInv'
<1> USE PromotionAssumption
<1>1. ASSUME NEW u \in Uris, NEW c \in Contents, PutObject(u, c)
      PROVE  PromotionInv'
  BY <1>1 DEF PutObject, PromotionInv, PromotionTypeOK, PromotionFrame, PromotionLabel,
    CheckpointRow, PromotionLabel, RequestIsChecked, Proven, Committed
<1>2. ASSUME NEW e \in Evaluations, NEW s \in Steps, NEW passes \in BOOLEAN,
             CommitEvaluation(e, s, passes)
      PROVE  PromotionInv'
  <2>1. PromotionTypeOK'
    BY <1>2 DEF CommitEvaluation, PromotionInv, PromotionTypeOK,
              PromotionFrame, PromotionLabel, CheckpointRow
  <2>2. \A f \in Evaluations : evaluation[f].passes => evaluation'[f] = evaluation[f]
    BY <1>2 DEF CommitEvaluation, PromotionInv, PromotionTypeOK, PromotionFrame, PromotionLabel,
      CheckpointRow, NoEvaluation
  <2>3. \A h \in Servers : RequestIsChecked(h)'
    BY <1>2, <2>1, <2>2, ChecksLast DEF CommitEvaluation, Committed
  <2>4. \A t \in Steps : Proven(t) => Proven(t)'
    BY <1>2, <2>2 DEF Proven, CommitEvaluation
  <2> QED
    BY <1>2, <2>1, <2>3, <2>4 DEF CommitEvaluation, PromotionInv, Committed
<1>3. ASSUME NEW h \in Servers, NEW u \in Uris, NEW c \in Contents, HeadArtifact(h, u, c)
      PROVE  PromotionInv'
  <2>1. PromotionTypeOK'
    BY <1>3 DEF HeadArtifact, Becomes, Waiting, PromotionInv, PromotionTypeOK,
              PromotionFrame, PromotionLabel, CheckpointRow
  <2>2. RequestIsChecked(h)'
    BY <1>3 DEF HeadArtifact, Becomes, Waiting, PromotionInv, PromotionTypeOK, PromotionFrame,
      PromotionLabel, CheckpointRow, RequestIsChecked
  <2> QED
    BY <1>3, <2>1, <2>2, OnlyRequestMoves DEF HeadArtifact, Becomes
<1>4. ASSUME NEW h \in Servers, AddTrainingArtifact(h)
      PROVE  PromotionInv'
  <2>1. server[h].uri \in Uris
    BY <1>4 DEF AddTrainingArtifact, ServerAt, PromotionInv, RequestIsChecked
  <2>2. PromotionTypeOK'
    BY <1>4, <2>1 DEF AddTrainingArtifact, Becomes, Waiting, PromotionInv, PromotionTypeOK,
              PromotionFrame, PromotionLabel, CheckpointRow
  <2>3. RequestIsChecked(h)'
    BY <1>4 DEF AddTrainingArtifact, Becomes, Waiting, PromotionInv, PromotionTypeOK,
      PromotionFrame,
                RequestIsChecked
  <2> QED
    BY <1>4, <2>2, <2>3, OnlyRequestMoves DEF AddTrainingArtifact, Becomes
<1>5. ASSUME NEW h \in Servers, NEW u \in Uris, NEW c \in Contents, NEW s \in Steps,
             NEW reload \in BOOLEAN, BeginCommitCheckpoint(h, u, c, s, reload)
      PROVE  PromotionInv'
  <2>1. PromotionTypeOK'
    BY <1>5 DEF BeginCommitCheckpoint, Becomes, PromotionInv, PromotionTypeOK,
              PromotionFrame, PromotionLabel, CheckpointRow
  <2>2. RequestIsChecked(h)'
    BY <1>5 DEF BeginCommitCheckpoint, Becomes, PromotionInv, PromotionTypeOK, PromotionFrame,
      PromotionLabel, CheckpointRow, RequestIsChecked
  <2> QED
    BY <1>5, <2>1, <2>2, OnlyRequestMoves DEF BeginCommitCheckpoint, Becomes
<1>6. ASSUME NEW h \in Servers, VerifyCheckpointObjects(h)
      PROVE  PromotionInv'
  <2>1. server[h].uri \in Uris /\ server[h].step \in Steps
    BY <1>6 DEF VerifyCheckpointObjects, ServerAt, PromotionInv, RequestIsChecked
  <2> DEFINE f == [server[h] EXCEPT !.pc = "commit"]
  <2>2. server[h] \in PromotionFrame
    BY DEF PromotionInv, PromotionTypeOK
  <2>3. f \in PromotionFrame /\ Waiting \in PromotionFrame
    BY <2>2, PromotionFrameMoves, WaitingIsFrame DEF PromotionLabel
  <2>4. f.pc = "commit" /\ f.uri \in Uris /\ f.step \in Steps
    BY <2>1, <2>2 DEF PromotionFrame
  <2> HIDE DEF f
  <2>5. PICK g \in {f, Waiting} : server' = [server EXCEPT ![h] = g]
    BY <1>6 DEF VerifyCheckpointObjects, Becomes, Proceeds, f
  <2>6. PromotionTypeOK'
    BY <1>6, <2>3, <2>5 DEF VerifyCheckpointObjects, PromotionInv, PromotionTypeOK
  <2>7. server'[h] = g
    BY <2>5 DEF PromotionInv, PromotionTypeOK
  <2>8. RequestIsChecked(h)'
    <3>1. CASE server'[h].pc = "commit" /\ server'[h].uri \in Uris /\ server'[h].step \in Steps
      BY <3>1 DEF RequestIsChecked
    <3>2. CASE server'[h].pc = "idle"
      BY <3>2 DEF RequestIsChecked
    <3>3. g = f \/ g = Waiting
      BY <2>5
    <3> QED
      BY <2>4, <2>7, <3>1, <3>2, <3>3 DEF Waiting
  <2> QED
    BY <1>6, <2>5, <2>6, <2>8, OnlyRequestMoves DEF VerifyCheckpointObjects
<1>7. ASSUME NEW h \in Servers, AddCheckpoint(h)
      PROVE  PromotionInv'
  <2> DEFINE n == server[h].step
  <2>1. n \in Steps /\ server[h].uri \in Uris
    BY <1>7 DEF AddCheckpoint, PromotionInv, RequestIsChecked, ServerAt
  <2>2. PromotionTypeOK'
    <3>1. server[h] \in PromotionFrame
      BY DEF PromotionInv, PromotionTypeOK
    <3>2. NewCheckpoint(server[h]) \in CheckpointRow
      BY <3>1 DEF NewCheckpoint, PromotionFrame, CheckpointRow
    <3> QED
      BY <1>7, <2>1, <3>2, WaitingIsFrame
        DEF AddCheckpoint, Becomes, OnConflict, PromotionInv, PromotionTypeOK
  <2>3. \A s \in Steps : Committed(s) \/ s # n => checkpoint'[s] = checkpoint[s]
    BY <1>7, <2>1 DEF AddCheckpoint, PromotionInv, PromotionTypeOK, PromotionFrame,
      PromotionLabel, CheckpointRow, OnConflict
  <2>4. ~Committed(n) => ~checkpoint'[n].promoted
    BY <1>7, <2>1 DEF AddCheckpoint, PromotionInv, PromotionTypeOK, PromotionFrame,
      PromotionLabel, CheckpointRow, NewCheckpoint
  <2>5. \A s \in Steps : Committed(s) => Committed(s)' /\ (Proven(s) => Proven(s)')
    BY <1>7, <2>3 DEF AddCheckpoint, Committed, Proven
  <2>6. \A s \in Steps : checkpoint[s].promoted => checkpoint'[s].promoted
    BY <2>3 DEF PromotionInv
  <2>7. \A g \in Servers : RequestIsChecked(g)'
    <3>1. server'[h] = Waiting
      BY <1>7 DEF AddCheckpoint, Becomes, PromotionInv, PromotionTypeOK,
              PromotionFrame, PromotionLabel, CheckpointRow
    <3>2. RequestIsChecked(h)'
      BY <3>1 DEF RequestIsChecked, Waiting
    <3>3. ASSUME NEW g \in Servers \ {h} PROVE RequestIsChecked(g)'
      <4>1. server'[g] = server[g]
        BY <1>7, <3>3 DEF AddCheckpoint, Becomes, PromotionInv, PromotionTypeOK,
              PromotionFrame, PromotionLabel, CheckpointRow
      <4> QED
        BY <4>1, <2>5, <2>6 DEF RequestIsChecked, PromotionInv
    <3> QED
      BY <3>2, <3>3
  <2>8. \A s \in Steps : checkpoint'[s].promoted => Committed(s)' /\ Proven(s)'
    BY <2>3, <2>4, <2>5 DEF PromotionInv
  <2>9. latest' # Unset => checkpoint'[latest'].promoted
    BY <1>7, <2>6 DEF AddCheckpoint, PromotionInv, PromotionTypeOK,
              PromotionFrame, PromotionLabel, CheckpointRow
  <2> QED
    BY <2>2, <2>7, <2>8, <2>9 DEF PromotionInv
<1>8. ASSUME NEW h \in Servers, NEW s \in Steps, BeginPromote(h, s)
      PROVE  PromotionInv'
  <2>1. PICK e \in Evaluations : evaluation[e].passes /\ evaluation[e].step = s
    BY <1>8 DEF BeginPromote, PassingEvaluations
  <2>2. evaluation[e] = [step |-> s, passes |-> TRUE]
    BY <2>1 DEF PromotionInv, PromotionTypeOK,
              PromotionFrame, PromotionLabel, CheckpointRow
  <2>3. Committed(s) /\ Proven(s)
    BY <1>8, <2>2 DEF BeginPromote, Proven
  <2>4. Committed(s)' /\ Proven(s)'
    BY <1>8, <2>3 DEF BeginPromote, Committed, Proven
  <2>5. PromotionTypeOK'
    BY <1>8 DEF BeginPromote, Becomes, Waiting, PromotionInv, PromotionTypeOK,
              PromotionFrame, PromotionLabel, CheckpointRow
  <2>6. server'[h].pc = "mark" /\ server'[h].step = s
    BY <1>8 DEF BeginPromote, Becomes, Waiting, PromotionInv, PromotionTypeOK,
              PromotionFrame, PromotionLabel, CheckpointRow
  <2>7. RequestIsChecked(h)'
    BY <2>4, <2>6 DEF RequestIsChecked
  <2> QED
    BY <1>8, <2>5, <2>7, OnlyRequestMoves DEF BeginPromote, Becomes
<1>9. ASSUME NEW h \in Servers, MarkPromoted(h)
      PROVE  PromotionInv'
  <2> DEFINE n == server[h].step
  <2>1. n \in Steps /\ Committed(n) /\ Proven(n)
    BY <1>9 DEF MarkPromoted, PromotionInv, RequestIsChecked, ServerAt
  <2>2. PromotionTypeOK'
    <3>1. [server[h] EXCEPT !.pc = "point"] \in PromotionFrame
      BY PromotionFrameMoves DEF PromotionLabel, PromotionInv, PromotionTypeOK
    <3>2. [checkpoint[n] EXCEPT !.promoted = TRUE] \in CheckpointRow
      BY <2>1, RowPromoted DEF PromotionInv, PromotionTypeOK
    <3>3. checkpoint' = [checkpoint EXCEPT ![n] = [checkpoint[n] EXCEPT !.promoted = TRUE]]
      BY <1>9 DEF MarkPromoted
    <3> QED
      BY <1>9, <2>1, <3>1, <3>2, <3>3 DEF MarkPromoted, Becomes, Proceeds, PromotionInv,
        PromotionTypeOK
  <2>3. \A s \in Steps :
          /\ checkpoint'[s].uri = checkpoint[s].uri
          /\ checkpoint'[s].reload = checkpoint[s].reload
          /\ checkpoint'[s].promoted <=> s = n \/ checkpoint[s].promoted
    BY <1>9, <2>1 DEF MarkPromoted, PromotionInv, PromotionTypeOK,
              PromotionFrame, PromotionLabel, CheckpointRow
  <2>4. \A s \in Steps : (Committed(s) => Committed(s)') /\ (Proven(s) => Proven(s)')
    BY <1>9, <2>3 DEF MarkPromoted, Committed, Proven
  <2>5. \A g \in Servers \ {h} : server'[g] = server[g]
    BY <1>9 DEF MarkPromoted, Becomes, Proceeds, PromotionInv, PromotionTypeOK,
              PromotionFrame, PromotionLabel, CheckpointRow
  <2>6. server'[h].pc = "point" /\ server'[h].step = n
    BY <1>9 DEF MarkPromoted, Becomes, Proceeds, PromotionInv, PromotionTypeOK,
              PromotionFrame, PromotionLabel, CheckpointRow
  <2>7. \A g \in Servers : RequestIsChecked(g)'
    BY <2>1, <2>3, <2>4, <2>5, <2>6 DEF RequestIsChecked, PromotionInv
  <2> QED
    BY <1>9, <2>1, <2>2, <2>3, <2>4, <2>7 DEF MarkPromoted, PromotionInv, PromotionTypeOK,
              PromotionFrame, PromotionLabel, CheckpointRow
<1>10. ASSUME NEW h \in Servers, PutLatest(h)
       PROVE  PromotionInv'
  <2>1. server[h].step \in Steps /\ checkpoint[server[h].step].promoted
    BY <1>10 DEF PutLatest, ServerAt, PromotionInv, RequestIsChecked
  <2>2. PromotionTypeOK'
    BY <1>10, <2>1 DEF PutLatest, Becomes, Waiting, PromotionInv, PromotionTypeOK,
              PromotionFrame, PromotionLabel, CheckpointRow
  <2>3. server'[h] = Waiting /\ \A g \in Servers \ {h} : server'[g] = server[g]
    BY <1>10 DEF PutLatest, Becomes, PromotionInv, PromotionTypeOK,
              PromotionFrame, PromotionLabel, CheckpointRow
  <2>4. \A s \in Steps : (Committed(s) <=> Committed(s)') /\ (Proven(s) <=> Proven(s)')
    BY <1>10 DEF PutLatest, Committed, Proven
  <2>5. \A g \in Servers : RequestIsChecked(g)'
    <3>1. RequestIsChecked(h)'
      BY <2>3 DEF RequestIsChecked, Waiting
    <3>2. ASSUME NEW g \in Servers \ {h} PROVE RequestIsChecked(g)'
      BY <1>10, <2>3, <2>4 DEF PutLatest, RequestIsChecked, PromotionInv
    <3> QED
      BY <3>1, <3>2
  <2> QED
    BY <1>10, <2>1, <2>2, <2>4, <2>5 DEF PutLatest, PromotionInv
<1>11. ASSUME NEW h \in Servers, ServerFails(h)
       PROVE  PromotionInv'
  <2>1. PromotionTypeOK'
    BY <1>11 DEF ServerFails, Becomes, Waiting, PromotionInv, PromotionTypeOK,
              PromotionFrame, PromotionLabel, CheckpointRow
  <2>2. RequestIsChecked(h)'
    BY <1>11 DEF ServerFails, Becomes, Waiting, PromotionInv, PromotionTypeOK, PromotionFrame,
      PromotionLabel, CheckpointRow, RequestIsChecked
  <2> QED
    BY <1>11, <2>1, <2>2, OnlyRequestMoves DEF ServerFails, Becomes
<1>12. ASSUME UNCHANGED promotionVars
       PROVE  PromotionInv'
  BY <1>12 DEF promotionVars, PromotionInv, PromotionTypeOK, PromotionFrame, PromotionLabel,
    CheckpointRow, PromotionLabel, RequestIsChecked, Proven, Committed
<1> QED
  BY <1>1, <1>2, <1>3, <1>4, <1>5, <1>6, <1>7, <1>8, <1>9, <1>10, <1>11, <1>12 DEF PromotionNext

\* What is promoted is proven and the released checkpoint is one of them
\* (promote_checkpoint and commit_checkpoint in training_workspace.py), for any
\* number of requests that interleave or die between two calls.
THEOREM ReleasesAreProven == PromotionSpec => []ReleasedIsProven
<1>1. PromotionInv => ReleasedIsProven
  BY DEF PromotionInv, ReleasedIsProven
<1> QED
  BY <1>1, PromotionStarts, PromotionStep, PTL DEF PromotionSpec

\* A committed checkpoint keeps its manifest, its reload proof and its
\* promotion in every step.
THEOREM CheckpointsAreImmutable == PromotionSpec => CheckpointIsImmutable
<1> DEFINE Stays == \A s \in Steps : Committed(s) =>
      /\ [checkpoint'[s] EXCEPT !.promoted = FALSE] = [checkpoint[s] EXCEPT !.promoted = FALSE]
      /\ checkpoint[s].promoted => checkpoint'[s].promoted
<1>1. ASSUME PromotionInv, [PromotionNext]_promotionVars
      PROVE  [Stays]_promotionVars
  <2>1. ASSUME checkpoint' = checkpoint PROVE Stays
    BY <2>1
  <2>2. ASSUME NEW h \in Servers, AddCheckpoint(h) PROVE Stays
    <3>1. server[h].step \in Steps
      BY <1>1, <2>2 DEF AddCheckpoint, PromotionInv, RequestIsChecked, ServerAt
    <3>2. \A s \in Steps : Committed(s) => checkpoint'[s] = checkpoint[s]
      BY <1>1, <2>2, <3>1 DEF AddCheckpoint, PromotionInv, PromotionTypeOK, PromotionFrame,
        PromotionLabel, CheckpointRow, OnConflict
    <3> QED
      BY <3>2
  <2>3. ASSUME NEW h \in Servers, MarkPromoted(h) PROVE Stays
    <3>1. server[h].step \in Steps
      BY <1>1, <2>3 DEF MarkPromoted, PromotionInv, RequestIsChecked, ServerAt
    <3>2. \A s \in Steps :
            checkpoint'[s] \in {checkpoint[s], [checkpoint[s] EXCEPT !.promoted = TRUE]}
      BY <1>1, <2>3, <3>1 DEF MarkPromoted, PromotionInv, PromotionTypeOK,
              PromotionFrame, PromotionLabel, CheckpointRow
    <3>3. \A s \in Steps : checkpoint[s] \in
            [uri : Uris \union {Unset}, content : Contents \union {Unset},
             reload : BOOLEAN, promoted : BOOLEAN]
      BY <1>1 DEF PromotionInv, PromotionTypeOK,
              PromotionFrame, PromotionLabel, CheckpointRow
    <3> QED
      BY <3>2, <3>3
  <2>4. CASE UNCHANGED promotionVars
    BY <2>1, <2>4 DEF promotionVars
  <2>5. CASE PromotionNext
    BY <2>1, <2>2, <2>3, <2>5
      DEF PromotionNext, PutObject, CommitEvaluation, HeadArtifact, AddTrainingArtifact,
          BeginCommitCheckpoint, VerifyCheckpointObjects, BeginPromote, PutLatest, ServerFails
  <2> QED
    BY <1>1, <2>4, <2>5
<1> QED
  BY <1>1, PromotionStarts, PromotionStep, PTL DEF PromotionSpec, CheckpointIsImmutable
-----------------------------------------------------------------------------
(* Patches. *)

FileRow == [content : Nat, author : Nat]
Backups == UNION {[S -> FileRow] : S \in SUBSET Files}
PatchRow ==
  [status : {"preview", "applied", "rolled_back"}, edits : Proposals, backup : Backups]
WriterFrame ==
  [doing : {"nothing", "apply", "undo", "rollback", "returned", "raised"}, patch : Nat,
   todo : SUBSET Files, written : SUBSET Files]
ExecutionFields ==
  {"pc", "attempt", "base", "stage", "late", "tries", "coded", "edits", "patch", "tested", "accepted"}

PatchTypes ==
  /\ workspace \in [Files -> FileRow]
  /\ patches \in Seq(PatchRow)
  /\ \A p \in DOMAIN patches : DOMAIN patches[p].backup = DOMAIN patches[p].edits
  /\ writer \in [Actors -> WriterFrame]
  /\ contended \subseteq Nat
  /\ \E S : execution \in [Agents -> S]
  /\ \A a \in Agents : DOMAIN execution[a] = ExecutionFields
  /\ \E S : request \in [Clients -> S]

\* An attempt whose coder ran once tests the project with its patch.
Staged(e, rows) ==
  /\ e.coded \in Nat
  /\ e.coded > 0 \/ e.patch # 0 => e.patch \in DOMAIN rows
  /\ e.pc = "apply" => e.accepted
  /\ e.accepted => e.pc \notin {"idle", "edit", "stage", "test"}
  /\ e.coded = 0 => e.pc \notin {"stage", "test"}
  /\ e.coded = 0 /\ e.pc = "edit" => e.stage = e.base /\ e.late = {}
  /\ e.coded = 1 /\ e.pc = "stage"
       => e.stage = e.base /\ e.late = {} /\ e.edits = rows[e.patch].edits
  /\ e.coded = 1 /\ e.pc = "test" => e.stage = rows[e.patch].edits @@ e.base /\ e.late = {}
  /\ e.coded = 1 /\ e.accepted => e.tested = rows[e.patch].edits @@ e.base

StagedInv == PatchTypes /\ \A a \in Agents : Staged(execution[a], patches)

\* The files that hold what a patch wrote, but for its leftovers, and the
\* actors that write for it.
WrittenBy(p) == {f \in Files : workspace[f].author = p /\ <<f, p>> \notin leftover}
Handles(x, p) == Writing(x) /\ writer[x].patch = p

WritersKnow ==
  \A x \in Actors : Writing(x) =>
    /\ writer[x].patch \in DOMAIN patches
    /\ writer[x].todo \union writer[x].written \subseteq DOMAIN patches[writer[x].patch].edits
    /\ x \in Agents => execution[x].pc \in {"apply", "reject"}
    /\ x \in Clients => request[x] # "idle"

\* Also an actor that is done with its patch, until it gives up its frame.
NamesARow == \A x \in Actors : writer[x].doing # "nothing" => writer[x].patch \in DOMAIN patches

\* Who wrote what a file or a backup of it holds.
Known(f, author, rows) == author # 0 => author \in DOMAIN rows /\ f \in DOMAIN rows[author].edits
AuthorsKnown ==
  /\ \A f \in Files : Known(f, workspace[f].author, patches)
  /\ \A p \in DOMAIN patches : \A f \in DOMAIN patches[p].backup :
       Known(f, patches[p].backup[f].author, patches)

ToRestore(frame) == IF frame.doing = "apply" THEN frame.written ELSE frame.todo

\* What a patch wrote is what its one writer wrote and will restore if it must,
\* or the patch is recorded as applied.
Accounted(p) ==
  /\ \A x, y \in Actors : Handles(x, p) /\ Handles(y, p) => x = y
  /\ \A x \in Actors : Handles(x, p) =>
       /\ WrittenBy(p) \subseteq ToRestore(writer[x])
       /\ writer[x].doing = "rollback" => patches[p].status = "applied" \/ WrittenBy(p) = {}
  /\ (\A x \in Actors : ~Handles(x, p)) => patches[p].status = "applied" \/ WrittenBy(p) = {}

AccountInv ==
  /\ PatchTypes /\ WritersKnow /\ AuthorsKnown
  /\ ~died => \A p \in DOMAIN patches : p \notin contended => Accounted(p)

-----------------------------------------------------------------------------
\* What becomes of the table: rows keep their edits and their backup.
RowsKept ==
  \A p \in DOMAIN patches :
    /\ p \in DOMAIN patches'
    /\ patches'[p].edits = patches[p].edits /\ patches'[p].backup = patches[p].backup

LEMMA PreviewRows ==
  ASSUME PatchTypes, NEW edits \in Proposals, Preview(edits)
  PROVE  /\ patches' \in Seq(PatchRow) /\ RowsKept
         /\ Len(patches) \in Nat
         /\ DOMAIN patches = 1 .. Len(patches) /\ DOMAIN patches' = 1 .. (Len(patches) + 1)
         /\ \A p \in DOMAIN patches : patches'[p] = patches[p]
         /\ patches'[Len(patches) + 1].status = "preview"
         /\ patches'[Len(patches) + 1].edits = edits
         /\ patches'[Len(patches) + 1].backup = [f \in DOMAIN edits |-> workspace[f]]
         /\ DOMAIN edits \in SUBSET Files
         /\ \A p \in DOMAIN patches' : DOMAIN patches'[p].backup = DOMAIN patches'[p].edits
<1> DEFINE backup == [f \in DOMAIN edits |-> workspace[f]]
           row == [status |-> "preview", edits |-> edits, backup |-> backup]
<1>1. patches' = Append(patches, row) /\ patches \in Seq(PatchRow)
  BY DEF Preview, PatchTypes
<1>2. DOMAIN edits \in SUBSET Files
  BY PatchesAssumption
<1>3. \A f \in Files : workspace[f] \in FileRow
  BY DEF PatchTypes
<1>4. /\ backup \in [DOMAIN edits -> FileRow] /\ DOMAIN backup = DOMAIN edits
      /\ backup = [f \in DOMAIN edits |-> workspace[f]]
  BY <1>2, <1>3
<1>5. backup \in Backups
  BY <1>2, <1>4 DEF Backups
<1> HIDE DEF backup
<1>6. row \in PatchRow /\ row.status = "preview" /\ row.edits = edits /\ row.backup = backup
  BY <1>5 DEF PatchRow
<1> HIDE DEF row
<1>7. /\ patches' \in Seq(PatchRow) /\ Len(patches) \in Nat
      /\ DOMAIN patches = 1 .. Len(patches) /\ DOMAIN patches' = 1 .. (Len(patches) + 1)
      /\ \A p \in DOMAIN patches : patches'[p] = patches[p]
      /\ patches'[Len(patches) + 1] = row
  BY <1>1, <1>6
<1>8. \A p \in DOMAIN patches' : DOMAIN patches'[p].backup = DOMAIN patches'[p].edits
  <2>1. \A p \in DOMAIN patches : DOMAIN patches[p].backup = DOMAIN patches[p].edits
    BY DEF PatchTypes
  <2>2. \A p \in DOMAIN patches' : p \in DOMAIN patches \/ p = Len(patches) + 1
    BY <1>7
  <2> QED
    BY <1>4, <1>6, <1>7, <2>1, <2>2
<1> QED
  BY <1>2, <1>4, <1>6, <1>7, <1>8 DEF RowsKept

LEMMA StatusRows ==
  ASSUME PatchTypes, NEW p \in DOMAIN patches, NEW s \in {"applied", "rolled_back"},
         patches' = [patches EXCEPT ![p].status = s]
  PROVE  /\ patches' \in Seq(PatchRow) /\ RowsKept /\ DOMAIN patches' = DOMAIN patches
         /\ patches'[p].status = s
         /\ \A q \in DOMAIN patches \ {p} : patches'[q] = patches[q]
         /\ \A q \in DOMAIN patches' : DOMAIN patches'[q].backup = DOMAIN patches'[q].edits
<1> DEFINE row == [patches[p] EXCEPT !.status = s]
<1>1. patches \in Seq(PatchRow) /\ p \in 1 .. Len(patches) /\ DOMAIN patches = 1 .. Len(patches)
  BY DEF PatchTypes
<1>2. patches[p] \in PatchRow
  BY <1>1
<1>3. /\ row \in PatchRow /\ row.status = s /\ row.edits = patches[p].edits
      /\ row.backup = patches[p].backup
  BY <1>2 DEF PatchRow
<1>4. patches' = [patches EXCEPT ![p] = row]
  OBVIOUS
<1> HIDE DEF row
<1>5. /\ patches' \in Seq(PatchRow) /\ Len(patches') = Len(patches)
      /\ \A q \in 1 .. Len(patches) : patches'[q] = IF q = p THEN row ELSE patches[q]
  BY <1>1, <1>3, <1>4, ExceptSeq
<1>6. DOMAIN patches' = DOMAIN patches
  BY <1>1, <1>4
<1>7. \A q \in DOMAIN patches : DOMAIN patches[q].backup = DOMAIN patches[q].edits
  BY DEF PatchTypes
<1> QED
  BY <1>1, <1>3, <1>5, <1>6, <1>7 DEF RowsKept

\* Whoever is known stays known, also of a new row's backup.
LEMMA KnownKept ==
  ASSUME RowsKept, NEW f, NEW author, Known(f, author, patches)
  PROVE  Known(f, author, patches')
BY DEF RowsKept, Known

LEMMA AuthorsKept ==
  ASSUME AuthorsKnown, RowsKept, UNCHANGED workspace, DOMAIN patches' = DOMAIN patches
  PROVE  AuthorsKnown'
<1>1. ASSUME NEW f \in Files PROVE Known(f, workspace'[f].author, patches')
  BY KnownKept DEF AuthorsKnown
<1>2. ASSUME NEW p \in DOMAIN patches', NEW f \in DOMAIN patches'[p].backup
      PROVE  Known(f, patches'[p].backup[f].author, patches')
  <2>1. patches'[p].backup = patches[p].backup /\ p \in DOMAIN patches
    BY DEF RowsKept
  <2> QED
    BY <1>2, <2>1, KnownKept DEF AuthorsKnown
<1> QED
  BY <1>1, <1>2 DEF AuthorsKnown

LEMMA PreviewKnown ==
  ASSUME PatchTypes, AuthorsKnown, NEW edits \in Proposals, Preview(edits), UNCHANGED workspace
  PROVE  AuthorsKnown'
<1>1. /\ RowsKept /\ \A p \in DOMAIN patches' : p \in DOMAIN patches \/ p = Len(patches) + 1
      /\ patches'[Len(patches) + 1].backup = [f \in DOMAIN edits |-> workspace[f]]
      /\ DOMAIN edits \in SUBSET Files
  BY PreviewRows
<1>2. ASSUME NEW f \in Files PROVE Known(f, workspace'[f].author, patches')
  BY <1>1, KnownKept DEF AuthorsKnown
<1>3. ASSUME NEW p \in DOMAIN patches', NEW f \in DOMAIN patches'[p].backup
      PROVE  Known(f, patches'[p].backup[f].author, patches')
  <2>1. CASE p \in DOMAIN patches
    <3>1. patches'[p].backup = patches[p].backup
      BY <1>1, <2>1 DEF RowsKept
    <3> QED
      BY <1>1, <1>3, <2>1, <3>1, KnownKept DEF AuthorsKnown
  <2>2. CASE p = Len(patches) + 1
    <3>1. f \in Files /\ patches'[p].backup[f] = workspace'[f]
      BY <1>1, <1>3, <2>2
    <3> QED
      BY <1>2, <3>1
  <2> QED
    BY <1>1, <2>1, <2>2
<1> QED
  BY <1>2, <1>3 DEF AuthorsKnown

LEMMA RowsSame ==
  ASSUME patches' = patches
  PROVE  RowsKept
BY DEF RowsKept

-----------------------------------------------------------------------------
\* A step that keeps the rows keeps what is said of the executions it leaves alone.
LEMMA StagedKept ==
  ASSUME RowsKept, NEW e, Staged(e, patches)
  PROVE  Staged(e, patches')
BY DEF RowsKept, Staged

LEMMA AgentStaged ==
  ASSUME StagedInv, RowsKept, NEW a \in Agents, NEW g, Records(a, g),
         DOMAIN g = ExecutionFields, Staged(g, patches')
  PROVE  /\ \E S : execution' \in [Agents -> S]
         /\ \A b \in Agents : DOMAIN execution'[b] = ExecutionFields /\ Staged(execution'[b], patches')
<1>1. PICK S : execution \in [Agents -> S]
  BY DEF StagedInv, PatchTypes
<1>2. execution' = [execution EXCEPT ![a] = g]
  BY DEF Records
<1>3. execution' \in [Agents -> S \union {g}]
  BY <1>1, <1>2
<1>4. execution'[a] = g /\ \A b \in Agents \ {a} : execution'[b] = execution[b]
  BY <1>1, <1>2
<1>5. \A b \in Agents : Staged(execution[b], patches) /\ DOMAIN execution[b] = ExecutionFields
  BY DEF StagedInv, PatchTypes
<1>6. \A b \in Agents : Staged(execution[b], patches')
  BY <1>5, StagedKept
<1> QED
  BY <1>3, <1>4, <1>5, <1>6

LEMMA FreshExecution ==
  ASSUME NEW rows
  PROVE  /\ Staged(NoExecution, rows) /\ DOMAIN NoExecution = ExecutionFields
         /\ \A n : LET g == [NoExecution EXCEPT !.attempt = n]
                   IN  Staged(g, rows) /\ DOMAIN g = ExecutionFields
<1>1. DOMAIN NoExecution = ExecutionFields
  BY DEF NoExecution, ExecutionFields
<1>2. Staged(NoExecution, rows)
  BY DEF NoExecution, Staged
<1>3. ASSUME NEW n PROVE LET g == [NoExecution EXCEPT !.attempt = n]
                        IN  Staged(g, rows) /\ DOMAIN g = ExecutionFields
  <2> DEFINE g == [NoExecution EXCEPT !.attempt = n]
  <2>1. /\ g.pc = "idle" /\ g.coded = 0 /\ g.patch = 0 /\ g.accepted = FALSE /\ DOMAIN g = ExecutionFields
    BY DEF NoExecution, ExecutionFields
  <2> HIDE DEF g
  <2>2. Staged(g, rows)
    BY <2>1 DEF Staged
  <2> QED
    BY <2>1, <2>2 DEF g
<1> QED
  BY <1>1, <1>2, <1>3

\* Every step of an agent, by what it makes of its execution.
AgentStep(a) ==
  \/ BeginAttempt(a) \/ StageEdit(a) \/ EditFails(a) \/ LateStageEdit(a)
  \/ Test(a) \/ JudgeAttempt(a) \/ EndAttempt(a)
  \/ \E edits \in Proposals : Edit(a, edits)

LEMMA AgentStages ==
  ASSUME StagedInv, NEW a \in Agents, AgentStep(a)
  PROVE  RowsKept /\ \E g : Records(a, g) /\ DOMAIN g = ExecutionFields /\ Staged(g, patches')
<1> DEFINE e == execution[a]
<1>1. DOMAIN e = ExecutionFields /\ Staged(e, patches) /\ PatchTypes
  BY DEF StagedInv, PatchTypes
<1>2. /\ "pc" \in ExecutionFields /\ "attempt" \in ExecutionFields /\ "base" \in ExecutionFields
      /\ "stage" \in ExecutionFields /\ "late" \in ExecutionFields /\ "tries" \in ExecutionFields
      /\ "coded" \in ExecutionFields /\ "edits" \in ExecutionFields /\ "patch" \in ExecutionFields
      /\ "tested" \in ExecutionFields /\ "accepted" \in ExecutionFields
  BY DEF ExecutionFields
<1>a. CASE BeginAttempt(a)
  <2> DEFINE g == [NoExecution EXCEPT !.pc = "edit", !.attempt = e.attempt + 1,
                   !.base = ContentOf(workspace), !.stage = ContentOf(workspace)]
  <2>1. Records(a, g) /\ patches' = patches
    BY <1>a DEF BeginAttempt
  <2>2. /\ DOMAIN g = ExecutionFields /\ g.pc = "edit" /\ g.coded = 0 /\ g.accepted = FALSE
        /\ g.stage = g.base /\ g.late = {} /\ g.patch = 0
    BY <1>2 DEF NoExecution, ExecutionFields
  <2> HIDE DEF g
  <2>3. Staged(g, patches')
    BY <2>2 DEF Staged
  <2> QED
    BY <2>1, <2>2, <2>3, RowsSame
<1>b. CASE StageEdit(a)
  <2> DEFINE g == [e EXCEPT !.pc = "test", !.stage = e.edits @@ e.stage]
  <2>1. Records(a, g) /\ patches' = patches /\ e.pc = "stage"
    BY <1>b DEF StageEdit, ExecutesAt
  <2>2. /\ DOMAIN g = ExecutionFields /\ g.pc = "test" /\ g.coded = e.coded
        /\ g.accepted = e.accepted /\ g.stage = e.edits @@ e.stage /\ g.base = e.base
        /\ g.late = e.late /\ g.patch = e.patch
    BY <1>1, <1>2
  <2> HIDE DEF g, e
  <2>3. Staged(g, patches')
    BY <1>1, <2>1, <2>2 DEF Staged
  <2> QED
    BY <2>1, <2>2, <2>3, RowsSame
<1>c. CASE EditFails(a)
  <2>1. /\ patches' = patches /\ e.pc \in {"edit", "stage", "test"}
        /\ \E late \in {{}, IF ExecutesAt(a, "stage") THEN {e.edits} ELSE {}} :
             Records(a, [e EXCEPT !.tries = @ + 1, !.late = @ \union late,
                           !.pc = IF e.tries = 0 THEN "edit" ELSE "judge"])
    BY <1>c DEF EditFails
  <2>2. PICK late \in {{}, IF ExecutesAt(a, "stage") THEN {e.edits} ELSE {}} :
             Records(a, [e EXCEPT !.tries = @ + 1, !.late = @ \union late,
                           !.pc = IF e.tries = 0 THEN "edit" ELSE "judge"])
    BY <2>1
  <2> DEFINE g == [e EXCEPT !.tries = @ + 1, !.late = @ \union late,
                           !.pc = IF e.tries = 0 THEN "edit" ELSE "judge"]
  <2>3. /\ DOMAIN g = ExecutionFields /\ g.pc \in {"edit", "judge"} /\ g.coded = e.coded
        /\ g.accepted = e.accepted /\ g.stage = e.stage /\ g.base = e.base
        /\ g.late = e.late \union late /\ g.patch = e.patch
    BY <1>1, <1>2
  <2>4. e.pc # "stage" => late = {}
    BY <2>2 DEF ExecutesAt
  <2>5. Records(a, g)
    BY <2>2
  <2> HIDE DEF g, e
  <2>6. Staged(g, patches')
    BY <1>1, <2>1, <2>3, <2>4 DEF Staged
  <2> QED
    BY <2>1, <2>3, <2>5, <2>6, RowsSame
<1>d. CASE LateStageEdit(a)
  <2>1. PICK late \in e.late :
             Records(a, [e EXCEPT !.stage = late @@ e.stage, !.late = e.late \ {late}])
             /\ patches' = patches
    BY <1>d DEF LateStageEdit
  <2> DEFINE g == [e EXCEPT !.stage = late @@ e.stage, !.late = e.late \ {late}]
  <2>2. /\ DOMAIN g = ExecutionFields /\ g.pc = e.pc /\ g.coded = e.coded
        /\ g.accepted = e.accepted /\ g.patch = e.patch /\ g.tested = e.tested /\ g.base = e.base
    BY <1>1, <1>2
  <2>3. e.late # {}
    BY <2>1
  <2>4. Records(a, g)
    BY <2>1
  <2> HIDE DEF g, e
  <2>5. Staged(g, patches')
    BY <1>1, <2>1, <2>2, <2>3 DEF Staged
  <2> QED
    BY <2>1, <2>2, <2>4, <2>5, RowsSame
<1>e. CASE Test(a)
  <2>1. PICK accepted \in BOOLEAN :
          Records(a, [e EXCEPT !.pc = "judge", !.tested = TestedFiles(a), !.accepted = accepted])
    BY <1>e DEF Test
  <2> DEFINE g == [e EXCEPT !.pc = "judge", !.tested = TestedFiles(a), !.accepted = accepted]
  <2>2. /\ DOMAIN g = ExecutionFields /\ g.pc = "judge" /\ g.coded = e.coded
        /\ g.tested = e.stage /\ g.patch = e.patch /\ g.base = e.base
    BY <1>1, <1>2 DEF TestedFiles
  <2>3. Records(a, g) /\ e.pc = "test" /\ patches' = patches
    BY <1>e, <2>1 DEF Test, ExecutesAt
  <2> HIDE DEF g, e
  <2>4. Staged(g, patches')
    BY <1>1, <2>2, <2>3 DEF Staged
  <2> QED
    BY <2>2, <2>3, <2>4, RowsSame
<1>f. CASE JudgeAttempt(a)
  <2>1. e.pc = "judge" /\ patches' = patches
    BY <1>f DEF JudgeAttempt, ExecutesAt
  <2>2. PICK label \in {"apply", "reject", "end"} :
          /\ Records(a, [e EXCEPT !.pc = label])
          /\ label = "apply" => e.accepted
    BY <1>f DEF JudgeAttempt
  <2> DEFINE g == [e EXCEPT !.pc = label]
  <2>3. /\ DOMAIN g = ExecutionFields /\ g.pc = label /\ g.coded = e.coded
        /\ g.accepted = e.accepted /\ g.patch = e.patch /\ g.tested = e.tested /\ g.base = e.base
    BY <1>1, <1>2
  <2>4. Records(a, g)
    BY <2>2
  <2> HIDE DEF g, e
  <2>5. Staged(g, patches')
    BY <1>1, <2>1, <2>2, <2>3 DEF Staged
  <2> QED
    BY <2>1, <2>3, <2>4, <2>5, RowsSame
<1>g. CASE EndAttempt(a)
  <2>1. PICK n : Records(a, [NoExecution EXCEPT !.attempt = n]) /\ patches' = patches
    BY <1>g DEF EndAttempt
  <2> QED
    BY <2>1, FreshExecution, RowsSame
<1>h. ASSUME NEW edits \in Proposals, Edit(a, edits)
      PROVE  RowsKept /\ \E g : Records(a, g) /\ DOMAIN g = ExecutionFields /\ Staged(g, patches')
  <2> DEFINE g == [e EXCEPT !.pc = "stage", !.coded = e.coded + 1, !.edits = edits,
                   !.patch = Len(patches) + 1]
  <2>1. /\ RowsKept /\ Len(patches) + 1 \in DOMAIN patches'
        /\ patches'[Len(patches) + 1].edits = edits
    <3>1. PatchTypes /\ Preview(edits)
      BY <1>1, <1>h DEF Edit
    <3>2. /\ RowsKept /\ Len(patches) \in Nat /\ DOMAIN patches' = 1 .. (Len(patches) + 1)
          /\ patches'[Len(patches) + 1].edits = edits
      BY <3>1, PreviewRows
    <3> QED
      BY <3>2
  <2>2. Records(a, g) /\ e.pc = "edit"
    BY <1>h DEF Edit, ExecutesAt
  <2>3. /\ DOMAIN g = ExecutionFields /\ g.pc = "stage" /\ g.coded = e.coded + 1
        /\ g.accepted = e.accepted /\ g.edits = edits /\ g.patch = Len(patches) + 1
        /\ g.stage = e.stage /\ g.base = e.base /\ g.late = e.late
    BY <1>1, <1>2
  <2> HIDE DEF g, e
  <2>4. Staged(g, patches')
    BY <1>1, <2>1, <2>2, <2>3 DEF Staged
  <2> QED
    BY <2>1, <2>2, <2>3, <2>4
<1> QED
  BY <1>a, <1>b, <1>c, <1>d, <1>e, <1>f, <1>g, <1>h DEF AgentStep


-----------------------------------------------------------------------------
\* The frame of an actor that begins to apply or to roll back.
LEMMA FrameEntered ==
  ASSUME PatchTypes, NEW p \in DOMAIN patches, NEW frame \in {Applying(p), RollingBack(p)}
  PROVE  /\ frame \in WriterFrame /\ frame.patch = p /\ frame.written = {}
         /\ frame.todo \subseteq DOMAIN patches[p].edits
         /\ \/ frame.doing \in {"returned", "raised"}
            \/ frame.doing = "apply" /\ patches[p].status = "preview"
            \/ /\ frame.doing = "rollback" /\ patches[p].status = "applied"
               /\ frame.todo = DOMAIN patches[p].edits
            \/ /\ frame.doing = "rollback" /\ patches[p].status = "preview"
               /\ frame.todo = {}
<1>1. /\ p \in Nat /\ patches[p] \in PatchRow
      /\ DOMAIN patches[p].backup = DOMAIN patches[p].edits
  BY DEF PatchTypes
<1>2. DOMAIN patches[p].edits \in SUBSET Files
  BY <1>1, PatchesAssumption DEF PatchRow
<1>3. \A how \in {"returned", "raised"} :
        /\ Ended(p, how) \in WriterFrame /\ Ended(p, how).patch = p
        /\ Ended(p, how).todo = {} /\ Ended(p, how).written = {} /\ Ended(p, how).doing = how
  BY <1>1 DEF Ended, NoWriter, WriterFrame
<1>4. \A todo \in SUBSET Files : \A how \in {"apply", "rollback"} :
        LET g == [doing |-> how, patch |-> p, todo |-> todo, written |-> {}]
        IN  g \in WriterFrame /\ g.patch = p /\ g.todo = todo /\ g.written = {} /\ g.doing = how
  BY <1>1 DEF WriterFrame
<1>5. CASE frame = Applying(p)
  <2>1. CASE patches[p].status = "preview"
    <3>1. frame = [doing |-> "apply", patch |-> p, todo |-> DOMAIN patches[p].edits, written |-> {}]
      BY <1>5, <2>1 DEF Applying
    <3> QED
      BY <1>2, <1>4, <2>1, <3>1
  <2>2. CASE patches[p].status # "preview"
    <3>1. frame \in {Ended(p, "returned"), Ended(p, "raised")}
      BY <1>5, <2>2 DEF Applying
    <3> QED
      BY <1>3, <3>1
  <2> QED
    BY <2>1, <2>2
<1>6. CASE frame = RollingBack(p)
  <2>1. CASE patches[p].status = "applied"
    <3>1. frame = [doing |-> "rollback", patch |-> p, todo |-> DOMAIN patches[p].edits, written |-> {}]
      BY <1>1, <1>6, <2>1 DEF RollingBack
    <3> QED
      BY <1>2, <1>4, <2>1, <3>1
  <2>2. CASE patches[p].status = "preview"
    <3>1. frame = [doing |-> "rollback", patch |-> p, todo |-> {}, written |-> {}]
      BY <1>6, <2>2 DEF RollingBack
    <3> QED
      BY <1>4, <2>2, <3>1
  <2>3. CASE patches[p].status \notin {"preview", "applied"}
    <3>1. frame = Ended(p, "returned")
      BY <1>6, <2>3 DEF RollingBack
    <3> QED
      BY <1>3, <3>1
  <2> QED
    BY <2>1, <2>2, <2>3
<1> QED
  BY <1>5, <1>6

LEMMA WriterSet ==
  ASSUME PatchTypes, NEW x \in Actors, NEW frame \in WriterFrame,
         writer' = [writer EXCEPT ![x] = frame]
  PROVE  /\ writer' \in [Actors -> WriterFrame] /\ writer'[x] = frame
         /\ \A y \in Actors \ {x} : writer'[y] = writer[y]
BY DEF PatchTypes

\* A patch stays accounted for when its writers go on as they were, no other
\* file gets what it wrote, and its row keeps its status.
LEMMA AccountKept ==
  ASSUME NEW q, Accounted(q),
         \A y \in Actors : Handles(y, q)' <=> Handles(y, q),
         \A y \in Actors : Handles(y, q) => writer'[y] = writer[y],
         WrittenBy(q)' \subseteq WrittenBy(q), patches'[q].status = patches[q].status
  PROVE  Accounted(q)'
BY DEF Accounted

\* A step that changes neither files nor rows nor who writes what.
LEMMA AccountSame ==
  ASSUME AccountInv, PatchTypes', UNCHANGED <<workspace, patches, contended, leftover, died>>,
         \A y \in Actors : Writing(y)' <=> Writing(y),
         \A y \in Actors : Writing(y) =>
           /\ writer'[y] = writer[y]
           /\ y \in Agents => execution'[y].pc = execution[y].pc
           /\ y \in Clients => request'[y] = request[y]
  PROVE  AccountInv'
<1>1. WritersKnow'
  BY DEF AccountInv, WritersKnow, Writing
<1>2. AuthorsKnown'
  BY RowsSame, AuthorsKept DEF AccountInv
<1>3. ASSUME ~died', NEW q \in DOMAIN patches, q \notin contended PROVE Accounted(q)'
  <2>1. Accounted(q)
    BY <1>3 DEF AccountInv
  <2>2. \A y \in Actors : Handles(y, q)' <=> Handles(y, q)
    BY DEF Handles, Writing
  <2>3. WrittenBy(q)' = WrittenBy(q)
    BY DEF WrittenBy
  <2> QED
    BY <2>1, <2>2, <2>3, AccountKept DEF Handles, Writing
<1> QED
  BY <1>1, <1>2, <1>3 DEF AccountInv

\* An actor that was not writing begins to.
LEMMA AccountEnters ==
  ASSUME AccountInv, PatchTypes', NEW x \in Actors, ~Writing(x), NEW p \in DOMAIN patches,
         NEW frame \in {Applying(p), RollingBack(p)}, Enters(x, frame),
         UNCHANGED <<workspace, patches, leftover, died>>,
         x \in Agents => execution'[x].pc \in {"apply", "reject"},
         x \in Clients => request'[x] # "idle",
         \A y \in Actors \ {x} : Writing(y) =>
           /\ y \in Agents => execution'[y].pc = execution[y].pc
           /\ y \in Clients => request'[y] = request[y]
  PROVE  AccountInv'
<1>1. /\ frame \in WriterFrame /\ frame.patch = p /\ frame.written = {}
      /\ frame.todo \subseteq DOMAIN patches[p].edits
  BY FrameEntered DEF AccountInv
<1>2. writer'[x] = frame /\ \A y \in Actors \ {x} : writer'[y] = writer[y]
  BY <1>1, WriterSet DEF Enters, AccountInv
<1>3. \A y \in Actors \ {x} : Writing(y)' <=> Writing(y)
  BY <1>2 DEF Writing
<1>4. WritersKnow'
  BY <1>1, <1>2, <1>3 DEF AccountInv, WritersKnow
<1>5. AuthorsKnown'
  BY RowsSame, AuthorsKept DEF AccountInv
<1>6. contended \subseteq contended'
  BY DEF Enters
<1>7. \A q : WrittenBy(q)' = WrittenBy(q)
  BY DEF WrittenBy
<1>8. ASSUME ~died', NEW q \in DOMAIN patches, q \notin contended' PROVE Accounted(q)'
  <2>1. Accounted(q)
    BY <1>6, <1>8 DEF AccountInv
  <2>2. \A y \in Actors \ {x} : Handles(y, q)' <=> Handles(y, q)
    BY <1>2, <1>3 DEF Handles
  <2>3. CASE ~Handles(x, q)'
    <3>1. \A y \in Actors : Handles(y, q)' <=> Handles(y, q)
      BY <2>2, <2>3 DEF Handles
    <3> QED
      BY <1>2, <1>7, <2>1, <3>1, AccountKept DEF Handles
  <2>4. CASE Handles(x, q)'
    <3>1. q = p /\ frame.doing \notin {"returned", "raised"}
      BY <1>1, <1>2, <2>4 DEF Handles, Writing
    <3>2. \A y \in Actors : ~Handles(y, q)
      <4>1. \A y \in Actors \ {x} : ~Handles(y, p)
        BY <1>1, <1>8, <3>1 DEF Enters, Handles
      <4> QED
        BY <3>1, <4>1 DEF Handles
    <3>3. \A y \in Actors : Handles(y, q)' => y = x
      BY <2>2, <3>2
    <3>4. patches[q].status = "applied" \/ WrittenBy(q) = {}
      BY <2>1, <3>2 DEF Accounted
    <3>5. WrittenBy(q) \subseteq DOMAIN patches[q].edits
      <4>1. q # 0
        BY DEF AccountInv, PatchTypes
      <4> QED
        BY <4>1 DEF WrittenBy, AccountInv, AuthorsKnown, Known
    <3>6. /\ WrittenBy(q) \subseteq ToRestore(frame)
          /\ frame.doing = "rollback" => patches[q].status = "applied" \/ WrittenBy(q) = {}
      <4>1. PatchTypes
        BY DEF AccountInv
      <4> QED
        BY <3>1, <3>4, <3>5, <4>1, FrameEntered DEF ToRestore
    <3> QED
      BY <1>2, <1>7, <2>4, <3>3, <3>6 DEF Accounted
  <2> QED
    BY <2>3, <2>4
<1> QED
  BY <1>4, <1>5, <1>8 DEF AccountInv

\* The table gets a row, which nobody has written for.
LEMMA AccountPreviews ==
  ASSUME AccountInv, PatchTypes', NEW edits \in Proposals, Preview(edits),
         UNCHANGED <<workspace, writer, contended, leftover, died>>,
         \A y \in Actors : Writing(y) =>
           /\ y \in Agents => execution'[y].pc = execution[y].pc
           /\ y \in Clients => request'[y] = request[y]
  PROVE  AccountInv'
<1>1. /\ RowsKept /\ Len(patches) \in Nat
      /\ DOMAIN patches = 1 .. Len(patches) /\ DOMAIN patches' = 1 .. (Len(patches) + 1)
      /\ \A p \in DOMAIN patches : patches'[p] = patches[p]
  BY PreviewRows DEF AccountInv
<1>2. WritersKnow'
  BY <1>1 DEF AccountInv, WritersKnow, Writing
<1>3. AuthorsKnown'
  BY PreviewKnown DEF AccountInv
<1>4. ASSUME ~died', NEW q \in DOMAIN patches', q \notin contended' PROVE Accounted(q)'
  <2>1. \A y \in Actors : Handles(y, q)' <=> Handles(y, q)
    BY DEF Handles, Writing
  <2>2. WrittenBy(q)' = WrittenBy(q)
    BY DEF WrittenBy
  <2>3. CASE q \in DOMAIN patches
    <3>1. Accounted(q)
      BY <1>4, <2>3 DEF AccountInv
    <3> QED
      BY <1>1, <2>1, <2>2, <2>3, <3>1, AccountKept
  <2>4. CASE q \notin DOMAIN patches
    <3>1. \A y \in Actors : ~Handles(y, q)
      BY <2>4 DEF AccountInv, WritersKnow, Handles
    <3>2. q # 0
      BY <1>1
    <3>3. WrittenBy(q) = {}
      BY <2>4, <3>2 DEF AccountInv, AuthorsKnown, Known, WrittenBy
    <3> QED
      BY <2>1, <2>2, <3>1, <3>3 DEF Accounted
  <2> QED
    BY <2>3, <2>4
<1> QED
  BY <1>2, <1>3, <1>4 DEF AccountInv

\* preview_apply_verify: a new row and its writer at once.
LEMMA AccountVerifies ==
  ASSUME AccountInv, NEW c \in Clients, NEW edits \in Proposals, AskVerify(c, edits)
  PROVE  AccountInv'
<1>1. /\ RowsKept /\ Len(patches) \in Nat /\ patches' \in Seq(PatchRow)
      /\ DOMAIN patches = 1 .. Len(patches) /\ DOMAIN patches' = 1 .. (Len(patches) + 1)
      /\ \A p \in DOMAIN patches : patches'[p] = patches[p]
      /\ patches'[Len(patches) + 1].edits = edits
      /\ \A p \in DOMAIN patches' : DOMAIN patches'[p].backup = DOMAIN patches'[p].edits
  BY PreviewRows DEF AccountInv, AskVerify
<1>2. UNCHANGED <<workspace, execution, contended, leftover, died>> /\ request[c] = "idle"
  BY DEF AskVerify
<1> DEFINE p == Len(patches) + 1
           frame == [doing |-> "apply", patch |-> p, todo |-> DOMAIN edits, written |-> {}]
<1>3. /\ frame \in WriterFrame /\ frame.patch = p /\ frame.written = {}
      /\ frame.todo = DOMAIN edits /\ frame.doing = "apply"
  BY <1>1, PatchesAssumption DEF WriterFrame
<1>4. writer' = [writer EXCEPT ![c] = frame] /\ c \in Actors
  BY DEF AskVerify, Actors
<1> HIDE DEF frame
<1>5. /\ writer' \in [Actors -> WriterFrame] /\ writer'[c] = frame
      /\ \A y \in Actors \ {c} : writer'[y] = writer[y]
  BY <1>3, <1>4, WriterSet DEF AccountInv
<1>6. PICK S : request \in [Clients -> S]
  BY DEF AccountInv, PatchTypes
<1>7. /\ request' \in [Clients -> S \union {"verify"}] /\ request'[c] = "verify"
      /\ \A y \in Clients \ {c} : request'[y] = request[y]
  BY <1>6 DEF AskVerify
<1>8. PatchTypes'
  BY <1>1, <1>2, <1>5, <1>7 DEF AccountInv, PatchTypes
<1>9. \A y \in Actors \ {c} : Writing(y)' <=> Writing(y)
  BY <1>5 DEF Writing
<1>10. ~Writing(c) /\ c \notin Agents
  BY <1>2, <1>4, PatchesAssumption DEF AccountInv, WritersKnow
<1>11. WritersKnow'
  <2>1. ASSUME NEW y \in Actors \ {c}, Writing(y)'
        PROVE  /\ writer'[y].patch \in DOMAIN patches'
               /\ writer'[y].todo \union writer'[y].written \subseteq DOMAIN patches'[writer'[y].patch].edits
               /\ y \in Agents => execution'[y].pc \in {"apply", "reject"}
               /\ y \in Clients => request'[y] # "idle"
    <3>1. Writing(y)
      BY <1>9, <2>1
    <3> QED
      BY <1>1, <1>2, <1>5, <1>7, <3>1 DEF AccountInv, WritersKnow
  <2>2. /\ writer'[c].patch \in DOMAIN patches'
        /\ writer'[c].todo \union writer'[c].written \subseteq DOMAIN patches'[writer'[c].patch].edits
        /\ c \in Agents => execution'[c].pc \in {"apply", "reject"}
        /\ c \in Clients => request'[c] # "idle"
    BY <1>1, <1>3, <1>5, <1>7, <1>10
  <2> QED
    BY <2>1, <2>2 DEF WritersKnow
<1>12. AuthorsKnown'
  BY <1>2, PreviewKnown DEF AccountInv, AskVerify
<1>13. ASSUME ~died', NEW q \in DOMAIN patches', q \notin contended' PROVE Accounted(q)'
  <2>1. WrittenBy(q)' = WrittenBy(q)
    BY <1>2 DEF WrittenBy
  <2>2. \A y \in Actors \ {c} : Handles(y, q)' <=> Handles(y, q)
    BY <1>5, <1>9 DEF Handles
  <2>3. CASE q \in DOMAIN patches
    <3>1. Accounted(q)
      BY <1>2, <1>13, <2>3 DEF AccountInv
    <3>2. ~Handles(c, q) /\ ~Handles(c, q)'
      BY <1>1, <1>3, <1>5, <1>10, <2>3 DEF Handles
    <3>3. \A y \in Actors : Handles(y, q)' <=> Handles(y, q)
      BY <2>2, <3>2
    <3>4. \A y \in Actors : Handles(y, q) => writer'[y] = writer[y]
      BY <1>5, <3>2
    <3> QED
      BY <1>1, <2>1, <2>3, <3>1, <3>3, <3>4, AccountKept
  <2>4. CASE q \notin DOMAIN patches
    <3>1. \A y \in Actors \ {c} : ~Handles(y, q)'
      BY <2>2, <2>4 DEF AccountInv, WritersKnow, Handles
    <3>2. WrittenBy(q) = {}
      BY <1>1, <2>4 DEF AccountInv, AuthorsKnown, Known, WrittenBy
    <3>3. Handles(c, q)'
      BY <1>1, <1>3, <1>5, <2>4 DEF Handles, Writing
    <3> QED
      BY <1>3, <1>4, <1>5, <2>1, <3>1, <3>2, <3>3 DEF Accounted
  <2> QED
    BY <2>3, <2>4
<1> QED
  BY <1>8, <1>11, <1>12, <1>13 DEF AccountInv

\* One step of an actor that writes: a file, or a failure, which may end it.
LEMMA AccountWrites ==
  ASSUME AccountInv, NEW x \in Actors, Writing(x), NEW frame \in WriterFrame,
         writer' = [writer EXCEPT ![x] = frame], workspace' \in [Files -> FileRow],
         UNCHANGED <<patches, execution, request, contended, died>>, leftover \subseteq leftover',
         frame.patch = writer[x].patch, frame.doing \in {"apply", "undo", "rollback", "raised"},
         frame.todo \union frame.written \subseteq writer[x].todo \union writer[x].written,
         \A f \in Files : Known(f, workspace'[f].author, patches),
         \A f \in Files : \/ workspace'[f].author \in {workspace[f].author, frame.patch, 0}
                          \/ <<f, workspace'[f].author>> \in leftover',
         WrittenBy(frame.patch) \subseteq ToRestore(writer[x]) /\ frame.doing # "raised"
           => WrittenBy(frame.patch)' \subseteq ToRestore(frame),
         frame.doing = "rollback" =>
           writer[x].doing = "rollback" /\ WrittenBy(frame.patch)' \subseteq WrittenBy(frame.patch),
         (/\ frame.doing = "raised" /\ WrittenBy(frame.patch) \subseteq ToRestore(writer[x])
          /\ writer[x].doing = "rollback" =>
               patches[frame.patch].status = "applied" \/ WrittenBy(frame.patch) = {})
           => patches[frame.patch].status = "applied" \/ WrittenBy(frame.patch)' = {}
  PROVE  AccountInv'
<1> DEFINE p == writer[x].patch
<1>1. /\ writer' \in [Actors -> WriterFrame] /\ writer'[x] = frame
      /\ \A y \in Actors \ {x} : writer'[y] = writer[y]
  BY WriterSet DEF AccountInv
<1>2. PatchTypes'
  BY <1>1 DEF AccountInv, PatchTypes
<1>3. /\ \A y \in Actors \ {x} : Writing(y)' <=> Writing(y)
      /\ Writing(x)' <=> frame.doing # "raised"
  BY <1>1 DEF Writing
<1>4. \A y \in Actors : writer'[y].patch = writer[y].patch
  BY <1>1
<1>5. WritersKnow'
  <2>1. \A y \in Actors : writer'[y].todo \union writer'[y].written
                            \subseteq writer[y].todo \union writer[y].written
    BY <1>1
  <2>2. \A y \in Actors : Writing(y)' => Writing(y)
    BY <1>3
  <2> QED
    BY <1>4, <2>1, <2>2 DEF AccountInv, WritersKnow
<1>6. AuthorsKnown'
  BY DEF AccountInv, AuthorsKnown, Known
<1>7. ASSUME ~died', NEW q \in DOMAIN patches, q \notin contended PROVE Accounted(q)'
  <2>1. Accounted(q) /\ q # 0
    BY <1>7 DEF AccountInv, PatchTypes
  <2>2. \A y \in Actors \ {x} : Handles(y, q)' <=> Handles(y, q)
    BY <1>3, <1>4 DEF Handles
  <2>3. CASE q # p
    <3>1. WrittenBy(q)' \subseteq WrittenBy(q)
      BY <2>1, <2>3 DEF WrittenBy
    <3>2. ~Handles(x, q) /\ ~Handles(x, q)'
      BY <1>4, <2>3 DEF Handles
    <3>3. \A y \in Actors : Handles(y, q)' <=> Handles(y, q)
      BY <2>2, <3>2
    <3>4. \A y \in Actors : Handles(y, q) => writer'[y] = writer[y]
      BY <1>1, <3>2
    <3> QED
      BY <2>1, <3>1, <3>3, <3>4, AccountKept
  <2>4. CASE q = p
    <3>1. Handles(x, q)
      BY <2>4 DEF Handles
    <3>2. \A y \in Actors : Handles(y, q)' => y = x
      BY <2>1, <2>2, <3>1 DEF Accounted
    <3>3. /\ WrittenBy(q) \subseteq ToRestore(writer[x])
          /\ writer[x].doing = "rollback" => patches[q].status = "applied" \/ WrittenBy(q) = {}
      BY <2>1, <3>1 DEF Accounted
    <3>4. CASE frame.doing = "raised"
      <4>1. \A y \in Actors : ~Handles(y, q)'
        BY <1>3, <3>2, <3>4 DEF Handles
      <4>2. patches[q].status = "applied" \/ WrittenBy(q)' = {}
        BY <2>4, <3>3, <3>4
      <4> QED
        BY <4>1, <4>2 DEF Accounted
    <3>5. CASE frame.doing # "raised"
      <4>1. Handles(x, q)'
        BY <1>3, <1>4, <2>4, <3>5 DEF Handles
      <4>2. WrittenBy(q)' \subseteq ToRestore(frame)
        BY <2>4, <3>3, <3>5
      <4>3. frame.doing = "rollback" => patches[q].status = "applied" \/ WrittenBy(q)' = {}
        BY <2>4, <3>3
      <4> QED
        BY <1>1, <3>2, <4>1, <4>2, <4>3 DEF Accounted
    <3> QED
      BY <3>4, <3>5
  <2> QED
    BY <2>3, <2>4
<1> QED
  BY <1>2, <1>5, <1>6, <1>7 DEF AccountInv

\* The rows that a writer finds, and what it may put in the files.
LEMMA WriterRow ==
  ASSUME AccountInv, NEW x \in Actors, Writing(x)
  PROVE  LET p == writer[x].patch IN
         /\ writer[x] \in WriterFrame /\ workspace \in [Files -> FileRow]
         /\ p \in DOMAIN patches /\ p \in Nat \ {0}
         /\ writer[x].todo \subseteq DOMAIN patches[p].edits
         /\ writer[x].written \subseteq DOMAIN patches[p].edits
         /\ DOMAIN patches[p].edits \in SUBSET Files
         /\ \A f \in writer[x].todo :
              /\ patches[p].edits[f] \in Nat /\ Known(f, p, patches)
              /\ patches[p].backup[f] \in FileRow /\ Known(f, patches[p].backup[f].author, patches)
<1> DEFINE p == writer[x].patch
<1>1. /\ writer[x] \in WriterFrame /\ workspace \in [Files -> FileRow]
      /\ p \in DOMAIN patches /\ p \in Nat \ {0} /\ patches[p] \in PatchRow
      /\ DOMAIN patches[p].backup = DOMAIN patches[p].edits
      /\ writer[x].todo \union writer[x].written \subseteq DOMAIN patches[p].edits
  BY DEF AccountInv, PatchTypes, WritersKnow, WriterFrame
<1>2. /\ DOMAIN patches[p].edits \in SUBSET Files
      /\ \A f \in DOMAIN patches[p].edits : patches[p].edits[f] \in Nat
  BY <1>1, PatchesAssumption DEF PatchRow
<1>3. \A f \in DOMAIN patches[p].backup : patches[p].backup[f] \in FileRow
  <2>1. patches[p].backup \in Backups
    BY <1>1 DEF PatchRow
  <2>2. PICK S \in SUBSET Files : patches[p].backup \in [S -> FileRow]
    BY <2>1 DEF Backups
  <2> QED
    BY <2>2
<1>4. \A f \in DOMAIN patches[p].edits :
        Known(f, p, patches) /\ Known(f, patches[p].backup[f].author, patches)
  BY <1>1 DEF AccountInv, AuthorsKnown, Known
<1> HIDE DEF p
<1>5. \A f \in writer[x].todo :
        /\ patches[p].edits[f] \in Nat /\ Known(f, p, patches)
        /\ patches[p].backup[f] \in FileRow /\ Known(f, patches[p].backup[f].author, patches)
  BY <1>1, <1>2, <1>3, <1>4
<1> QED
  BY <1>1, <1>2, <1>5 DEF p

\* A file gets what a patch writes to it.
LEMMA PutFiles ==
  ASSUME AccountInv, NEW x \in Actors, Writing(x), NEW f \in writer[x].todo,
         Put(writer[x].patch, f)
  PROVE  /\ workspace' \in [Files -> FileRow] /\ f \in Files
         /\ workspace'[f].author = writer[x].patch
         /\ \A g \in Files \ {f} : workspace'[g] = workspace[g]
         /\ \A g \in Files : Known(g, workspace'[g].author, patches)
<1> DEFINE p == writer[x].patch
           row == [content |-> patches[p].edits[f], author |-> p]
<1>1. /\ workspace \in [Files -> FileRow] /\ p \in Nat /\ f \in Files
      /\ patches[p].edits[f] \in Nat /\ Known(f, p, patches)
  BY WriterRow
<1>2. workspace' = [workspace EXCEPT ![f] = row] /\ row \in FileRow /\ row.author = p
  BY <1>1 DEF Put, FileRow
<1> HIDE DEF row
<1>3. /\ workspace' \in [Files -> FileRow] /\ workspace'[f] = row
      /\ \A g \in Files \ {f} : workspace'[g] = workspace[g]
  BY <1>1, <1>2
<1>4. \A g \in Files : Known(g, workspace[g].author, patches)
  BY DEF AccountInv, AuthorsKnown
<1>5. ASSUME NEW g \in Files PROVE Known(g, workspace'[g].author, patches)
  <2>1. CASE g = f
    BY <1>1, <1>2, <1>3, <2>1
  <2>2. CASE g # f
    BY <1>3, <1>4, <2>2
  <2> QED
    BY <2>1, <2>2
<1> QED
  BY <1>1, <1>2, <1>3, <1>5

\* Files get their backup: what a patch wrote comes back as a leftover only.
LEMMA RestoredFiles ==
  ASSUME AccountInv, NEW x \in Actors, Writing(x), NEW files \in SUBSET writer[x].todo,
         Restore(writer[x].patch, files),
         leftover \subseteq leftover', BroughtBack(writer[x].patch, files) \subseteq leftover'
  PROVE  /\ workspace' \in [Files -> FileRow]
         /\ \A g \in Files : Known(g, workspace'[g].author, patches)
         /\ \A g \in files : workspace'[g].author = 0 \/ <<g, workspace'[g].author>> \in leftover'
         /\ \A g \in Files \ files : workspace'[g] = workspace[g]
         /\ \A q \in DOMAIN patches : WrittenBy(q)' \subseteq WrittenBy(q) \ files
<1> DEFINE p == writer[x].patch
<1>1. /\ workspace \in [Files -> FileRow] /\ files \subseteq Files
      /\ \A f \in files : patches[p].backup[f] \in FileRow /\ Known(f, patches[p].backup[f].author, patches)
  BY WriterRow
<1>2. /\ \A g \in files : workspace'[g] = patches[p].backup[g]
      /\ \A g \in Files \ files : workspace'[g] = workspace[g]
      /\ workspace' \in [Files -> FileRow]
  BY <1>1 DEF Restore
<1>3. \A g \in Files : Known(g, workspace'[g].author, patches)
  BY <1>1, <1>2 DEF AccountInv, AuthorsKnown
<1>4. ASSUME NEW g \in files, workspace'[g].author # 0
      PROVE  <<g, workspace'[g].author>> \in leftover'
  <2>1. patches[p].backup[g].author \in DOMAIN patches
    BY <1>1, <1>2, <1>4 DEF Known
  <2>2. workspace'[g].author = patches[p].backup[g].author
    BY <1>2
  <2>3. <<g, patches[p].backup[g].author>> \in {<<f, patches[p].backup[f].author>> : f \in files}
    OBVIOUS
  <2>4. <<g, patches[p].backup[g].author>> \notin Files \X {0}
    BY <1>4, <2>2
  <2>5. <<g, patches[p].backup[g].author>> \in BroughtBack(p, files)
    BY <2>3, <2>4 DEF BroughtBack
  <2> QED
    BY <2>2, <2>5
<1>5. ASSUME NEW q \in DOMAIN patches, NEW g \in WrittenBy(q)'
      PROVE  g \in WrittenBy(q) \ files
  <2>1. q # 0
    BY DEF AccountInv, PatchTypes
  <2>2. g \in Files /\ workspace'[g].author = q /\ <<g, q>> \notin leftover'
    BY DEF WrittenBy
  <2>3. g \notin files
    BY <1>4, <2>1, <2>2
  <2> QED
    BY <1>2, <2>2, <2>3 DEF WrittenBy
<1> QED
  BY <1>2, <1>3, <1>4, <1>5

LEMMA AccountWriteSteps ==
  ASSUME AccountInv, NEW x \in Actors,
         \/ \E f \in Files : WriteFile(x, f) \/ RestoreFile(x, f)
         \/ WriteFails(x)
  PROVE  AccountInv'
<1>1. Writing(x)
  BY DEF WriteFile, RestoreFile, WriteFails, Writing
<1>p. PICK p : p = writer[x].patch
  OBVIOUS
<1>2. /\ writer[x] \in WriterFrame /\ workspace \in [Files -> FileRow] /\ p \in DOMAIN patches
      /\ \A f \in Files : Known(f, workspace[f].author, patches)
  BY <1>1, <1>p, WriterRow DEF AccountInv, AuthorsKnown
<1>3. ASSUME NEW f \in Files, WriteFile(x, f) PROVE AccountInv'
  <2> DEFINE frame == [writer[x] EXCEPT !.todo = @ \ {f}, !.written = @ \union {f}]
  <2>1. /\ frame \in WriterFrame /\ frame.patch = p /\ frame.doing = writer[x].doing
        /\ frame.todo = writer[x].todo \ {f} /\ frame.written = writer[x].written \union {f}
    BY <1>p, <1>2 DEF WriterFrame
  <2>2. writer' = [writer EXCEPT ![x] = frame]
    BY <1>3 DEF WriteFile
  <2>3. /\ writer[x].doing = "apply" /\ f \in writer[x].todo /\ Put(p, f)
        /\ UNCHANGED <<patches, execution, request, contended, leftover, died>>
    BY <1>p, <1>3 DEF WriteFile
  <2> HIDE DEF frame
  <2>4. /\ workspace' \in [Files -> FileRow] /\ workspace'[f].author = p
        /\ \A g \in Files \ {f} : workspace'[g] = workspace[g]
        /\ \A g \in Files : Known(g, workspace'[g].author, patches)
    BY <1>p, <1>1, <2>3, PutFiles
  <2>5. WrittenBy(p)' \subseteq WrittenBy(p) \union {f}
    BY <2>3, <2>4 DEF WrittenBy
  <2>6. \A g \in Files : workspace'[g].author \in {workspace[g].author, frame.patch, 0}
    BY <2>1, <2>4
  <2>7. WrittenBy(p) \subseteq ToRestore(writer[x]) => WrittenBy(p)' \subseteq ToRestore(frame)
    BY <2>1, <2>3, <2>5 DEF ToRestore
  <2>8. frame.todo \union frame.written \subseteq writer[x].todo \union writer[x].written
    BY <2>1, <2>3
  <2> QED
    BY <1>p, <1>1, <2>1, <2>2, <2>3, <2>4, <2>6, <2>7, <2>8, AccountWrites
<1>4. ASSUME NEW f \in Files, RestoreFile(x, f) PROVE AccountInv'
  <2> DEFINE frame == [writer[x] EXCEPT !.todo = @ \ {f}]
  <2>1. /\ frame \in WriterFrame /\ frame.patch = p /\ frame.doing = writer[x].doing
        /\ frame.todo = writer[x].todo \ {f} /\ frame.written = writer[x].written
    BY <1>p, <1>2 DEF WriterFrame
  <2>2. writer' = [writer EXCEPT ![x] = frame]
    BY <1>4 DEF RestoreFile
  <2>3. /\ writer[x].doing \in {"undo", "rollback"} /\ {f} \in SUBSET writer[x].todo
        /\ Restore(p, {f}) /\ leftover' = leftover \union BroughtBack(p, {f})
        /\ UNCHANGED <<patches, execution, request, contended, died>>
    BY <1>p, <1>4 DEF RestoreFile
  <2> HIDE DEF frame
  <2>4. /\ workspace' \in [Files -> FileRow]
        /\ \A g \in Files : Known(g, workspace'[g].author, patches)
        /\ \A g \in {f} : workspace'[g].author = 0 \/ <<g, workspace'[g].author>> \in leftover'
        /\ \A g \in Files \ {f} : workspace'[g] = workspace[g]
        /\ WrittenBy(p)' \subseteq WrittenBy(p) \ {f}
    <3>1. PICK files : files = {f}
      OBVIOUS
    <3>2. /\ files \in SUBSET writer[x].todo /\ Restore(writer[x].patch, files)
          /\ leftover \subseteq leftover' /\ BroughtBack(writer[x].patch, files) \subseteq leftover'
      BY <1>p, <2>3, <3>1
    <3>3. /\ workspace' \in [Files -> FileRow]
          /\ \A g \in Files : Known(g, workspace'[g].author, patches)
          /\ \A g \in files : workspace'[g].author = 0 \/ <<g, workspace'[g].author>> \in leftover'
          /\ \A g \in Files \ files : workspace'[g] = workspace[g]
          /\ WrittenBy(p)' \subseteq WrittenBy(p) \ files
      BY <1>1, <1>2, <3>2, RestoredFiles
    <3> QED
      BY <3>1, <3>3
  <2>5. \A g \in Files : \/ workspace'[g].author \in {workspace[g].author, frame.patch, 0}
                        \/ <<g, workspace'[g].author>> \in leftover'
    BY <2>4
  <2>6. WrittenBy(p) \subseteq ToRestore(writer[x]) => WrittenBy(p)' \subseteq ToRestore(frame)
    BY <2>1, <2>3, <2>4 DEF ToRestore
  <2>7. frame.todo \union frame.written \subseteq writer[x].todo \union writer[x].written
    BY <2>1
  <2>8. leftover \subseteq leftover'
    BY <2>3
  <2> QED
    BY <1>p, <1>1, <2>1, <2>2, <2>3, <2>4, <2>5, <2>6, <2>7, <2>8, AccountWrites
<1>5. CASE WriteFails(x)
  <2> DEFINE frame == [writer[x] EXCEPT !.doing = "undo", !.todo = ToUndo(writer[x])]
  <2>1. /\ frame \in WriterFrame /\ frame.patch = p /\ frame.doing = "undo"
        /\ frame.todo = writer[x].written /\ frame.written = writer[x].written
    BY <1>p, <1>2 DEF WriterFrame, ToUndo
  <2>2. writer' = [writer EXCEPT ![x] = frame]
    BY <1>5 DEF WriteFails
  <2>3. /\ writer[x].doing = "apply"
        /\ UNCHANGED <<patches, execution, request, contended, died>>
    BY <1>5 DEF WriteFails
  <2> HIDE DEF frame
  <2>4. frame.todo \union frame.written \subseteq writer[x].todo \union writer[x].written
    BY <2>1
  <2>5. /\ workspace' \in [Files -> FileRow] /\ leftover \subseteq leftover'
        /\ \A g \in Files : Known(g, workspace'[g].author, patches)
        /\ \A g \in Files : workspace'[g].author \in {workspace[g].author, p}
        /\ WrittenBy(p)' \subseteq WrittenBy(p)
    <3>1. CASE UNCHANGED <<workspace, leftover>>
      BY <1>2, <3>1 DEF WrittenBy
    <3>2. CASE \E f \in writer[x].todo : Put(p, f) /\ leftover' = leftover \union {<<f, p>>}
      <4>1. PICK f \in writer[x].todo : Put(p, f) /\ leftover' = leftover \union {<<f, p>>}
        BY <3>2
      <4>2. /\ workspace' \in [Files -> FileRow] /\ workspace'[f].author = p
            /\ \A g \in Files \ {f} : workspace'[g] = workspace[g]
            /\ \A g \in Files : Known(g, workspace'[g].author, patches)
        BY <1>p, <1>1, <4>1, PutFiles
      <4> QED
        BY <4>1, <4>2 DEF WrittenBy
    <3> QED
      BY <1>p, <1>5, <3>1, <3>2 DEF WriteFails
  <2>6. WrittenBy(p) \subseteq ToRestore(writer[x]) => WrittenBy(p)' \subseteq ToRestore(frame)
    BY <2>1, <2>3, <2>5 DEF ToRestore
  <2> QED
    BY <1>p, <1>1, <2>1, <2>2, <2>3, <2>4, <2>5, <2>6, AccountWrites
<1> QED
  BY <1>3, <1>4, <1>5

\* A failure that ends the apply or the rollback: what it leaves of the patch
\* is a leftover, or the row still says applied.
LEMMA AccountFailures ==
  ASSUME AccountInv, NEW x \in Actors, RestoreFails(x) \/ StatusFails(x)
  PROVE  AccountInv'
<1>1. Writing(x)
  BY DEF RestoreFails, StatusFails, Writing
<1>p. PICK p : p = writer[x].patch
  OBVIOUS
<1> DEFINE frame == Ended(p, "raised")
<1>2. /\ writer[x] \in WriterFrame /\ workspace \in [Files -> FileRow] /\ p \in DOMAIN patches
      /\ p \in Nat /\ \A f \in Files : Known(f, workspace[f].author, patches)
  BY <1>1, <1>p, WriterRow DEF AccountInv, AuthorsKnown
<1>3. /\ frame \in WriterFrame /\ frame.patch = p /\ frame.doing = "raised"
      /\ frame.todo = {} /\ frame.written = {}
  BY <1>2 DEF Ended, NoWriter, WriterFrame
<1>4. writer' = [writer EXCEPT ![x] = frame]
  BY <1>p DEF RestoreFails, StatusFails
<1>5. UNCHANGED <<patches, execution, request, contended, died>>
  BY DEF RestoreFails, StatusFails
<1> HIDE DEF frame
<1>6. /\ workspace' \in [Files -> FileRow] /\ leftover \subseteq leftover'
      /\ \A g \in Files : Known(g, workspace'[g].author, patches)
      /\ \A g \in Files : \/ workspace'[g].author \in {workspace[g].author, 0}
                          \/ <<g, workspace'[g].author>> \in leftover'
      /\ WrittenBy(p)' \subseteq WrittenBy(p)
      /\ writer[x].doing # "rollback" /\ WrittenBy(p) \subseteq ToRestore(writer[x])
           => WrittenBy(p)' = {}
  <2>1. CASE RestoreFails(x)
    <3>1. PICK files \in {{}} \union {{f} : f \in writer[x].todo} :
            LET kept == IF writer[x].doing = "undo" THEN writer[x].todo \ files ELSE {} IN
            /\ Restore(p, files)
            /\ leftover' = leftover \union BroughtBack(p, files) \union (kept \X {p})
      BY <1>p, <2>1 DEF RestoreFails
    <3>2. files \in SUBSET writer[x].todo /\ leftover \subseteq leftover'
          /\ BroughtBack(p, files) \subseteq leftover'
      BY <3>1
    <3>3. /\ workspace' \in [Files -> FileRow]
          /\ \A g \in Files : Known(g, workspace'[g].author, patches)
          /\ \A g \in files : workspace'[g].author = 0 \/ <<g, workspace'[g].author>> \in leftover'
          /\ \A g \in Files \ files : workspace'[g] = workspace[g]
          /\ WrittenBy(p)' \subseteq WrittenBy(p) \ files
      BY <1>p, <1>1, <1>2, <3>1, <3>2, RestoredFiles
    <3>4. ASSUME writer[x].doing = "undo", WrittenBy(p) \subseteq writer[x].todo
          PROVE  WrittenBy(p)' = {}
      <4>1. \A f \in writer[x].todo \ files : <<f, p>> \in leftover'
        BY <3>1, <3>4
      <4> QED
        BY <3>3, <3>4, <4>1 DEF WrittenBy
    <3>5. writer[x].doing \in {"undo", "rollback"}
      BY <2>1 DEF RestoreFails
    <3> QED
      BY <3>2, <3>3, <3>4, <3>5 DEF ToRestore
  <2>2. CASE StatusFails(x)
    <3>1. /\ UNCHANGED workspace /\ leftover \subseteq leftover'
          /\ writer[x].doing \in {"apply", "rollback"}
          /\ writer[x].doing = "apply" => \A f \in writer[x].written : <<f, p>> \in leftover'
      BY <1>p, <2>2 DEF StatusFails
    <3> QED
      BY <1>2, <3>1 DEF WrittenBy, ToRestore
  <2> QED
    BY <2>1, <2>2
<1> QED
  BY <1>p, <1>1, <1>3, <1>4, <1>5, <1>6, AccountWrites

\* The writer ends: the row says so, whatever it says by now.
LEMMA AccountEndWrite ==
  ASSUME AccountInv, NEW x \in Actors, EndWrite(x)
  PROVE  AccountInv' /\ RowsKept
<1> DEFINE p == writer[x].patch
           how == IF writer[x].doing = "undo" THEN "raised" ELSE "returned"
           frame == Ended(p, how)
<1>1. /\ writer[x] \in WriterFrame /\ Writing(x) /\ writer[x].todo = {} /\ PatchTypes
      /\ p \in DOMAIN patches /\ p \in Nat
  BY DEF AccountInv, PatchTypes, EndWrite, WritersKnow, WriterFrame
<1>2. /\ frame \in WriterFrame /\ frame.doing \in {"raised", "returned"}
  BY <1>1 DEF Ended, NoWriter, WriterFrame
<1>3. writer' = [writer EXCEPT ![x] = frame]
  BY DEF EndWrite
<1>4. UNCHANGED <<workspace, execution, request, contended, leftover, died>>
  BY DEF EndWrite
<1> HIDE DEF frame
<1>5. /\ writer' \in [Actors -> WriterFrame] /\ writer'[x] = frame
      /\ \A y \in Actors \ {x} : writer'[y] = writer[y]
  BY <1>1, <1>2, <1>3, WriterSet
<1>6. /\ patches' \in Seq(PatchRow) /\ RowsKept /\ DOMAIN patches' = DOMAIN patches
      /\ \A q \in DOMAIN patches \ {p} : patches'[q] = patches[q]
      /\ \A q \in DOMAIN patches' : DOMAIN patches'[q].backup = DOMAIN patches'[q].edits
      /\ writer[x].doing = "apply" => patches'[p].status = "applied"
  <2>1. CASE writer[x].doing = "apply"
    <3>1. patches' = [patches EXCEPT ![p].status = "applied"]
      BY <2>1 DEF EndWrite
    <3> QED
      BY <1>1, <3>1, StatusRows
  <2>2. CASE writer[x].doing = "rollback"
    <3>1. patches' = [patches EXCEPT ![p].status = "rolled_back"]
      BY <2>2 DEF EndWrite
    <3> QED
      BY <1>1, <2>2, <3>1, StatusRows
  <2>3. CASE writer[x].doing \notin {"apply", "rollback"}
    <3>1. patches' = patches
      BY <2>3 DEF EndWrite
    <3> QED
      BY <1>1, <2>3, <3>1, RowsSame DEF PatchTypes
  <2> QED
    BY <2>1, <2>2, <2>3
<1>7. PatchTypes'
  BY <1>1, <1>4, <1>5, <1>6 DEF PatchTypes
<1>8. ~Writing(x)' /\ \A y \in Actors \ {x} : Writing(y)' <=> Writing(y)
  BY <1>2, <1>5 DEF Writing
<1>9. WritersKnow'
  BY <1>4, <1>5, <1>6, <1>8 DEF AccountInv, WritersKnow, RowsKept, Writing
<1>10. AuthorsKnown'
  BY <1>4, <1>6, AuthorsKept DEF AccountInv
<1>11. ASSUME ~died', NEW q \in DOMAIN patches', q \notin contended' PROVE Accounted(q)'
  <2>1. Accounted(q)
    BY <1>4, <1>6, <1>11 DEF AccountInv
  <2>2. WrittenBy(q)' = WrittenBy(q)
    BY <1>4 DEF WrittenBy
  <2>3. ~Handles(x, q)' /\ \A y \in Actors \ {x} : Handles(y, q)' <=> Handles(y, q)
    BY <1>5, <1>8 DEF Handles
  <2>4. CASE q # p
    <3>1. ~Handles(x, q)
      BY <2>4 DEF Handles
    <3>2. \A y \in Actors : Handles(y, q)' <=> Handles(y, q)
      BY <2>3, <3>1
    <3>3. \A y \in Actors : Handles(y, q) => writer'[y] = writer[y]
      BY <1>5, <3>1
    <3>4. patches'[q].status = patches[q].status
      BY <1>6, <2>4
    <3> QED
      BY <2>1, <2>2, <3>2, <3>3, <3>4, AccountKept
  <2>5. CASE q = p
    <3>1. Handles(x, q)
      BY <1>1, <2>5 DEF Handles
    <3>2. \A y \in Actors : ~Handles(y, q)'
      BY <2>1, <2>3, <3>1 DEF Accounted
    <3>3. writer[x].doing # "apply" => WrittenBy(q) = {}
      BY <1>1, <2>1, <3>1 DEF Accounted, ToRestore
    <3>4. patches'[q].status = "applied" \/ WrittenBy(q)' = {}
      BY <1>6, <2>2, <2>5, <3>3
    <3> QED
      BY <3>2, <3>4 DEF Accounted
  <2> QED
    BY <2>4, <2>5
<1> QED
  BY <1>6, <1>7, <1>9, <1>10, <1>11 DEF AccountInv

\* An actor that does not write gives up its frame.
LEMMA AccountLeaves ==
  ASSUME AccountInv, NEW x \in Actors, ~Writing(x), writer' = [writer EXCEPT ![x] = NoWriter],
         UNCHANGED <<workspace, patches, contended, leftover, died>>,
         \E S : execution' \in [Agents -> S],
         \A a \in Agents : DOMAIN execution'[a] = ExecutionFields,
         \E S : request' \in [Clients -> S],
         \A y \in Actors \ {x} :
           /\ y \in Agents => execution'[y].pc = execution[y].pc
           /\ y \in Clients => request'[y] = request[y]
  PROVE  AccountInv'
<1>1. NoWriter \in WriterFrame /\ NoWriter.doing = "nothing"
  BY DEF NoWriter, WriterFrame
<1>2. /\ writer' \in [Actors -> WriterFrame] /\ writer'[x] = NoWriter
      /\ \A y \in Actors \ {x} : writer'[y] = writer[y]
  BY <1>1, WriterSet DEF AccountInv
<1>3. PatchTypes'
  BY <1>2 DEF AccountInv, PatchTypes
<1>4. ~Writing(x)' /\ \A y \in Actors \ {x} : Writing(y)' <=> Writing(y)
  BY <1>1, <1>2 DEF Writing
<1> QED
  BY <1>2, <1>3, <1>4, AccountSame DEF Writing

-----------------------------------------------------------------------------
\* The steps of an agent.
LEMMA AccountAgent ==
  ASSUME AccountInv, StagedInv, NEW a \in Agents, AgentStep(a)
  PROVE  AccountInv'
<1>1. PICK g : Records(a, g) /\ DOMAIN g = ExecutionFields /\ Staged(g, patches')
  BY AgentStages
<1>2. /\ \E S : execution' \in [Agents -> S]
      /\ \A b \in Agents : DOMAIN execution'[b] = ExecutionFields
  BY <1>1, AgentStages, AgentStaged
<1>3. PICK S : execution \in [Agents -> S]
  BY DEF AccountInv, PatchTypes
<1>4. execution'[a] = g /\ \A b \in Agents \ {a} : execution'[b] = execution[b]
  BY <1>1, <1>3 DEF Records
<1>5. a \in Actors /\ a \notin Clients /\ \A y \in Actors : y # a => y \in Clients \/ y \in Agents \ {a}
  BY PatchesAssumption DEF Actors
<1>6. execution[a].pc \notin {"apply", "reject"} => ~Writing(a)
  BY <1>5 DEF AccountInv, WritersKnow
<1>7. Staged(execution[a], patches) /\ DOMAIN execution[a] = ExecutionFields
  BY DEF StagedInv, PatchTypes
<1>8. ASSUME UNCHANGED <<workspace, patches, writer, request, contended, leftover, died>>,
             execution[a].pc \notin {"apply", "reject"}
      PROVE  AccountInv'
  <2>1. PatchTypes'
    BY <1>2, <1>8 DEF AccountInv, PatchTypes
  <2>2. \A y \in Actors : Writing(y)' <=> Writing(y)
    BY <1>8 DEF Writing
  <2>3. ASSUME NEW y \in Actors, Writing(y)
        PROVE  /\ writer'[y] = writer[y]
               /\ y \in Agents => execution'[y].pc = execution[y].pc
               /\ y \in Clients => request'[y] = request[y]
    BY <1>4, <1>6, <1>8, <2>3
  <2> QED
    BY <1>8, <2>1, <2>2, <2>3, AccountSame
<1>a. CASE BeginAttempt(a) \/ StageEdit(a) \/ EditFails(a) \/ Test(a)
  BY <1>8, <1>a DEF BeginAttempt, StageEdit, EditFails, Test, ExecutesAt
<1>b. CASE LateStageEdit(a)
  <2>1. UNCHANGED <<workspace, patches, writer, request, contended, leftover, died>>
    BY <1>b DEF LateStageEdit
  <2>2. execution'[a].pc = execution[a].pc
    <3>1. PICK late \in execution[a].late :
            Records(a, [execution[a] EXCEPT !.stage = late @@ @, !.late = @ \ {late}])
      BY <1>b DEF LateStageEdit
    <3>2. execution'[a] = [execution[a] EXCEPT !.stage = late @@ @, !.late = @ \ {late}]
      BY <1>3, <3>1 DEF Records
    <3> QED
      BY <1>7, <3>2 DEF ExecutionFields
  <2>3. PatchTypes'
    BY <1>2, <2>1 DEF AccountInv, PatchTypes
  <2>4. \A y \in Actors : Writing(y)' <=> Writing(y)
    BY <2>1 DEF Writing
  <2>5. ASSUME NEW y \in Actors, Writing(y)
        PROVE  /\ writer'[y] = writer[y]
               /\ y \in Agents => execution'[y].pc = execution[y].pc
               /\ y \in Clients => request'[y] = request[y]
    BY <1>4, <2>1, <2>2
  <2> QED
    BY <2>1, <2>3, <2>4, <2>5, AccountSame
<1>c. CASE JudgeAttempt(a)
  <2>1. UNCHANGED <<workspace, patches, request, leftover, died>> /\ execution[a].pc = "judge"
    BY <1>c DEF JudgeAttempt, ExecutesAt
  <2>2. CASE UNCHANGED <<writer, contended>>
    BY <1>8, <2>1, <2>2
  <2>3. CASE \E frame \in {Applying(execution[a].patch), RollingBack(execution[a].patch)} :
               \E label \in {"apply", "reject"} :
                 /\ execution[a].patch # 0
                 /\ Enters(a, frame)
                 /\ Records(a, [execution[a] EXCEPT !.pc = label])
    <3> DEFINE p == execution[a].patch
    <3>1. p \in DOMAIN patches
      BY <1>7, <2>3 DEF Staged
    <3>2. PICK frame \in {Applying(p), RollingBack(p)} : 
            \E label \in {"apply", "reject"} :
              Enters(a, frame) /\ Records(a, [execution[a] EXCEPT !.pc = label])
      BY <2>3
    <3>3. execution'[a].pc \in {"apply", "reject"}
      BY <1>3, <1>7, <3>2 DEF Records, ExecutionFields
    <3>4. frame \in WriterFrame /\ Enters(a, frame)
      BY <3>1, <3>2, FrameEntered DEF AccountInv
    <3>5. writer' \in [Actors -> WriterFrame] /\ contended' \subseteq Nat
      <4>1. frame.patch \in Nat
        BY <3>4 DEF WriterFrame
      <4>2. writer' \in [Actors -> WriterFrame]
        BY <1>5, <3>4, WriterSet DEF AccountInv, Enters
      <4> QED
        BY <3>4, <4>1, <4>2 DEF Enters, AccountInv, PatchTypes
    <3>6. PatchTypes'
      BY <1>2, <2>1, <3>5 DEF AccountInv, PatchTypes
    <3>7. ASSUME NEW y \in Actors \ {a}
          PROVE  /\ y \in Agents => execution'[y].pc = execution[y].pc
                 /\ y \in Clients => request'[y] = request[y]
      BY <1>4, <2>1
    <3>8. ~Writing(a)
      BY <1>6, <2>1
    <3> HIDE DEF p
    <3> QED
      BY <1>5, <2>1, <3>1, <3>2, <3>3, <3>4, <3>6, <3>7, <3>8, AccountEnters
  <2>4. \/ UNCHANGED <<writer, contended>>
        \/ \E frame \in {Applying(execution[a].patch), RollingBack(execution[a].patch)} :
               \E label \in {"apply", "reject"} :
                 /\ execution[a].patch # 0
                 /\ Enters(a, frame)
                 /\ Records(a, [execution[a] EXCEPT !.pc = label])
    BY <1>c DEF JudgeAttempt
  <2> QED
    BY <2>2, <2>3, <2>4
<1>d. CASE EndAttempt(a)
  <2>1. ~Writing(a)
    BY <1>6, <1>d DEF EndAttempt, ExecutesAt, Writing
  <2>2. /\ writer' = [writer EXCEPT ![a] = NoWriter]
        /\ UNCHANGED <<workspace, patches, request, contended, leftover, died>>
    BY <1>d DEF EndAttempt
  <2>3. \E T : request' \in [Clients -> T]
    BY <2>2 DEF AccountInv, PatchTypes
  <2>4. ASSUME NEW y \in Actors \ {a}
        PROVE  /\ y \in Agents => execution'[y].pc = execution[y].pc
               /\ y \in Clients => request'[y] = request[y]
    BY <1>4, <2>2
  <2> QED
    BY <1>2, <1>5, <2>1, <2>2, <2>3, <2>4, AccountLeaves
<1>e. ASSUME NEW edits \in Proposals, Edit(a, edits) PROVE AccountInv'
  <2>1. /\ UNCHANGED <<workspace, writer, request, contended, leftover, died>> /\ Preview(edits)
        /\ execution[a].pc = "edit"
    BY <1>e DEF Edit, ExecutesAt
  <2>2. /\ patches' \in Seq(PatchRow)
        /\ \A p \in DOMAIN patches' : DOMAIN patches'[p].backup = DOMAIN patches'[p].edits
    BY <2>1, PreviewRows DEF AccountInv
  <2>3. PatchTypes'
    BY <1>2, <2>1, <2>2 DEF AccountInv, PatchTypes
  <2>4. ASSUME NEW y \in Actors, Writing(y)
        PROVE  /\ y \in Agents => execution'[y].pc = execution[y].pc
               /\ y \in Clients => request'[y] = request[y]
    BY <1>4, <1>6, <2>1, <2>4
  <2> QED
    BY <2>1, <2>3, <2>4, AccountPreviews
<1> QED
  BY <1>a, <1>b, <1>c, <1>d, <1>e DEF AgentStep

-----------------------------------------------------------------------------
\* The steps of a client.
ClientStep(c) ==
  \/ VerifyPatch(c) \/ Answer(c)
  \/ \E edits \in Proposals : AskPreview(c, edits) \/ AskVerify(c, edits)
  \/ \E p \in DOMAIN patches : AskApply(c, p) \/ AskRollback(c, p)

\* A request begins to apply or to roll back.
LEMMA ClientEnters ==
  ASSUME AccountInv, NEW c \in Clients, ~Writing(c), NEW p \in DOMAIN patches,
         NEW frame \in {Applying(p), RollingBack(p)}, Enters(c, frame),
         request' = [request EXCEPT ![c] = "answer"],
         UNCHANGED <<workspace, patches, execution, leftover, died>>
  PROVE  AccountInv'
<1>1. c \in Actors /\ c \notin Agents
  BY PatchesAssumption DEF Actors
<1>2. PICK S : request \in [Clients -> S]
  BY DEF AccountInv, PatchTypes
<1>3. /\ request' \in [Clients -> S \union {"answer"}] /\ request'[c] = "answer"
      /\ \A y \in Clients \ {c} : request'[y] = request[y]
  BY <1>2
<1>4. frame \in WriterFrame
  BY FrameEntered DEF AccountInv
<1>5. writer' \in [Actors -> WriterFrame]
  BY <1>1, <1>4, WriterSet DEF AccountInv, Enters
<1>6. contended' \subseteq Nat
  <2>1. frame.patch \in Nat
    BY <1>4 DEF WriterFrame
  <2> QED
    BY <2>1 DEF Enters, AccountInv, PatchTypes
<1>7. PatchTypes'
  BY <1>3, <1>5, <1>6 DEF AccountInv, PatchTypes
<1>8. ASSUME NEW y \in Actors \ {c}
      PROVE  /\ y \in Agents => execution'[y].pc = execution[y].pc
             /\ y \in Clients => request'[y] = request[y]
  BY <1>3
<1> QED
  BY <1>1, <1>3, <1>7, <1>8, AccountEnters

LEMMA AccountClient ==
  ASSUME AccountInv, NamesARow, NEW c \in Clients, ClientStep(c)
  PROVE  AccountInv' /\ RowsKept /\ UNCHANGED execution
<1>1. c \in Actors /\ c \notin Agents
  BY PatchesAssumption DEF Actors
<1>2. request[c] = "idle" => ~Writing(c)
  BY <1>1 DEF AccountInv, WritersKnow
<1>a. CASE VerifyPatch(c)
  <2>1. /\ ~Writing(c) /\ writer[c].doing = "returned" /\ request' = [request EXCEPT ![c] = "answer"]
        /\ Enters(c, RollingBack(writer[c].patch))
        /\ UNCHANGED <<workspace, patches, execution, leftover, died>>
    BY <1>a DEF VerifyPatch, Writing
  <2>2. writer[c].patch \in DOMAIN patches
    BY <1>1, <1>a DEF NamesARow, VerifyPatch
  <2> QED
    BY <2>1, <2>2, ClientEnters, RowsSame
<1>b. CASE Answer(c)
  <2>1. ~Writing(c)
    BY <1>b DEF Answer, Writing
  <2>2. PICK S : request \in [Clients -> S]
    BY DEF AccountInv, PatchTypes
  <2>3. /\ request' \in [Clients -> S \union {"idle"}]
        /\ \A y \in Clients \ {c} : request'[y] = request[y]
    BY <1>b, <2>2 DEF Answer
  <2>4. /\ writer' = [writer EXCEPT ![c] = NoWriter]
        /\ UNCHANGED <<workspace, patches, execution, contended, leftover, died>>
    BY <1>b DEF Answer
  <2>5. /\ \E T : execution' \in [Agents -> T]
        /\ \A b \in Agents : DOMAIN execution'[b] = ExecutionFields
    BY <2>4 DEF AccountInv, PatchTypes
  <2>6. ASSUME NEW y \in Actors \ {c}
        PROVE  /\ y \in Agents => execution'[y].pc = execution[y].pc
               /\ y \in Clients => request'[y] = request[y]
    BY <2>3, <2>4
  <2> QED
    BY <1>1, <2>1, <2>3, <2>4, <2>5, <2>6, AccountLeaves, RowsSame
<1>c. ASSUME NEW edits \in Proposals, AskPreview(c, edits)
      PROVE  AccountInv' /\ RowsKept /\ UNCHANGED execution
  <2>1. Preview(edits) /\ UNCHANGED <<workspace, writer, execution, request, contended, leftover, died>>
    BY <1>c DEF AskPreview
  <2>2. /\ patches' \in Seq(PatchRow) /\ RowsKept
        /\ \A p \in DOMAIN patches' : DOMAIN patches'[p].backup = DOMAIN patches'[p].edits
    BY <2>1, PreviewRows DEF AccountInv
  <2>3. PatchTypes'
    BY <2>1, <2>2 DEF AccountInv, PatchTypes
  <2> QED
    BY <2>1, <2>2, <2>3, AccountPreviews
<1>d. ASSUME NEW edits \in Proposals, AskVerify(c, edits)
      PROVE  AccountInv' /\ RowsKept /\ UNCHANGED execution
  <2>1. RowsKept /\ UNCHANGED execution
    BY <1>d, PreviewRows DEF AskVerify, AccountInv
  <2> QED
    BY <1>d, <2>1, AccountVerifies
<1>e. ASSUME NEW p \in DOMAIN patches, AskApply(c, p) \/ AskRollback(c, p)
      PROVE  AccountInv' /\ RowsKept /\ UNCHANGED execution
  <2>1. /\ request[c] = "idle" /\ request' = [request EXCEPT ![c] = "answer"]
        /\ UNCHANGED <<workspace, patches, execution, leftover, died>>
    BY <1>e DEF AskApply, AskRollback
  <2>2. PICK frame \in {Applying(p), RollingBack(p)} : Enters(c, frame)
    BY <1>e DEF AskApply, AskRollback
  <2> QED
    BY <1>2, <2>1, <2>2, ClientEnters, RowsSame
<1> QED
  BY <1>a, <1>b, <1>c, <1>d, <1>e DEF ClientStep

\* A death: what its patch wrote is not accounted for any more.
LEMMA AccountDies ==
  ASSUME AccountInv, StagedInv, NEW x \in Actors, ActorDies(x)
  PROVE  AccountInv' /\ \A a \in Agents : Staged(execution'[a], patches')
<1>1. UNCHANGED <<workspace, patches, contended, leftover>> /\ died'
  BY DEF ActorDies
<1>2. NoWriter \in WriterFrame /\ NoWriter.doing = "nothing"
  BY DEF NoWriter, WriterFrame
<1>3. writer' = [writer EXCEPT ![x] = NoWriter]
  BY DEF ActorDies
<1>4. /\ writer' \in [Actors -> WriterFrame] /\ writer'[x] = NoWriter
      /\ \A y \in Actors \ {x} : writer'[y] = writer[y]
  BY <1>2, <1>3, WriterSet DEF AccountInv
<1> DEFINE dead == [NoExecution EXCEPT !.attempt = MaxRevisions + 1]
<1>5. Staged(dead, patches) /\ DOMAIN dead = ExecutionFields
  BY FreshExecution
<1> HIDE DEF dead
<1>6. PICK S : execution \in [Agents -> S]
  BY DEF AccountInv, PatchTypes
<1>7. PICK T : request \in [Clients -> T]
  BY DEF AccountInv, PatchTypes
<1>8. /\ execution' \in [Agents -> S \union {dead}]
      /\ \A a \in Agents : execution'[a] \in {execution[a], dead}
      /\ \A a \in Agents : a # x => execution'[a] = execution[a]
  <2>1. CASE x \in Agents
    <3>1. execution' = [execution EXCEPT ![x] = dead]
      BY <2>1 DEF ActorDies, dead
    <3> QED
      BY <1>6, <3>1
  <2>2. CASE x \notin Agents
    <3>1. execution' = execution
      BY <2>2 DEF ActorDies
    <3> QED
      BY <1>6, <3>1
  <2> QED
    BY <2>1, <2>2
<1>9. /\ request' \in [Clients -> T \union {"idle"}]
      /\ \A c \in Clients : c # x => request'[c] = request[c]
  <2>1. CASE x \in Clients
    <3>1. request' = [request EXCEPT ![x] = "idle"]
      BY <2>1 DEF ActorDies
    <3> QED
      BY <1>7, <3>1
  <2>2. CASE x \notin Clients
    <3>1. request' = request
      BY <2>2 DEF ActorDies
    <3> QED
      BY <1>7, <3>1
  <2> QED
    BY <2>1, <2>2
<1>10. \A a \in Agents : DOMAIN execution'[a] = ExecutionFields /\ Staged(execution'[a], patches')
  <2>1. \A a \in Agents : DOMAIN execution[a] = ExecutionFields /\ Staged(execution[a], patches)
    BY DEF StagedInv, PatchTypes
  <2> QED
    BY <1>1, <1>5, <1>8, <2>1
<1>11. PatchTypes'
  BY <1>1, <1>4, <1>8, <1>9, <1>10 DEF AccountInv, PatchTypes
<1>12. WritersKnow'
  BY <1>1, <1>2, <1>4, <1>8, <1>9 DEF AccountInv, WritersKnow, Writing
<1>13. AuthorsKnown'
  BY <1>1, RowsSame, AuthorsKept DEF AccountInv
<1> QED
  BY <1>1, <1>10, <1>11, <1>12, <1>13 DEF AccountInv

-----------------------------------------------------------------------------
LEMMA NamesKept ==
  ASSUME NamesARow, PatchTypes, RowsKept, UNCHANGED writer
  PROVE  NamesARow'
BY DEF NamesARow, RowsKept

LEMMA NamesSet ==
  ASSUME NamesARow, PatchTypes, RowsKept, NEW x \in Actors, NEW frame \in WriterFrame,
         writer' = [writer EXCEPT ![x] = frame],
         frame.doing = "nothing" \/ frame.patch \in DOMAIN patches'
  PROVE  NamesARow'
<1>1. writer'[x] = frame /\ \A y \in Actors \ {x} : writer'[y] = writer[y]
  BY WriterSet
<1> QED
  BY <1>1 DEF NamesARow, RowsKept

LEMMA NamesStep ==
  ASSUME NamesARow, AccountInv, StagedInv, PatchesNext
  PROVE  NamesARow'
<1>1. PatchTypes /\ \A x \in Actors : writer[x] \in WriterFrame
  BY DEF AccountInv, PatchTypes
<1>2. NoWriter \in WriterFrame /\ NoWriter.doing = "nothing"
  BY DEF NoWriter, WriterFrame
<1>3. Agents \subseteq Actors /\ Clients \subseteq Actors
  BY DEF Actors
<1>4. ASSUME NEW x \in Actors, patches' = patches, writer' = [writer EXCEPT ![x] = NoWriter]
      PROVE  NamesARow'
  BY <1>1, <1>2, <1>4, NamesSet, RowsSame
<1>5. ASSUME NEW x \in Actors, patches' = patches, NEW p \in DOMAIN patches,
             NEW frame \in {Applying(p), RollingBack(p)}, Enters(x, frame)
      PROVE  NamesARow'
  <2>1. frame \in WriterFrame /\ frame.patch = p
    BY <1>1, FrameEntered
  <2> QED
    BY <1>1, <1>5, <2>1, NamesSet, RowsSame DEF Enters
<1>a. ASSUME NEW x \in Actors,
             \/ \E f \in Files : WriteFile(x, f) \/ RestoreFile(x, f)
             \/ WriteFails(x) \/ RestoreFails(x) \/ StatusFails(x)
      PROVE  NamesARow'
  <2>1. patches' = patches /\ writer[x].patch \in DOMAIN patches
    BY <1>a DEF WriteFile, RestoreFile, WriteFails, RestoreFails, StatusFails, NamesARow
  <2>2. \E frame \in WriterFrame : writer' = [writer EXCEPT ![x] = frame] /\ frame.patch = writer[x].patch
    <3>1. ASSUME NEW f \in Files, WriteFile(x, f)
          PROVE  \E frame \in WriterFrame :
                   writer' = [writer EXCEPT ![x] = frame] /\ frame.patch = writer[x].patch
      <4> DEFINE frame == [writer[x] EXCEPT !.todo = @ \ {f}, !.written = @ \union {f}]
      <4>1. writer' = [writer EXCEPT ![x] = frame]
        BY <3>1 DEF WriteFile
      <4>2. frame \in WriterFrame /\ frame.patch = writer[x].patch
        BY <1>1 DEF WriterFrame
      <4> HIDE DEF frame
      <4> QED
        BY <4>1, <4>2
    <3>2. ASSUME NEW f \in Files, RestoreFile(x, f)
          PROVE  \E frame \in WriterFrame :
                   writer' = [writer EXCEPT ![x] = frame] /\ frame.patch = writer[x].patch
      <4> DEFINE frame == [writer[x] EXCEPT !.todo = @ \ {f}]
      <4>1. writer' = [writer EXCEPT ![x] = frame]
        BY <3>2 DEF RestoreFile
      <4>2. frame \in WriterFrame /\ frame.patch = writer[x].patch
        BY <1>1 DEF WriterFrame
      <4> HIDE DEF frame
      <4> QED
        BY <4>1, <4>2
    <3>3. CASE WriteFails(x)
      <4> DEFINE frame == [writer[x] EXCEPT !.doing = "undo", !.todo = ToUndo(writer[x])]
      <4>1. writer' = [writer EXCEPT ![x] = frame]
        BY <3>3 DEF WriteFails
      <4>2. frame \in WriterFrame /\ frame.patch = writer[x].patch
        BY <1>1 DEF WriterFrame, ToUndo
      <4> HIDE DEF frame
      <4> QED
        BY <4>1, <4>2
    <3>4. CASE RestoreFails(x) \/ StatusFails(x)
      <4> DEFINE frame == Ended(writer[x].patch, "raised")
      <4>1. writer' = [writer EXCEPT ![x] = frame]
        BY <3>4 DEF RestoreFails, StatusFails
      <4>2. frame \in WriterFrame /\ frame.patch = writer[x].patch
        BY <1>1 DEF WriterFrame, Ended, NoWriter
      <4> HIDE DEF frame
      <4> QED
        BY <4>1, <4>2
    <3> QED
      BY <1>a, <3>1, <3>2, <3>3, <3>4
  <2> QED
    BY <1>1, <2>1, <2>2, NamesSet, RowsSame
<1>b. ASSUME NEW x \in Actors, EndWrite(x) PROVE NamesARow'
  <2> DEFINE how == IF writer[x].doing = "undo" THEN "raised" ELSE "returned"
             frame == Ended(writer[x].patch, how)
  <2>1. RowsKept
    BY <1>b, AccountEndWrite
  <2>2. writer[x].patch \in DOMAIN patches
    BY <1>b DEF NamesARow, EndWrite, Writing
  <2>3. writer' = [writer EXCEPT ![x] = frame]
    BY <1>b DEF EndWrite
  <2>4. frame \in WriterFrame /\ frame.patch = writer[x].patch
    BY <1>1 DEF Ended, NoWriter, WriterFrame
  <2> HIDE DEF frame
  <2> QED
    BY <1>1, <2>1, <2>2, <2>3, <2>4, NamesSet DEF RowsKept
<1>c. ASSUME NEW x \in Actors, ActorDies(x) PROVE NamesARow'
  BY <1>4, <1>c DEF ActorDies
<1>d. ASSUME NEW a \in Agents, AgentStep(a) PROVE NamesARow'
  <2>1. RowsKept
    BY <1>d, AgentStages
  <2>2. CASE UNCHANGED writer
    BY <1>1, <2>1, <2>2, NamesKept
  <2>3. CASE EndAttempt(a)
    BY <1>3, <1>4, <2>3 DEF EndAttempt
  <2>4. CASE JudgeAttempt(a)
    <3>1. patches' = patches
      BY <2>4 DEF JudgeAttempt
    <3>2. execution[a].patch # 0 => execution[a].patch \in DOMAIN patches
      BY DEF StagedInv, Staged
    <3>3. \/ UNCHANGED writer
          \/ /\ execution[a].patch # 0
             /\ \E frame \in {Applying(execution[a].patch), RollingBack(execution[a].patch)} :
                  Enters(a, frame)
      BY <2>4 DEF JudgeAttempt
    <3> QED
      BY <1>3, <1>5, <2>2, <3>1, <3>2, <3>3
  <2> QED
    BY <1>d, <2>2, <2>3, <2>4
    DEF AgentStep, BeginAttempt, StageEdit, EditFails, LateStageEdit, Test, Edit
<1>e. ASSUME NEW c \in Clients, ClientStep(c) PROVE NamesARow'
  <2>1. RowsKept
    BY <1>e, AccountClient
  <2>2. CASE VerifyPatch(c)
    <3>1. writer[c].patch \in DOMAIN patches /\ patches' = patches
      BY <1>3, <2>2 DEF VerifyPatch, NamesARow
    <3> QED
      BY <1>3, <1>5, <2>2, <3>1 DEF VerifyPatch
  <2>3. CASE Answer(c)
    BY <1>3, <1>4, <2>3 DEF Answer
  <2>4. CASE \E edits \in Proposals : AskPreview(c, edits)
    BY <1>1, <2>1, <2>4, NamesKept DEF AskPreview
  <2>5. ASSUME NEW edits \in Proposals, AskVerify(c, edits) PROVE NamesARow'
    <3> DEFINE frame == [doing |-> "apply", patch |-> Len(patches) + 1, todo |-> DOMAIN edits,
                         written |-> {}]
    <3>1. Len(patches) \in Nat /\ Len(patches) + 1 \in DOMAIN patches'
      <4>1. PatchTypes /\ Preview(edits)
        BY <1>1, <2>5 DEF AskVerify
      <4>2. Len(patches) \in Nat /\ DOMAIN patches' = 1 .. (Len(patches) + 1)
        BY <4>1, PreviewRows
      <4> QED
        BY <4>2
    <3>2. frame \in WriterFrame /\ frame.patch = Len(patches) + 1
      BY <3>1, PatchesAssumption DEF WriterFrame
    <3>3. writer' = [writer EXCEPT ![c] = frame]
      BY <2>5 DEF AskVerify
    <3> HIDE DEF frame
    <3> QED
      BY <1>1, <1>3, <2>1, <3>1, <3>2, <3>3, NamesSet
  <2>6. ASSUME NEW p \in DOMAIN patches, AskApply(c, p) \/ AskRollback(c, p) PROVE NamesARow'
    BY <1>3, <1>5, <2>6 DEF AskApply, AskRollback
  <2> QED
    BY <1>e, <2>2, <2>3, <2>4, <2>5, <2>6 DEF ClientStep
<1> QED
  BY <1>a, <1>b, <1>c, <1>d, <1>e DEF PatchesNext, AgentStep, ClientStep

LEMMA PatchesStart == PatchesInit => AccountInv /\ StagedInv /\ NamesARow
<1> SUFFICES ASSUME PatchesInit PROVE AccountInv /\ StagedInv /\ NamesARow
  OBVIOUS
<1>1. NoWriter \in WriterFrame /\ NoWriter.doing = "nothing"
  BY DEF NoWriter, WriterFrame
<1>2. \A n \in {0, 1} : Original(n) \in FileRow /\ Original(n).author = 0
  BY DEF Original, FileRow
<1>3. workspace \in [Files -> FileRow] /\ \A f \in Files : workspace[f].author = 0
  BY <1>2 DEF PatchesInit, Missing
<1>4. patches = << >> /\ DOMAIN patches = {} /\ patches \in Seq(PatchRow)
  BY DEF PatchesInit
<1>5. writer \in [Actors -> WriterFrame] /\ \A x \in Actors : ~Writing(x)
  BY <1>1 DEF PatchesInit, Writing
<1>6. /\ \E S : execution \in [Agents -> S] /\ \A a \in Agents : execution[a] = NoExecution
  BY DEF PatchesInit
<1>7. execution \in [Agents -> {NoExecution}] /\ request \in [Clients -> {"idle"}]
  BY DEF PatchesInit
<1>8. PatchTypes
  BY <1>3, <1>4, <1>5, <1>6, <1>7, FreshExecution DEF PatchTypes, PatchesInit
<1>9. StagedInv
  BY <1>6, <1>8, FreshExecution DEF StagedInv
<1>10. WritersKnow /\ AuthorsKnown
  BY <1>3, <1>4, <1>5 DEF WritersKnow, AuthorsKnown, Known
<1>11. NamesARow
  BY <1>1 DEF PatchesInit, NamesARow
<1> QED
  BY <1>4, <1>8, <1>9, <1>10, <1>11 DEF AccountInv

LEMMA PatchesStep ==
  AccountInv /\ StagedInv /\ NamesARow /\ [PatchesNext]_patchesVars
    => AccountInv' /\ StagedInv' /\ NamesARow'
<1> SUFFICES ASSUME AccountInv, StagedInv, NamesARow, [PatchesNext]_patchesVars
             PROVE  AccountInv' /\ StagedInv' /\ NamesARow'
  OBVIOUS
<1>9. NamesARow'
  <2>1. CASE UNCHANGED patchesVars
    BY <2>1 DEF patchesVars, NamesARow
  <2> QED
    BY <2>1, NamesStep
<1>1. ASSUME RowsKept, UNCHANGED execution
      PROVE  \A a \in Agents : Staged(execution'[a], patches')
  BY <1>1, StagedKept DEF StagedInv
<1>2. AccountInv' /\ (\A a \in Agents : Staged(execution'[a], patches')) => AccountInv' /\ StagedInv'
  BY DEF AccountInv, StagedInv
<1>3. CASE UNCHANGED patchesVars
  <2>1. AccountInv'
    <3>1. UNCHANGED <<workspace, patches, writer, execution, request, contended, leftover, died>>
      BY <1>3 DEF patchesVars
    <3>2. PatchTypes'
      BY <3>1 DEF AccountInv, PatchTypes
    <3> QED
      BY <3>1, <3>2, AccountSame DEF Writing
  <2> QED
    BY <1>1, <1>2, <1>3, <1>9, <2>1, RowsSame DEF patchesVars
<1>4. ASSUME NEW x \in Actors,
             \/ \E f \in Files : WriteFile(x, f) \/ RestoreFile(x, f)
             \/ WriteFails(x) \/ RestoreFails(x) \/ StatusFails(x)
      PROVE  AccountInv' /\ StagedInv'
  <2>1. AccountInv'
    BY <1>4, AccountWriteSteps, AccountFailures
  <2>2. UNCHANGED <<patches, execution>>
    BY <1>4 DEF WriteFile, RestoreFile, WriteFails, RestoreFails, StatusFails
  <2> QED
    BY <1>1, <1>2, <2>1, <2>2, RowsSame
<1>5. ASSUME NEW x \in Actors, EndWrite(x) PROVE AccountInv' /\ StagedInv'
  <2>1. AccountInv' /\ RowsKept /\ UNCHANGED execution
    BY <1>5, AccountEndWrite DEF EndWrite
  <2> QED
    BY <1>1, <1>2, <2>1
<1>6. ASSUME NEW x \in Actors, ActorDies(x) PROVE AccountInv' /\ StagedInv'
  BY <1>2, <1>6, AccountDies
<1>7. ASSUME NEW a \in Agents, AgentStep(a) PROVE AccountInv' /\ StagedInv'
  <2>1. AccountInv'
    BY <1>7, AccountAgent
  <2>2. \A b \in Agents : Staged(execution'[b], patches')
    BY <1>7, AgentStages, AgentStaged
  <2> QED
    BY <1>2, <2>1, <2>2
<1>8. ASSUME NEW c \in Clients, ClientStep(c) PROVE AccountInv' /\ StagedInv'
  <2>1. AccountInv' /\ RowsKept /\ UNCHANGED execution
    BY <1>8, AccountClient
  <2> QED
    BY <1>1, <1>2, <2>1
<1> QED
  BY <1>3, <1>4, <1>5, <1>6, <1>7, <1>8, <1>9 DEF PatchesNext, AgentStep, ClientStep

LEMMA PatchesInvHold == PatchesSpec => [](AccountInv /\ StagedInv /\ NamesARow)
BY PatchesStart, PatchesStep, PTL DEF PatchesSpec

\* What an accepted attempt applies is what its tests saw, whatever its
\* earlier attempts and their late threads did.  (AgentExecutionService.)
THEOREM AppliesWhatItTested == PatchesSpec => []TestedIsApplied
<1>1. StagedInv => TestedIsApplied
  BY DEF StagedInv, Staged, TestedIsApplied, ExecutesAt
<1> QED
  BY <1>1, PatchesInvHold, PTL

\* A file holds what a patch wrote only while the patch is recorded as
\* applied, but for contended patches, what failures left behind or another
\* patch's restore brought back, and dead processes: whatever applies,
\* rollbacks, retries and failures of whichever actors.  (PatchService.)
THEOREM FilesTellPatches == PatchesSpec => []FilesMatchPatches
<1>1. AccountInv => FilesMatchPatches
  <2> SUFFICES ASSUME AccountInv, \A x \in Actors : ~Writing(x), ~died, NEW f \in Files,
                      workspace[f].author # 0, workspace[f].author \notin contended,
                      <<f, workspace[f].author>> \notin leftover
               PROVE  patches[workspace[f].author].status = "applied"
    BY DEF FilesMatchPatches
  <2>1. workspace[f].author \in DOMAIN patches
    BY DEF AccountInv, AuthorsKnown, Known
  <2>2. Accounted(workspace[f].author)
    BY <2>1 DEF AccountInv
  <2>3. WrittenBy(workspace[f].author) # {}
    BY DEF WrittenBy
  <2> QED
    BY <2>2, <2>3 DEF Accounted, Handles
<1> QED
  BY <1>1, PatchesInvHold, PTL
=============================================================================
