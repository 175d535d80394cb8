---------------------------- MODULE AgentPatches ----------------------------
(***************************************************************************)
(* The files of a project and the patches that change them: the patch      *)
(* service (patches/service.py), the coding-agent executions that stage,   *)
(* test and apply one (AgentExecutionService and ProductionRoleWorkers in  *)
(* runtime/execution.py) and the gateway's patch endpoints.                *)
(*                                                                         *)
(* An execution runs in a thread of its own process and so does a request: *)
(* a step is one write of a file or one transaction of the patch table.    *)
(* The task graph an attempt runs on is module TaskStore's; here it is the *)
(* order edit, test, verify, the retry of a failed task, and the end of    *)
(* the graph when its last attempt failed.  What a model answers, whether  *)
(* tests pass and what reviewers and scanners find are choices.            *)
(***************************************************************************)
EXTENDS Naturals, Sequences, TLC

CONSTANTS
  Files, Existing, \* paths of the project and those that exist at first
  Proposals,      \* what a model may propose: functions of some paths
  Agents,         \* executions of POST /v1/agent/execute or the CLI
  Clients,        \* requests of the patch endpoints, served at a time
  MaxPatches,     \* bound: rows of the patch table
  MaxRevisions,   \* max_revisions: attempts of an execution, less one
  MaxPatchFaults  \* bound: failed writes, tasks and dead processes

ASSUME PatchesAssumption ==
  /\ \A edits \in Proposals :
       DOMAIN edits \subseteq Files /\ \A f \in DOMAIN edits : edits[f] \in Nat \ {0}
  /\ Agents \cap Clients = {}
  /\ MaxPatches \in Nat /\ MaxRevisions \in Nat /\ MaxPatchFaults \in Nat

VARIABLES
  workspace,    \* the content of each file and the patch whose content it is
  patches,      \* the patch table, by the order of its rows
  writer,       \* the apply or rollback each actor is in
  execution,    \* the state of each agent's attempt
  request,      \* what each client waits for
  contended,    \* history: patches that two actors handled at once
  leftover,     \* history: the files in which a failure left what a patch
                \* wrote, or to which another patch's restore brought it back
  patchFaults, died

patchesVars ==
  <<workspace, patches, writer, execution, request, contended, leftover, patchFaults, died>>

Actors == Agents \union Clients
Missing == 0     \* the content of a file that does not exist

\* A file that holds what no patch wrote has no author.
Original(content) == [content |-> content, author |-> 0]
ContentOf(files) == [f \in Files |-> files[f].content]

NoWriter == [doing |-> "nothing", patch |-> 0, todo |-> {}, written |-> {}]
NoExecution ==
  [pc |-> "idle", attempt |-> 0, base |-> << >>, stage |-> << >>, late |-> {},
   tries |-> 0, coded |-> 0, edits |-> << >>, patch |-> 0,
   tested |-> << >>, accepted |-> FALSE]

PatchesInit ==
  /\ workspace = [f \in Files |-> Original(IF f \in Existing THEN 1 ELSE Missing)]
  /\ patches = << >>
  /\ writer = [x \in Actors |-> NoWriter]
  /\ execution = [a \in Agents |-> NoExecution]
  /\ request = [c \in Clients |-> "idle"]
  /\ contended = {}
  /\ leftover = {}
  /\ patchFaults = 0
  /\ died = FALSE

Fault == patchFaults < MaxPatchFaults /\ patchFaults' = patchFaults + 1
-----------------------------------------------------------------------------
(* PatchService. *)

\* preview: what the files hold now is kept as the backup, also what another
\* patch wrote.
Preview(edits) ==
  /\ Len(patches) < MaxPatches
  /\ patches' = Append(patches,
       [status |-> "preview", edits |-> edits,
        backup |-> [f \in DOMAIN edits |-> workspace[f]]])

\* apply and rollback read the row first.  What is done to the files and to
\* the row afterwards goes by that status.
Ended(p, how) == [NoWriter EXCEPT !.doing = how, !.patch = p]
Writing(x) == writer[x].doing \in {"apply", "undo", "rollback"}

Applying(p) ==
  CASE patches[p].status = "preview" ->
         [doing |-> "apply", patch |-> p, todo |-> DOMAIN patches[p].edits, written |-> {}]
    [] patches[p].status = "applied" -> Ended(p, "returned")
    [] OTHER -> Ended(p, "raised")

RollingBack(p) ==
  CASE patches[p].status = "applied" ->
         [doing |-> "rollback", patch |-> p, todo |-> DOMAIN patches[p].backup, written |-> {}]
    [] patches[p].status = "preview" ->
         [doing |-> "rollback", patch |-> p, todo |-> {}, written |-> {}]
    [] OTHER -> Ended(p, "returned")

Enters(x, frame) ==
  /\ writer' = [writer EXCEPT ![x] = frame]
  /\ contended' = contended \union
       {p \in {frame.patch} : \E y \in Actors \ {x} : Writing(y) /\ writer[y].patch = p}

\* The files that are restored when a write fails.
\* Mutant: only the files that are still to be written are.
ToUndoTheRest(frame) == frame.todo
ToUndo(frame) == frame.written

\* _atomic_write of a patch's content; the restore of some of its files, by
\* the same _atomic_write or by an unlink.
Put(p, f) ==
  workspace' = [workspace EXCEPT ![f] = [content |-> patches[p].edits[f], author |-> p]]
Restore(p, files) ==
  workspace' = [f \in Files |-> IF f \in files THEN patches[p].backup[f] ELSE workspace[f]]
BroughtBack(p, files) ==
  {<<f, patches[p].backup[f].author>> : f \in files} \ (Files \X {0})

WriteFile(x, f) ==
  /\ writer[x].doing = "apply" /\ f \in writer[x].todo
  /\ Put(writer[x].patch, f)
  /\ writer' = [writer EXCEPT ![x].todo = @ \ {f}, ![x].written = @ \union {f}]
  /\ UNCHANGED <<patches, execution, request, contended, leftover, patchFaults, died>>

RestoreFile(x, f) ==
  /\ writer[x].doing \in {"undo", "rollback"} /\ f \in writer[x].todo
  /\ Restore(writer[x].patch, {f})
  /\ leftover' = leftover \union BroughtBack(writer[x].patch, {f})
  /\ writer' = [writer EXCEPT ![x].todo = @ \ {f}]
  /\ UNCHANGED <<patches, execution, request, contended, patchFaults, died>>

\* A write of apply fails, before its rename or in the fsync after it: the
\* files that were written, this one not among them, are restored.
WriteFails(x) ==
  /\ writer[x].doing = "apply" /\ writer[x].todo # {}
  /\ Fault
  /\ \/ UNCHANGED <<workspace, leftover>>
     \/ \E f \in writer[x].todo :
          /\ Put(writer[x].patch, f)
          /\ leftover' = leftover \union {<<f, writer[x].patch>>}
  /\ writer' = [writer EXCEPT ![x].doing = "undo", ![x].todo = ToUndo(writer[x])]
  /\ UNCHANGED <<patches, execution, request, contended, died>>

\* So may a restore, of an undo or of a rollback, which raises: the files that
\* are left stay as they are and so does the row.
RestoreFails(x) ==
  /\ writer[x].doing \in {"undo", "rollback"}
  /\ Fault
  /\ \E files \in {{}} \union {{f} : f \in writer[x].todo} :
       LET p == writer[x].patch
           kept == IF writer[x].doing = "undo" THEN writer[x].todo \ files ELSE {} IN
       /\ writer[x].todo # {}
       /\ Restore(p, files)
       /\ leftover' = leftover \union BroughtBack(p, files) \union (kept \X {p})
  /\ writer' = [writer EXCEPT ![x] = Ended(@.patch, "raised")]
  /\ UNCHANGED <<patches, execution, request, contended, died>>

\* update_patch_status, whatever the status has become.
EndWrite(x) ==
  /\ Writing(x) /\ writer[x].todo = {}
  /\ LET p == writer[x].patch IN
     patches' = CASE writer[x].doing = "apply"    -> [patches EXCEPT ![p].status = "applied"]
                  [] writer[x].doing = "rollback" -> [patches EXCEPT ![p].status = "rolled_back"]
                  [] OTHER                        -> patches
  /\ writer' = [writer EXCEPT ![x] =
       Ended(@.patch, IF @.doing = "undo" THEN "raised" ELSE "returned")]
  /\ UNCHANGED <<workspace, execution, request, contended, leftover, patchFaults, died>>

\* It raises, after the try of apply: nothing is undone.
StatusFails(x) ==
  /\ writer[x].doing \in {"apply", "rollback"} /\ writer[x].todo = {}
  /\ Fault
  /\ leftover' = IF writer[x].doing = "rollback" THEN leftover
                  ELSE leftover \union (writer[x].written \X {writer[x].patch})
  /\ writer' = [writer EXCEPT ![x] = Ended(@.patch, "raised")]
  /\ UNCHANGED <<workspace, patches, execution, request, contended, died>>
-----------------------------------------------------------------------------
(* AgentExecutionService.execute. *)

ExecutesAt(a, label) == execution[a].pc = label
Records(a, frame) == execution' = [execution EXCEPT ![a] = frame]

\* stage_repository_copy.
BeginAttempt(a) ==
  /\ ExecutesAt(a, "idle")
  /\ execution[a].attempt <= MaxRevisions
  /\ Records(a, [NoExecution EXCEPT !.pc = "edit", !.attempt = execution[a].attempt + 1,
                   !.base = ContentOf(workspace), !.stage = ContentOf(workspace)])
  /\ UNCHANGED <<workspace, patches, writer, request, contended, leftover, patchFaults, died>>

\* edit: the proposal is previewed on the project, then applied to the stage.
Edit(a, edits) ==
  /\ ExecutesAt(a, "edit")
  /\ Preview(edits)
  /\ Records(a, [execution[a] EXCEPT !.pc = "stage", !.coded = @ + 1, !.edits = edits,
                   !.patch = Len(patches) + 1])
  /\ UNCHANGED <<workspace, writer, request, contended, leftover, patchFaults, died>>

StageEdit(a) ==
  /\ ExecutesAt(a, "stage")
  /\ Records(a, [execution[a] EXCEPT !.pc = "test", !.stage = execution[a].edits @@ @])
  /\ UNCHANGED <<workspace, patches, writer, request, contended, leftover, patchFaults, died>>

\* The task fails or times out, before its writes or while it indexes the
\* stage; it has two attempts.  The thread that a timed out edit left behind
\* writes the stage later.
EditFails(a) ==
  /\ execution[a].pc \in {"edit", "stage", "test"}
  /\ Fault
  /\ \E late \in {{}, IF ExecutesAt(a, "stage") THEN {execution[a].edits} ELSE {}} :
       Records(a, [execution[a] EXCEPT !.tries = @ + 1, !.late = @ \union late,
                     !.pc = IF execution[a].tries = 0 THEN "edit" ELSE "judge"])
  /\ UNCHANGED <<workspace, patches, writer, request, contended, leftover, died>>

LateStageEdit(a) ==
  \E late \in execution[a].late :
    /\ Records(a, [execution[a] EXCEPT !.stage = late @@ @, !.late = @ \ {late}])
    /\ UNCHANGED <<workspace, patches, writer, request, contended, leftover, patchFaults, died>>

\* test, on the files of the stage, then the reviews, the verifier and the
\* summary, which accept together or do not.
\* Mutant: the commands run in the project instead.
ProjectFiles(a) == ContentOf(workspace)
TestedFiles(a) == execution[a].stage

Test(a) ==
  /\ ExecutesAt(a, "test")
  /\ \E accepted \in BOOLEAN :
       Records(a, [execution[a] EXCEPT !.pc = "judge", !.tested = TestedFiles(a),
                     !.accepted = accepted])
  /\ UNCHANGED <<workspace, patches, writer, request, contended, leftover, patchFaults, died>>

\* The patch of an accepted attempt is applied, or left a preview when the
\* request does not say apply_on_accept; that of a rejected one rolled back.
JudgeAttempt(a) ==
  /\ ExecutesAt(a, "judge")
  /\ LET p == execution[a].patch IN
     \/ /\ p # 0 /\ execution[a].accepted
        /\ Enters(a, Applying(p))
        /\ Records(a, [execution[a] EXCEPT !.pc = "apply"])
     \/ /\ p # 0 /\ ~execution[a].accepted
        /\ Enters(a, RollingBack(p))
        /\ Records(a, [execution[a] EXCEPT !.pc = "reject"])
     \/ /\ p = 0 \/ execution[a].accepted
        /\ Records(a, [execution[a] EXCEPT !.pc = "end"])
        /\ UNCHANGED <<writer, contended>>
  /\ UNCHANGED <<workspace, patches, request, leftover, patchFaults, died>>

\* An error ends the execution.
EndAttempt(a) ==
  /\ \/ ExecutesAt(a, "end")
     \/ execution[a].pc \in {"apply", "reject"} /\ writer[a].doing \in {"returned", "raised"}
  /\ LET ended == execution[a].accepted \/ writer[a].doing = "raised" IN
     Records(a, [NoExecution EXCEPT
                   !.attempt = IF ended THEN MaxRevisions + 1 ELSE execution[a].attempt])
  /\ writer' = [writer EXCEPT ![a] = NoWriter]
  /\ UNCHANGED <<workspace, patches, request, contended, leftover, patchFaults, died>>
-----------------------------------------------------------------------------
(* The gateway's endpoints. *)

AskPreview(c, edits) ==
  /\ request[c] = "idle"
  /\ Preview(edits)
  /\ UNCHANGED <<workspace, writer, execution, request, contended, leftover, patchFaults, died>>

AskApply(c, p) ==
  /\ request[c] = "idle"
  /\ request' = [request EXCEPT ![c] = "answer"]
  /\ Enters(c, Applying(p))
  /\ UNCHANGED <<workspace, patches, execution, leftover, patchFaults, died>>

AskRollback(c, p) ==
  /\ request[c] = "idle"
  /\ request' = [request EXCEPT ![c] = "answer"]
  /\ Enters(c, RollingBack(p))
  /\ UNCHANGED <<workspace, patches, execution, leftover, patchFaults, died>>

\* preview_apply_verify: previewed and applied, verified, and rolled back
\* unless it is accepted and the request says apply_on_accept.
AskVerify(c, edits) ==
  /\ request[c] = "idle"
  /\ Preview(edits)
  /\ request' = [request EXCEPT ![c] = "verify"]
  /\ writer' = [writer EXCEPT ![c] =
       [doing |-> "apply", patch |-> Len(patches) + 1, todo |-> DOMAIN edits, written |-> {}]]
  /\ UNCHANGED <<workspace, execution, contended, leftover, patchFaults, died>>

VerifyPatch(c) ==
  /\ request[c] = "verify" /\ writer[c].doing = "returned"
  /\ request' = [request EXCEPT ![c] = "answer"]
  /\ Enters(c, RollingBack(writer[c].patch))
  /\ UNCHANGED <<workspace, patches, execution, leftover, patchFaults, died>>

Answer(c) ==
  /\ request[c] # "idle" /\ writer[c].doing \in {"returned", "raised"}
  /\ request' = [request EXCEPT ![c] = "idle"]
  /\ writer' = [writer EXCEPT ![c] = NoWriter]
  /\ UNCHANGED <<workspace, patches, execution, contended, leftover, patchFaults, died>>

\* A process dies: the row of its patch stays as it is, and its files do.
ActorDies(x) ==
  /\ writer[x] # NoWriter \/ (x \in Agents /\ ~ExecutesAt(x, "idle"))
  /\ Fault
  /\ died' = TRUE
  /\ writer' = [writer EXCEPT ![x] = NoWriter]
  /\ execution' = IF x \in Agents
       THEN [execution EXCEPT ![x] = [NoExecution EXCEPT !.attempt = MaxRevisions + 1]]
       ELSE execution
  /\ request' = IF x \in Clients THEN [request EXCEPT ![x] = "idle"] ELSE request
  /\ UNCHANGED <<workspace, patches, contended, leftover>>

PatchesNext ==
  \/ \E x \in Actors :
       \/ \E f \in Files : WriteFile(x, f) \/ RestoreFile(x, f)
       \/ WriteFails(x) \/ RestoreFails(x) \/ EndWrite(x) \/ StatusFails(x) \/ ActorDies(x)
  \/ \E a \in Agents :
       \/ BeginAttempt(a) \/ StageEdit(a) \/ EditFails(a) \/ LateStageEdit(a)
       \/ Test(a) \/ JudgeAttempt(a) \/ EndAttempt(a)
       \/ \E edits \in Proposals : Edit(a, edits)
  \/ \E c \in Clients :
       \/ VerifyPatch(c) \/ Answer(c)
       \/ \E edits \in Proposals : AskPreview(c, edits) \/ AskVerify(c, edits)
       \/ \E p \in DOMAIN patches : AskApply(c, p) \/ AskRollback(c, p)

PatchesSpec == PatchesInit /\ [][PatchesNext]_patchesVars
-----------------------------------------------------------------------------
(* Properties. *)

\* The patch that an accepted attempt applies to the project is the change
\* that its tests saw: the stage they ran in was the copied project with that
\* patch, whatever was tried in the attempts before, as long as the attempt's
\* coder ran once.  (A second run of it adds its edits to the stage that the
\* first, or the first's thread that timed out, may have written.)
TestedIsApplied ==
  \A a \in Agents : ExecutesAt(a, "apply") /\ execution[a].coded = 1 =>
    execution[a].tested = patches[execution[a].patch].edits @@ execution[a].base

\* Once nobody is writing, a file holds what a patch wrote only if that patch
\* is recorded as applied, or if one of three things happened to that patch in
\* that very file: its apply failed where nothing undoes it (after the rename
\* of the file, in its undo, at the row), another patch that was previewed over
\* it was taken back, or two actors handled the patch at once.  Neither another
\* failure nor another order of applies, rollbacks and retries leaves a trace
\* of a patch.  Not said of a process that died between two writes.
FilesMatchPatches ==
  (\A x \in Actors : ~Writing(x)) /\ ~died =>
    \A f \in Files : LET p == workspace[f].author IN
      p # 0 /\ p \notin contended /\ <<f, p>> \notin leftover => patches[p].status = "applied"
=============================================================================
