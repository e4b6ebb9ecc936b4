---------------------------- MODULE Deliverables ----------------------------
(***************************************************************************)
(* What tools leave behind: exported documents and code runs (the routes   *)
(* of PolicyGateway.execute and tool_gateway/sandbox.py), their            *)
(* verification, and the artifact endpoints (sentinel_core/artifact_api.py *)
(* under src/backend/src).                                                 *)
(*                                                                         *)
(* The worker runs the steps of a task in one transaction (AgentWorker).   *)
(* A document's file is saved before its rows are inserted, and the rows   *)
(* are committed with the task, so a rollback leaves the file; a new       *)
(* container has none of the files and all of the rows.  Code runs in a    *)
(* directory named after the task, which the call removes, if it can, when *)
(* it returns; the process of a run that timed out is not stopped.         *)
(***************************************************************************)
EXTENDS Verification, FiniteSets

CONSTANTS
    Tasks,          \* the tasks being run
    Approvers,      \* the approval requests that may be in flight at once
    UsedTools,      \* the tools of the plans
    Errors,         \* what a recalculation may report
    Sandboxes,      \* how code may run: on the "host", in "docker", "none" at all
    Blocks,         \* the numbers of text blocks a document may have
    MaxComponents,  \* a version gets that many components at most (50)
    MaxExports,     \* bound: exported files
    MaxSteps,       \* bound: steps of a run
    MaxCalls,       \* bound: calls of the sandbox
    MaxApprovals,   \* bound: the approvals of an artifact are counted up to this
    MaxFaults       \* bound: crashes, errors and lost containers

Documents == {"docx_create", "xlsx_create", "pptx_create"}
Tools == Documents \cup {"code_exec", "model_invoke"}
ASSUME SandboxAssumption == Sandboxes \subseteq {"host", "docker", "none"}
ASSUME ToolsAssumption == UsedTools \subseteq Tools
ASSUME DeliverableBounds ==
    /\ MaxExports \in Nat /\ MaxSteps \in Nat /\ MaxCalls \in Nat /\ MaxFaults \in Nat
    /\ MaxComponents \in Nat /\ MaxApprovals \in Nat \ {0} /\ Blocks \subseteq Nat
    /\ IsFiniteSet(Approvers)

VARIABLES
    files,       \* the exported files on disk
    exported,    \* how many files were exported, each with a name of its own
    lost,        \* history: the files that went with their container
    workbook,    \* what is in file e: the errors its recalculation showed
    artifacts,   \* committed: artifact and version of each file
    approvals,   \* committed: approval rows of each artifact
    audited,     \* committed: audit entries of these approvals
    run,         \* the transaction of each task's worker
    req,         \* the transaction of each approval request
    workspaces,  \* the sandbox directory of each task: the call that made it,
                 \* 0 if there is none
    processes,   \* the programs that have not ended, by the number of their
                 \* call, and the directory of each
    calls,       \* how many calls of the sandbox there were
    leftovers,   \* history: the directories a call has not removed
    faults       \* number of faults so far

fileVars == <<files, exported, lost, workbook>>
rowVars == <<artifacts, approvals, audited>>
sandboxVars == <<workspaces, processes, calls, leftovers>>
vars == <<fileVars, rowVars, run, req, sandboxVars, faults>>

Exports == 1 .. MaxExports
ArtifactStatuses == {"none", "draft", "approved"}
NoArtifact == [status |-> "none", task |-> "none", components |-> 0, sources |-> {}, errors |-> {}]

NoRun == [at |-> "idle", tool |-> "model_invoke", step |-> 0, file |-> 0, rows |-> << >>,
          passed |-> {}, program |-> 0]
NoReq == [at |-> "idle", file |-> 0]

Init ==
    /\ files = {} /\ exported = 0 /\ lost = {}
    /\ workbook = [e \in Exports |-> {}]
    /\ artifacts = [e \in Exports |-> NoArtifact]
    /\ approvals = [e \in Exports |-> 0]
    /\ audited = [e \in Exports |-> 0]
    /\ run = [t \in Tasks |-> NoRun]
    /\ req = [h \in Approvers |-> NoReq]
    /\ workspaces = [t \in Tasks |-> 0]
    /\ processes = {}
    /\ calls = 0
    /\ leftovers = {}
    /\ faults = 0

Fault == faults < MaxFaults /\ faults' = faults + 1

RunOnly == UNCHANGED <<fileVars, rowVars, req, sandboxVars>>
Advance(t, at) == run' = [run EXCEPT ![t].at = at]

-----------------------------------------------------------------------------
(* Steps of a run *)

\* execute routes a step to its tool; a run may have several steps.
StartTool(t, tool) ==
    /\ run[t].at \in {"idle", "stepped"} /\ run[t].step < MaxSteps
    /\ run' = [run EXCEPT ![t].at = IF tool \in Documents THEN "saving"
                                    ELSE IF tool = "code_exec" THEN "sandbox" ELSE "verify",
                          ![t].tool = tool, ![t].step = @ + 1, ![t].file = 0]
    /\ RunOnly /\ UNCHANGED faults

\* A tool that raises makes its step REJECTED; what it left stays.
ToolRaises(t) ==
    /\ Fault
    /\ run[t].at \in {"saving", "saved"}
    /\ Advance(t, "stepped")
    /\ RunOnly

\* The errors of a recalculation: of the workbook's cells, or that it could
\* not be done.
RecalculateExcel(tool) == IF tool = "xlsx_create" THEN SUBSET Errors ELSE {{}}

\* Faulty variant: the rows are inserted before the file is saved, so that a
\* writer that raises leaves rows without a file.
RowsFirst(t, errors) ==
    LET e == exported + 1
    IN  /\ run[t].at = "saving" /\ e \in Exports
        /\ errors \in RecalculateExcel(run[t].tool)
        /\ \/ files' = files \cup {e} /\ UNCHANGED faults
           \/ UNCHANGED files /\ Fault
        /\ exported' = e
        /\ workbook' = [workbook EXCEPT ![e] = errors]
        /\ run' = [run EXCEPT ![t].at = "saved", ![t].file = e]
        /\ UNCHANGED <<lost, rowVars, req, sandboxVars>>

\* _create_docx, _create_xlsx, _create_pptx: a file with a new name.
SaveDocument(t, errors) ==
    LET e == exported + 1
    IN  /\ run[t].at = "saving" /\ e \in Exports
        /\ errors \in RecalculateExcel(run[t].tool)
        /\ files' = files \cup {e} /\ exported' = e
        /\ workbook' = [workbook EXCEPT ![e] = errors]
        /\ run' = [run EXCEPT ![t].at = "saved", ![t].file = e]
        /\ UNCHANGED <<lost, rowVars, req, sandboxVars, faults>>

\* Faulty variant: the exporter puts the errors into a dictionary of its own
\* ("metadata or {}"), and the version gets the empty one.
MetadataLost(t, e, blocks) ==
    [status |-> "draft", task |-> t, components |-> IF blocks < MaxComponents THEN blocks ELSE MaxComponents,
     sources |-> {}, errors |-> {}]

\* Faulty variant: every block becomes a component.
AllBlocks(t, e, blocks) ==
    [status |-> "draft", task |-> t, components |-> blocks, sources |-> {}, errors |-> workbook[e]]

\* Artifact, version (with the exporter's metadata) and components.  The
\* gateway passes no metadata of its own, so no component has a source.
VersionRow(t, e, blocks) ==
    [status |-> "draft", task |-> t, sources |-> {}, errors |-> workbook[e],
     components |-> IF blocks < MaxComponents THEN blocks ELSE MaxComponents]

InsertRows(t, blocks) ==
    LET e == run[t].file
    IN  /\ run[t].at = "saved"
        /\ run' = [run EXCEPT ![t].at = "verify",
                              ![t].rows = [x \in DOMAIN @ \cup {e} |->
                                 IF x = e THEN VersionRow(t, e, blocks) ELSE @[x]]]
        /\ RunOnly /\ UNCHANGED faults

\* The directory of a call of the sandbox: the task's, which is made unless it
\* is there.
Directory(t) == IF workspaces[t] = 0 THEN calls + 1 ELSE workspaces[t]

\* rmtree ignores errors: a call may leave its directory.
CleanUp(t, directory, removed) ==
    /\ workspaces' = [workspaces EXCEPT ![t] = IF removed THEN 0 ELSE directory]
    /\ leftovers' = IF removed THEN leftovers ELSE leftovers \cup {directory}

FaultUnless(removed) == IF removed THEN UNCHANGED faults ELSE Fault

\* Code: the program is started in the directory.
StartCode(t) ==
    LET n == calls + 1
    IN  /\ run[t].at = "sandbox" /\ Sandboxes # {"none"}
        /\ n <= MaxCalls
        /\ workspaces' = [workspaces EXCEPT ![t] = Directory(t)]
        /\ processes' = processes \cup {[program |-> n, directory |-> Directory(t)]}
        /\ calls' = n
        /\ run' = [run EXCEPT ![t].at = "running", ![t].program = n]
        /\ UNCHANGED <<fileVars, rowVars, req, leftovers, faults>>

\* Without the host's leave, and without a Docker that starts, the call returns
\* an error; the directory was made before.
SandboxRefused(t, removed) ==
    /\ run[t].at = "sandbox" /\ Sandboxes # {"host"}
    /\ calls < MaxCalls /\ calls' = calls + 1
    /\ CleanUp(t, Directory(t), removed) /\ FaultUnless(removed)
    /\ Advance(t, "verify")
    /\ UNCHANGED <<fileVars, rowVars, req, processes>>

\* Making the directory, writing the program to it or, on the host, starting it
\* raises; the step becomes REJECTED.  The first two are outside of the try, so
\* that nobody removes what there is.
SetUpFails(t, removed) ==
    /\ Fault
    /\ run[t].at = "sandbox"
    /\ removed => workspaces[t] = 0 \/ "host" \in Sandboxes
    /\ calls < MaxCalls /\ calls' = calls + 1
    /\ CleanUp(t, Directory(t), removed)
    /\ Advance(t, "stepped")
    /\ UNCHANGED <<fileVars, rowVars, req, processes>>

CodeEnds(t, removed) ==
    /\ run[t].at = "running"
    /\ processes' = {p \in processes : p.program # run[t].program}
    /\ CleanUp(t, workspaces[t], removed) /\ FaultUnless(removed)
    /\ Advance(t, "verify")
    /\ UNCHANGED <<fileVars, rowVars, req, calls>>

\* Faulty variant: the directory is removed only when the program has ended.
KeepDirectory(t, removed) ==
    /\ run[t].at = "running"
    /\ Advance(t, "verify")
    /\ RunOnly /\ UNCHANGED faults

\* The wait is given up and reported as the run's output; the directory is
\* removed under the process, which goes on and may hinder it.
CodeTimesOut(t, removed) ==
    /\ run[t].at = "running"
    /\ CleanUp(t, workspaces[t], removed) /\ FaultUnless(removed)
    /\ Advance(t, "verify")
    /\ UNCHANGED <<fileVars, rowVars, req, processes, calls>>

\* A program nobody waits for ends by itself.
LeftoverEnds(p) ==
    /\ p \in processes
    /\ \A t \in Tasks : run[t].at = "running" => run[t].program # p.program
    /\ processes' = processes \ {p}
    /\ UNCHANGED <<fileVars, rowVars, run, req, workspaces, calls, leftovers, faults>>

\* What the sandbox returns starts with "Exit code:" or "Error:", which is not
\* Python; a model's text is of any length.
Outputs(tool) == [parses: {FALSE}, dangerous: {{}},
                  length: IF tool = "code_exec" THEN {40} ELSE {0, 40}]

\* The metadata of the version with this path; none if there is no such row.
MetadataOf(t) == IF run[t].file \in DOMAIN run[t].rows THEN run[t].rows[run[t].file].errors ELSE {}

\* _verify_step, by the tool of the step.
Verdicts(t) ==
    CASE run[t].tool = "code_exec" -> {VerifyCode(o) : o \in Outputs(run[t].tool)}
      [] run[t].tool \in Documents -> {VerifyExport(MetadataOf(t))}
      [] run[t].tool = "model_invoke" ->
           {VerifyTextOutput(o, a) : o \in Outputs(run[t].tool), a \in ModelAnswers}

VerifyStep(t, verdict) ==
    /\ run[t].at = "verify"
    /\ verdict \in Verdicts(t)
    /\ run' = [run EXCEPT ![t].at = "stepped", ![t].tool = NoRun.tool, ![t].file = 0,
                          ![t].passed = IF verdict = "PASS" THEN @ \cup ({run[t].file} \ {0}) ELSE @]
    /\ RunOnly /\ UNCHANGED faults

\* compile() of the output of a program raises something else than a
\* SyntaxError: the task fails, and no step of it is started any more.
VerifyRaises(t) ==
    /\ run[t].at = "verify" /\ run[t].tool = "code_exec"
    /\ Advance(t, "failed")
    /\ RunOnly /\ UNCHANGED faults

\* The worker commits the task with all its rows.
CommitRun(t) ==
    /\ run[t].at \in {"stepped", "failed"}
    /\ artifacts' = [e \in Exports |-> IF e \in DOMAIN run[t].rows THEN run[t].rows[e] ELSE artifacts[e]]
    /\ run' = [run EXCEPT ![t] = NoRun]
    /\ UNCHANGED <<fileVars, approvals, audited, req, sandboxVars, faults>>

\* The process or its transaction dies: neither the files nor the directory
\* nor the programs go with it.  (To die with the directory just made is a
\* SetUpFails and a rollback.)
RollBackRun(t) ==
    /\ Fault
    /\ run[t].at # "idle"
    /\ run' = [run EXCEPT ![t] = NoRun]
    /\ leftovers' = IF run[t].at = "running" THEN leftovers \cup {workspaces[t]} ELSE leftovers
    /\ UNCHANGED <<fileVars, rowVars, req, workspaces, processes, calls>>

\* A new container: the artifacts and the sandbox directories are not on a
\* volume.  What the process did dies with it, and so do the programs, unless
\* they run in containers of their own.
LoseFiles ==
    /\ Fault
    /\ files # {}
    /\ files' = {} /\ lost' = lost \cup files
    /\ run' = [t \in Tasks |-> NoRun]
    /\ req' = [h \in Approvers |-> NoReq]
    /\ workspaces' = [t \in Tasks |-> 0]
    /\ processes' \in SUBSET (IF "docker" \in Sandboxes THEN processes ELSE {})
    /\ UNCHANGED <<exported, workbook, rowVars, calls, leftovers>>

-----------------------------------------------------------------------------
(* Artifact endpoints *)

\* list_artifacts and get_artifact: the committed artifacts.
Listed == {e \in Exports : artifacts[e].status # "none"}

\* download_artifact, of version 1 or of the latest: the only one there is.
Download(e) == IF e \in Listed /\ e \in files THEN e ELSE 404

\* Faulty variant: the status is not looked at.
ReadAnyArtifact(h, e) ==
    /\ req[h].at = "idle" /\ e \in Listed
    /\ req' = [req EXCEPT ![h] = [at |-> "read", file |-> e]]
    /\ UNCHANGED <<fileVars, rowVars, run, sandboxVars, faults>>

\* approve_artifact reads the artifact without a lock: 404, 409 or go on.
ReadArtifact(h, e) ==
    /\ req[h].at = "idle" /\ e \in Listed
    /\ artifacts[e].status # "approved"
    /\ req' = [req EXCEPT ![h] = [at |-> "read", file |-> e]]
    /\ UNCHANGED <<fileVars, rowVars, run, sandboxVars, faults>>

\* The flush writes status and approval; it waits for the artifact's lock.
FlushApproval(h) ==
    /\ req[h].at = "read"
    /\ \A g \in Approvers : req[g].at = "flushed" => req[g].file # req[h].file
    /\ req' = [req EXCEPT ![h].at = "flushed"]
    /\ UNCHANGED <<fileVars, rowVars, run, sandboxVars, faults>>

CountUp(n) == IF n < MaxApprovals THEN n + 1 ELSE n

\* The audit entry is written and the request commits.
CommitApproval(h) ==
    LET e == req[h].file
    IN  /\ req[h].at = "flushed"
        /\ artifacts' = [artifacts EXCEPT ![e].status = "approved"]
        /\ approvals' = [approvals EXCEPT ![e] = CountUp(@)]
        /\ audited' = [audited EXCEPT ![e] = CountUp(@)]
        /\ req' = [req EXCEPT ![h] = NoReq]
        /\ UNCHANGED <<fileVars, run, sandboxVars, faults>>

\* The audit insert fails, or the process dies: everything is rolled back.
AbortApproval(h) ==
    /\ Fault
    /\ req[h].at # "idle"
    /\ req' = [req EXCEPT ![h] = NoReq]
    /\ UNCHANGED <<fileVars, rowVars, run, sandboxVars>>

-----------------------------------------------------------------------------
Next ==
    \/ \E t \in Tasks :
         \/ \E tool \in UsedTools : StartTool(t, tool)
         \/ \E errors \in SUBSET Errors : SaveDocument(t, errors)
         \/ \E blocks \in Blocks : InsertRows(t, blocks)
         \/ ToolRaises(t)
         \/ StartCode(t)
         \/ \E removed \in BOOLEAN :
              \/ SandboxRefused(t, removed) \/ SetUpFails(t, removed)
              \/ CodeEnds(t, removed) \/ CodeTimesOut(t, removed)
         \/ \E verdict \in {"PASS", "FAILED"} : VerifyStep(t, verdict)
         \/ VerifyRaises(t)
         \/ CommitRun(t) \/ RollBackRun(t)
    \/ LoseFiles
    \/ \E p \in processes : LeftoverEnds(p)
    \/ \E h \in Approvers :
         \/ \E e \in Exports : ReadArtifact(h, e)
         \/ FlushApproval(h) \/ CommitApproval(h) \/ AbortApproval(h)

Spec == Init /\ [][Next]_vars

-----------------------------------------------------------------------------
(* Every variable has its type. *)
TypeOK ==
    /\ files \subseteq 1 .. exported /\ lost \subseteq 1 .. exported /\ exported \in 0 .. MaxExports
    /\ workbook \in [Exports -> SUBSET Errors]
    /\ artifacts \in [Exports -> [status: ArtifactStatuses, task: Tasks \cup {"none"},
                                  components: 0 .. MaxComponents, sources: {{}},
                                  errors: SUBSET Errors]]
    /\ approvals \in [Exports -> 0 .. MaxApprovals]
    /\ audited \in [Exports -> 0 .. MaxApprovals]
    /\ \A t \in Tasks : run[t].tool \in Tools /\ run[t].file \in Exports \cup {0}
    /\ \A h \in Approvers : req[h].at \in {"idle", "read", "flushed"}
    /\ workspaces \in [Tasks -> 0 .. MaxCalls]
    /\ processes \subseteq [program: 1 .. MaxCalls, directory: 1 .. MaxCalls]
    /\ calls \in 0 .. MaxCalls /\ leftovers \subseteq 0 .. MaxCalls

\* Every artifact a user can see can be downloaded, unless its file went with
\* its container: the file is saved before its rows, which name no other file
\* and become visible with their commit, whatever fails or is tried again in
\* between.  No open transaction has rows for a file that is lost
\* (sandbox.py:133-177, artifact_api.py:47-59, 248-251, docker-compose.yml:29).
ListedIsDownloadable ==
    /\ \A e \in Listed \ lost : Download(e) = e
    /\ \A t \in Tasks : \A e \in DOMAIN run[t].rows :
         e \in files /\ e \notin Listed

\* An artifact is approved exactly if it has an approval, each approval has
\* its audit entry, and requests that overlap are the only cause of a second
\* one: there are never more approvals than requests in flight at once, for
\* who comes later is refused (artifact_api.py:179-209).
ApprovalsAgree ==
    \A e \in Exports :
        /\ artifacts[e].status = "approved" <=> approvals[e] > 0
        /\ approvals[e] = audited[e]
        /\ approvals[e] + Cardinality({h \in Approvers : req[h].at # "idle" /\ req[h].file = e})
             <= Cardinality(Approvers)

\* A step whose workbook showed errors when it was recalculated, or could not
\* be recalculated, does not pass: the errors reach the verdict through the
\* version's row (sandbox.py:285-288, 163-169, agent_loop.py:407-412).
PassedIsRecalculated ==
    \A t \in Tasks : \A e \in run[t].passed : workbook[e] = {}

\* The directory of a task is there only while a program of it runs, and no
\* other program runs there: one that timed out and was not stopped has another.
\* The only exceptions are directories that a call has not removed, by an error
\* of rmtree or before the try, or that a dead worker left (sandbox.py:60-84).
WorkspaceIsOwn ==
    \A t \in Tasks : workspaces[t] \notin leftovers \cup {0} =>
        /\ run[t].at = "running"
        /\ \A p \in processes : p.directory = workspaces[t] => p.program = run[t].program
=============================================================================
