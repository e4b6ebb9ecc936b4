------------------------- MODULE DeliverablesProofs -------------------------
(***************************************************************************)
(* Proofs about Deliverables, for any tasks, approval requests and bounds. *)
(*                                                                         *)
(* The invariant has three parts that hardly meet.  Filed: an exported     *)
(* file belongs to one transaction until that commits, since its name is   *)
(* new, and a file that is lost takes the open transactions with it.       *)
(* Housed: a directory that a call made is no other task's, and is there   *)
(* after the call only as one of the leftovers.                            *)
(* Approved: a request that has read an artifact without approval is still *)
(* counted when it commits.                                                *)
(***************************************************************************)
EXTENDS Deliverables, FiniteSetTheorems, TLAPS

Places == {"idle", "saving", "saved", "sandbox", "running", "verify", "stepped", "failed"}
Version == [status: {"draft"}, task: Tasks, components: 0 .. MaxComponents, sources: {{}},
            errors: SUBSET Errors]
Artifact == [status: ArtifactStatuses, task: Tasks \cup {"none"}, components: 0 .. MaxComponents,
             sources: {{}}, errors: SUBSET Errors]
Rows == UNION {[S -> Version] : S \in SUBSET Exports}
RunType == [at: Places, tool: Tools, step: Nat, file: Exports \cup {0}, rows: Rows,
            passed: SUBSET Exports, program: 0 .. MaxCalls]
ReqType == [at: {"idle", "read", "flushed"}, file: Exports \cup {0}]

DeliverablesTypes ==
    /\ files \subseteq Exports /\ lost \subseteq Exports /\ exported \in 0 .. MaxExports
    /\ workbook \in [Exports -> SUBSET Errors]
    /\ artifacts \in [Exports -> Artifact]
    /\ approvals \in [Exports -> 0 .. MaxApprovals] /\ audited \in [Exports -> 0 .. MaxApprovals]
    /\ run \in [Tasks -> RunType] /\ req \in [Approvers -> ReqType]
    /\ workspaces \in [Tasks -> 0 .. MaxCalls]
    /\ processes \subseteq [program: 1 .. MaxCalls, directory: 1 .. MaxCalls]
    /\ calls \in 0 .. MaxCalls /\ leftovers \subseteq 0 .. MaxCalls

-----------------------------------------------------------------------------
(* Filed *)

\* Only names that were given to files are in use.
NamesUsed == files \subseteq 1 .. exported /\ lost \subseteq 1 .. exported

\* The files a transaction has made and not committed.
Own(t) == DOMAIN run[t].rows \cup ({run[t].file} \ {0})

OwnFiles ==
    /\ Listed \subseteq files \cup lost
    /\ \A t \in Tasks : Own(t) \subseteq files /\ Own(t) \cap Listed = {}
    /\ \A t, u \in Tasks : t # u => Own(t) \cap Own(u) = {}

\* What belongs to each place of a step.
Placed(r) ==
    /\ r.at \in {"saving", "saved"} => r.tool \in Documents
    /\ r.at = "saved" => r.file # 0
    /\ r.at \in {"sandbox", "running"} => r.file = 0
    /\ r.at = "verify" /\ r.file # 0 => r.tool \in Documents /\ r.file \in DOMAIN r.rows

\* Rows carry the errors of their workbook, and what passed has none.
ErrorsKept ==
    \A t \in Tasks :
        /\ \A e \in DOMAIN run[t].rows : run[t].rows[e].errors = workbook[e]
        /\ \A e \in run[t].passed : e \in DOMAIN run[t].rows /\ workbook[e] = {}

Filed == NamesUsed /\ OwnFiles /\ ErrorsKept /\ \A t \in Tasks : Placed(run[t])

-----------------------------------------------------------------------------
(* Housed *)

Housed ==
    /\ \A t \in Tasks : workspaces[t] <= calls
    /\ \A t, u \in Tasks : workspaces[t] # 0 /\ workspaces[t] = workspaces[u] => t = u
    /\ \A p \in processes : p.directory <= calls
    /\ WorkspaceIsOwn

-----------------------------------------------------------------------------
(* Approved *)

InFlight(e) == {h \in Approvers : req[h].at # "idle" /\ req[h].file = e}

Approved ==
    /\ ApprovalsAgree
    /\ \A h \in Approvers : req[h].at # "idle" => req[h].file \in Listed

DeliverablesInv == DeliverablesTypes /\ Filed /\ Housed /\ Approved

-----------------------------------------------------------------------------

LEMMA NoRows == << >> \in Rows /\ DOMAIN << >> = {}
<1>1. << >> = [e \in {} |-> 0] /\ DOMAIN << >> = {}
  OBVIOUS
<1>2. [e \in {} |-> 0] \in [{} -> Version]
  OBVIOUS
<1> QED
  BY <1>1, <1>2 DEF Rows

LEMMA NoRunFacts ==
    /\ NoRun \in RunType /\ NoRun.at = "idle" /\ NoRun.file = 0 /\ NoRun.program = 0
    /\ DOMAIN NoRun.rows = {} /\ NoRun.passed = {} /\ Placed(NoRun)
<1>1. NoRun.rows \in Rows /\ DOMAIN NoRun.rows = {}
  BY NoRows DEF NoRun
<1>2. /\ NoRun \in RunType /\ NoRun.at = "idle" /\ NoRun.file = 0 /\ NoRun.program = 0
      /\ NoRun.passed = {}
  BY NoRows, DeliverableBounds DEF NoRun, RunType, Places, Tools, Documents
<1> QED
  BY <1>1, <1>2 DEF Placed

LEMMA RowFacts ==
    ASSUME NEW f \in Rows
    PROVE  DOMAIN f \subseteq Exports /\ \A e \in DOMAIN f : f[e] \in Version
BY DEF Rows

\* A worker goes on with what it has filed, or lets go of it.
LEMMA FiledKeeps ==
    ASSUME DeliverablesTypes, Filed, NEW t \in Tasks, NEW x \in RunType, run' = [run EXCEPT ![t] = x],
           \/ x.rows = run[t].rows /\ x.passed = run[t].passed
           \/ DOMAIN x.rows = {} /\ x.passed = {},
           x.file \in {run[t].file, 0}, Placed(x), UNCHANGED <<files, exported, lost, workbook, artifacts>>
    PROVE  Filed'
<1>1. \A u \in Tasks : run'[u] = IF u = t THEN x ELSE run[u]
  BY DEF DeliverablesTypes
<1>2. \A u \in Tasks : Own(u)' \subseteq Own(u)
  BY <1>1 DEF Own
<1>3. Listed' = Listed
  BY DEF Listed
<1>4. OwnFiles'
  BY <1>2, <1>3 DEF Filed, OwnFiles
<1>5. ErrorsKept'
  BY <1>1 DEF Filed, ErrorsKept
<1>6. NamesUsed' /\ \A u \in Tasks : Placed(run'[u])
  BY <1>1 DEF Filed, NamesUsed
<1> QED
  BY <1>4, <1>5, <1>6 DEF Filed

\* A step that changes neither files nor rows nor runs disturbs nothing of Filed.
LEMMA FiledStays ==
    ASSUME Filed, UNCHANGED <<files, exported, lost, workbook, artifacts, run>>
    PROVE  Filed'
<1>1. \A u \in Tasks : Own(u)' = Own(u)
  BY DEF Own
<1>2. Listed' = Listed
  BY DEF Listed
<1>3. OwnFiles'
  BY <1>1, <1>2 DEF Filed, OwnFiles
<1>4. ErrorsKept'
  BY DEF Filed, ErrorsKept
<1>5. NamesUsed' /\ \A u \in Tasks : Placed(run'[u])
  BY DEF Filed, NamesUsed
<1> QED
  BY <1>3, <1>4, <1>5 DEF Filed

\* Directories and programs may go; a task that keeps a directory that is no
\* leftover goes on running its program.
LEMMA HousedKeeps ==
    ASSUME DeliverablesTypes, Housed, calls' = calls, processes' \subseteq processes,
           leftovers \subseteq leftovers',
           \A u \in Tasks : workspaces'[u] \in {workspaces[u], 0},
           \A u \in Tasks : workspaces'[u] \notin leftovers' \cup {0} =>
               run'[u].program = run[u].program /\ run'[u].at = "running"
    PROVE  Housed'
<1>1. ASSUME NEW u \in Tasks, workspaces'[u] \notin leftovers' \cup {0},
             NEW p \in processes', p.directory = workspaces'[u]
      PROVE  p.program = run'[u].program
  <2>1. workspaces'[u] = workspaces[u] /\ workspaces[u] \notin leftovers \cup {0}
    BY <1>1
  <2> QED
    BY <1>1, <2>1 DEF Housed, WorkspaceIsOwn
<1>2. WorkspaceIsOwn'
  BY <1>1 DEF WorkspaceIsOwn
<1>3. \A u \in Tasks : workspaces'[u] <= calls'
  BY DEF Housed, DeliverablesTypes
<1>4. \A u, v \in Tasks : workspaces'[u] # 0 /\ workspaces'[u] = workspaces'[v] => u = v
  BY DEF Housed
<1> QED
  BY <1>2, <1>3, <1>4 DEF Housed

\* A step that does not touch the requests and lists at most new drafts.
LEMMA ApprovedKeeps ==
    ASSUME DeliverablesTypes, Approved, UNCHANGED <<approvals, audited, req>>,
           \A e \in Exports : IF e \in Listed THEN artifacts'[e].status = artifacts[e].status
                              ELSE artifacts'[e].status \in {"none", "draft"}
    PROVE  Approved'
<1>1. \A e \in Exports : artifacts'[e].status = "approved" <=> artifacts[e].status = "approved"
  BY DEF Listed, DeliverablesTypes, Artifact, ArtifactStatuses
<1>2. ApprovalsAgree'
  BY <1>1 DEF Approved, ApprovalsAgree
<1>3. Listed \subseteq Listed'
  BY DEF Listed
<1> QED
  BY <1>2, <1>3 DEF Approved

\* A worker goes on outside the sandbox.
LEMMA Advances ==
    ASSUME DeliverablesInv, NEW t \in Tasks, NEW x \in RunType, run' = [run EXCEPT ![t] = x],
           run[t].at # "running", x.rows = run[t].rows, x.passed = run[t].passed,
           x.file \in {run[t].file, 0}, Placed(x),
           UNCHANGED <<fileVars, rowVars, req, sandboxVars>>
    PROVE  DeliverablesInv'
<1>0. DeliverablesTypes /\ Filed /\ Housed /\ Approved
  BY DEF DeliverablesInv
<1>1. UNCHANGED <<files, exported, lost, workbook, artifacts, approvals, audited, req, workspaces, processes, calls, leftovers>>
  BY DEF fileVars, rowVars, sandboxVars
<1>2. DeliverablesTypes'
  BY <1>0, <1>1 DEF DeliverablesTypes
<1>3. Filed'
  BY <1>0, <1>1, FiledKeeps
<1>4. \A u \in Tasks : workspaces[u] \notin leftovers \cup {0} => u # t /\ run[u].at = "running"
  BY <1>0 DEF Housed, WorkspaceIsOwn
<1>5. \A u \in Tasks : u # t => run'[u] = run[u]
  BY <1>0 DEF DeliverablesTypes
<1>6. Housed'
  BY <1>0, <1>1, <1>4, <1>5, HousedKeeps
<1>7. \A e \in Exports : IF e \in Listed THEN artifacts'[e].status = artifacts[e].status
                         ELSE artifacts'[e].status \in {"none", "draft"}
  BY <1>1 DEF Listed
<1>8. Approved'
  BY <1>0, <1>1, <1>7, ApprovedKeeps
<1> QED
  BY <1>2, <1>3, <1>6, <1>8 DEF DeliverablesInv

LEMMA StartToolStep ==
    ASSUME DeliverablesInv, NEW t \in Tasks, NEW tool \in UsedTools, StartTool(t, tool)
    PROVE  DeliverablesInv'
<1> DEFINE place == IF tool \in Documents THEN "saving" ELSE IF tool = "code_exec" THEN "sandbox" ELSE "verify"
           x == [run[t] EXCEPT !.at = place, !.tool = tool, !.step = run[t].step + 1, !.file = 0]
<1>1. run[t] \in RunType /\ tool \in Tools
  BY ToolsAssumption DEF DeliverablesInv, DeliverablesTypes
<1>2. /\ run' = [run EXCEPT ![t] = x] /\ run[t].at # "running"
      /\ UNCHANGED <<fileVars, rowVars, req, sandboxVars>>
  BY DEF StartTool, RunOnly
<1> HIDE DEF place
<1>3a. place \in {"saving", "sandbox", "verify"} /\ place \in Places /\ (place \in {"saving", "saved"} => tool \in Documents) /\ place # "running"
  BY DEF place, Places, Documents
<1>3b. run[t].step + 1 \in Nat /\ place \in Places /\ tool \in Tools /\ 0 \in Exports \cup {0}
  BY <1>1, <1>3a DEF RunType
<1>3. /\ x \in RunType /\ x.rows = run[t].rows /\ x.passed = run[t].passed /\ x.file = 0
      /\ x.at = place /\ x.tool = tool
  BY <1>1, <1>3b DEF RunType
<1> HIDE DEF x
<1>4. Placed(x)
  BY <1>3, <1>3a DEF Placed
<1> QED
  BY <1>2, <1>3, <1>4, Advances

\* A step that raises outside the sandbox.
LEMMA RaisesStep ==
    ASSUME DeliverablesInv, NEW t \in Tasks, ToolRaises(t) \/ VerifyRaises(t)
    PROVE  DeliverablesInv'
<1>0. PICK at \in {"stepped", "failed"} :
        /\ Advance(t, at) /\ run[t].at # "running"
        /\ UNCHANGED <<fileVars, rowVars, req, sandboxVars>>
  BY DEF ToolRaises, VerifyRaises, RunOnly
<1> DEFINE x == [run[t] EXCEPT !.at = at]
<1>1. run[t] \in RunType
  BY DEF DeliverablesInv, DeliverablesTypes
<1>2. run' = [run EXCEPT ![t] = x]
  BY <1>0 DEF Advance
<1>3. /\ x \in RunType /\ x.rows = run[t].rows /\ x.passed = run[t].passed /\ x.file = run[t].file
      /\ x.at = at
  BY <1>1 DEF RunType, Places
<1> HIDE DEF x
<1>4. Placed(x)
  BY <1>3 DEF Placed
<1> QED
  BY <1>0, <1>2, <1>3, <1>4, Advances

-----------------------------------------------------------------------------

LEMMA SaveDocumentStep ==
    ASSUME DeliverablesInv, NEW t \in Tasks, NEW errors \in SUBSET Errors, SaveDocument(t, errors)
    PROVE  DeliverablesInv'
<1> DEFINE e == exported + 1
           x == [run[t] EXCEPT !.at = "saved", !.file = e]
<1>0. DeliverablesTypes /\ Filed /\ Housed /\ Approved /\ run[t] \in RunType
  BY DEF DeliverablesInv, DeliverablesTypes
<1>1. /\ run[t].at = "saving" /\ e \in Exports /\ files' = files \cup {e} /\ exported' = e
      /\ workbook' = [workbook EXCEPT ![e] = errors]
      /\ run' = [run EXCEPT ![t] = x]
      /\ UNCHANGED <<lost, artifacts, approvals, audited, req, workspaces, processes, calls, leftovers>>
  BY DEF SaveDocument, rowVars, sandboxVars
<1>2. /\ e \notin files \cup lost /\ e \in 0 .. MaxExports
      /\ NamesUsed'
  <2>1. /\ exported \in Nat /\ e \in Nat
        /\ \A k \in 1 .. exported : k \in 1 .. e /\ k # e
        /\ e \in 1 .. e /\ e \in 0 .. MaxExports
    BY <1>0, <1>1, DeliverableBounds DEF DeliverablesTypes, Exports
  <2>2. files \subseteq 1 .. exported /\ lost \subseteq 1 .. exported
    BY <1>0 DEF Filed, NamesUsed
  <2> HIDE DEF e
  <2> QED
    BY <1>1, <2>1, <2>2 DEF NamesUsed
<1> HIDE DEF e
<1>3. /\ x \in RunType /\ x.rows = run[t].rows /\ x.passed = run[t].passed /\ x.file = e
      /\ x.at = "saved" /\ x.tool = run[t].tool
  BY <1>0, <1>1 DEF RunType, Places
<1> HIDE DEF x
<1>4. \A u \in Tasks : run'[u] = IF u = t THEN x ELSE run[u]
  BY <1>0, <1>1 DEF DeliverablesTypes
<1>5. DeliverablesTypes'
  BY <1>0, <1>1, <1>2, <1>3 DEF DeliverablesTypes
<1>6. /\ e # 0 /\ \A u \in Tasks : run'[u].rows = run[u].rows /\ run'[u].passed = run[u].passed
      /\ \A u \in Tasks : Own(u)' \subseteq Own(u) \cup (IF u = t THEN {e} ELSE {})
  BY <1>1, <1>3, <1>4 DEF Own, Exports
<1>7. Listed' = Listed
  BY <1>1 DEF Listed
<1>8. OwnFiles'
  BY <1>0, <1>1, <1>2, <1>6, <1>7 DEF Filed, OwnFiles
<1>9. ErrorsKept'
  <2>1. \A u \in Tasks : \A k \in DOMAIN run[u].rows : k \in files /\ k \in Exports /\ k # e
    BY <1>0, <1>2 DEF Filed, OwnFiles, Own, DeliverablesTypes
  <2>2. \A k \in Exports : k # e => workbook'[k] = workbook[k]
    BY <1>0, <1>1 DEF DeliverablesTypes
  <2> QED
    BY <1>0, <1>6, <2>1, <2>2 DEF Filed, ErrorsKept
<1>10. \A u \in Tasks : Placed(run'[u])
  <2>1. Placed(x)
    BY <1>0, <1>1, <1>3, <1>6 DEF Filed, Placed
  <2> QED
    BY <1>0, <1>4, <2>1 DEF Filed
<1>11. Housed'
  <2>1. \A u \in Tasks : workspaces[u] \notin leftovers \cup {0} => u # t /\ run[u].at = "running"
    BY <1>0, <1>1 DEF Housed, WorkspaceIsOwn
  <2> QED
    BY <1>0, <1>1, <1>4, <2>1, HousedKeeps
<1>12. Approved'
  <2>1. \A k \in Exports : IF k \in Listed THEN artifacts'[k].status = artifacts[k].status
                           ELSE artifacts'[k].status \in {"none", "draft"}
    BY <1>1 DEF Listed
  <2> QED
    BY <1>0, <1>1, <2>1, ApprovedKeeps
<1> QED
  BY <1>2, <1>5, <1>8, <1>9, <1>10, <1>11, <1>12 DEF DeliverablesInv, Filed

LEMMA InsertRowsStep ==
    ASSUME DeliverablesInv, NEW t \in Tasks, NEW blocks \in Blocks, InsertRows(t, blocks)
    PROVE  DeliverablesInv'
<1> DEFINE e == run[t].file
           old == run[t].rows
           new == [k \in DOMAIN old \cup {e} |-> IF k = e THEN VersionRow(t, e, blocks) ELSE old[k]]
           x == [run[t] EXCEPT !.at = "verify", !.rows = new]
<1>0. DeliverablesTypes /\ Filed /\ Housed /\ Approved /\ run[t] \in RunType
  BY DEF DeliverablesInv, DeliverablesTypes
<1>1. /\ run[t].at = "saved" /\ run' = [run EXCEPT ![t] = x]
      /\ UNCHANGED <<files, exported, lost, workbook, artifacts, approvals, audited, req, workspaces, processes, calls, leftovers>>
  BY DEF InsertRows, RunOnly, fileVars, rowVars, sandboxVars
<1>2. e \in Exports /\ e # 0 /\ run[t].tool \in Documents
  BY <1>0, <1>1 DEF Filed, Placed, RunType
<1>3. VersionRow(t, e, blocks) \in Version /\ VersionRow(t, e, blocks).errors = workbook[e]
  BY <1>0, <1>2, DeliverableBounds DEF VersionRow, Version, DeliverablesTypes
<1>4. /\ new \in Rows /\ DOMAIN new = DOMAIN old \cup {e} /\ new[e].errors = workbook[e]
      /\ \A k \in DOMAIN old : k # e => new[k] = old[k]
  <2>1. old \in Rows /\ DOMAIN old \subseteq Exports /\ \A k \in DOMAIN old : old[k] \in Version
    BY <1>0, RowFacts DEF RunType
  <2>2. new \in [DOMAIN old \cup {e} -> Version] /\ DOMAIN old \cup {e} \in SUBSET Exports
    BY <1>2, <1>3, <2>1
  <2> QED
    BY <1>3, <2>2 DEF Rows
<1>5. /\ x \in RunType /\ x.rows = new /\ x.passed = run[t].passed /\ x.file = e
      /\ x.at = "verify" /\ x.tool = run[t].tool
  BY <1>0, <1>4 DEF RunType, Places
<1> HIDE DEF x, new
<1>6. \A u \in Tasks : run'[u] = IF u = t THEN x ELSE run[u]
  BY <1>0, <1>1 DEF DeliverablesTypes
<1>7. DeliverablesTypes'
  BY <1>0, <1>1, <1>5 DEF DeliverablesTypes
<1>8. \A u \in Tasks : Own(u)' = Own(u)
  BY <1>2, <1>4, <1>5, <1>6 DEF Own
<1>9. OwnFiles' /\ NamesUsed'
  <2>1. Listed' = Listed
    BY <1>1 DEF Listed
  <2> QED
    BY <1>0, <1>1, <1>8, <2>1 DEF Filed, OwnFiles, NamesUsed
<1>10. ErrorsKept'
  BY <1>0, <1>1, <1>4, <1>5, <1>6 DEF Filed, ErrorsKept
<1>11. \A u \in Tasks : Placed(run'[u])
  <2>1. Placed(x)
    BY <1>2, <1>4, <1>5 DEF Placed
  <2> QED
    BY <1>0, <1>6, <2>1 DEF Filed
<1>12. Housed'
  <2>1. \A u \in Tasks : workspaces[u] \notin leftovers \cup {0} => u # t /\ run[u].at = "running"
    BY <1>0, <1>1 DEF Housed, WorkspaceIsOwn
  <2> QED
    BY <1>0, <1>1, <1>6, <2>1, HousedKeeps
<1>13. Approved'
  <2>1. \A k \in Exports : IF k \in Listed THEN artifacts'[k].status = artifacts[k].status
                           ELSE artifacts'[k].status \in {"none", "draft"}
    BY <1>1 DEF Listed
  <2> QED
    BY <1>0, <1>1, <2>1, ApprovedKeeps
<1> QED
  BY <1>7, <1>9, <1>10, <1>11, <1>12, <1>13 DEF DeliverablesInv, Filed

\* The export check passes only what was recalculated without errors.
LEMMA VerdictFacts ==
    ASSUME NEW t \in Tasks, NEW v \in Verdicts(t), v = "PASS", run[t].tool \in Documents
    PROVE  MetadataOf(t) = {}
<1>1. v = VerifyExport(MetadataOf(t))
  BY DEF Verdicts, Documents
<1> QED
  BY <1>1 DEF VerifyExport, Passed, Check

LEMMA VerifyStepStep ==
    ASSUME DeliverablesInv, NEW t \in Tasks, NEW v, VerifyStep(t, v)
    PROVE  DeliverablesInv'
<1> DEFINE file == run[t].file
           passed == IF v = "PASS" THEN run[t].passed \cup ({file} \ {0}) ELSE run[t].passed
           x == [run[t] EXCEPT !.at = "stepped", !.tool = NoRun.tool, !.file = 0, !.passed = passed]
<1>0. DeliverablesTypes /\ Filed /\ Housed /\ Approved /\ run[t] \in RunType
  BY DEF DeliverablesInv, DeliverablesTypes
<1>1. /\ run[t].at = "verify" /\ v \in Verdicts(t) /\ run' = [run EXCEPT ![t] = x]
      /\ UNCHANGED <<files, exported, lost, workbook, artifacts, approvals, audited, req, workspaces, processes, calls, leftovers>>
  BY DEF VerifyStep, RunOnly, fileVars, rowVars, sandboxVars
<1>2. passed \subseteq Exports /\ NoRun.tool \in Tools
  BY <1>0, NoRunFacts DEF RunType
<1>3. /\ x \in RunType /\ x.rows = run[t].rows /\ x.passed = passed /\ x.file = 0
      /\ x.at = "stepped"
  BY <1>0, <1>2 DEF RunType, Places
<1>4. \A e \in passed : e \in DOMAIN run[t].rows /\ workbook[e] = {}
  <2> SUFFICES ASSUME v = "PASS", file # 0
               PROVE  file \in DOMAIN run[t].rows /\ workbook[file] = {}
    BY <1>0 DEF Filed, ErrorsKept
  <2>1. run[t].tool \in Documents /\ file \in DOMAIN run[t].rows
    BY <1>0, <1>1 DEF Filed, Placed
  <2>2. MetadataOf(t) = {}
    BY <1>1, <2>1, VerdictFacts
  <2> QED
    BY <1>0, <2>1, <2>2 DEF MetadataOf, Filed, ErrorsKept
<1> HIDE DEF x, passed
<1>5. \A u \in Tasks : run'[u] = IF u = t THEN x ELSE run[u]
  BY <1>0, <1>1 DEF DeliverablesTypes
<1>6. DeliverablesTypes'
  BY <1>0, <1>1, <1>3 DEF DeliverablesTypes
<1>7. \A u \in Tasks : Own(u)' \subseteq Own(u)
  BY <1>3, <1>5 DEF Own
<1>8. OwnFiles' /\ NamesUsed'
  <2>1. Listed' = Listed
    BY <1>1 DEF Listed
  <2> QED
    BY <1>0, <1>1, <1>7, <2>1 DEF Filed, OwnFiles, NamesUsed
<1>9. ErrorsKept'
  BY <1>0, <1>1, <1>3, <1>4, <1>5 DEF Filed, ErrorsKept
<1>10. \A u \in Tasks : Placed(run'[u])
  BY <1>0, <1>3, <1>5 DEF Filed, Placed
<1>11. Housed'
  <2>1. \A u \in Tasks : workspaces[u] \notin leftovers \cup {0} => u # t /\ run[u].at = "running"
    BY <1>0, <1>1 DEF Housed, WorkspaceIsOwn
  <2> QED
    BY <1>0, <1>1, <1>5, <2>1, HousedKeeps
<1>12. Approved'
  <2>1. \A k \in Exports : IF k \in Listed THEN artifacts'[k].status = artifacts[k].status
                           ELSE artifacts'[k].status \in {"none", "draft"}
    BY <1>1 DEF Listed
  <2> QED
    BY <1>0, <1>1, <2>1, ApprovedKeeps
<1> QED
  BY <1>6, <1>8, <1>9, <1>10, <1>11, <1>12 DEF DeliverablesInv, Filed

LEMMA CommitRunStep == ASSUME DeliverablesInv, NEW t \in Tasks, CommitRun(t) PROVE DeliverablesInv'
<1> DEFINE rows == run[t].rows
<1>0. DeliverablesTypes /\ Filed /\ Housed /\ Approved /\ run[t] \in RunType
  BY DEF DeliverablesInv, DeliverablesTypes
<1>1. /\ run[t].at \in {"stepped", "failed"} /\ run' = [run EXCEPT ![t] = NoRun]
      /\ artifacts' = [e \in Exports |-> IF e \in DOMAIN rows THEN rows[e] ELSE artifacts[e]]
      /\ UNCHANGED <<files, exported, lost, workbook, approvals, audited, req, workspaces, processes, calls, leftovers>>
  BY DEF CommitRun, fileVars, sandboxVars
<1>2. DOMAIN rows \subseteq Exports /\ \A e \in DOMAIN rows : rows[e] \in Version
  BY <1>0, RowFacts DEF RunType
<1>3. \A e \in DOMAIN rows : rows[e] \in Artifact /\ rows[e].status = "draft"
  BY <1>2 DEF Version, Artifact, ArtifactStatuses
<1>4. DOMAIN rows \cap Listed = {} /\ DOMAIN rows \subseteq files
  BY <1>0 DEF Filed, OwnFiles, Own
<1> HIDE DEF rows
<1>5. Listed' = Listed \cup DOMAIN rows
  BY <1>1, <1>2, <1>3 DEF Listed
<1>6. \A u \in Tasks : run'[u] = IF u = t THEN NoRun ELSE run[u]
  BY <1>0, <1>1 DEF DeliverablesTypes
<1>7. DeliverablesTypes'
  BY <1>0, <1>1, <1>3, NoRunFacts DEF DeliverablesTypes
<1>8. OwnFiles' /\ NamesUsed'
  <2>1. Own(t)' = {} /\ \A u \in Tasks : u # t => Own(u)' = Own(u) /\ Own(u) \cap DOMAIN rows = {}
    BY <1>0, <1>6, NoRunFacts DEF Own, Filed, OwnFiles, rows
  <2> QED
    BY <1>0, <1>1, <1>4, <1>5, <2>1 DEF Filed, OwnFiles, NamesUsed
<1>9. ErrorsKept' /\ \A u \in Tasks : Placed(run'[u])
  BY <1>0, <1>1, <1>6, NoRunFacts DEF Filed, ErrorsKept
<1>10. Housed'
  <2>1. \A u \in Tasks : workspaces[u] \notin leftovers \cup {0} => u # t /\ run[u].at = "running"
    BY <1>0, <1>1 DEF Housed, WorkspaceIsOwn
  <2> QED
    BY <1>0, <1>1, <1>6, <2>1, HousedKeeps
<1>11. Approved'
  <2>1. \A e \in Exports : IF e \in Listed THEN artifacts'[e].status = artifacts[e].status
                           ELSE artifacts'[e].status \in {"none", "draft"}
    BY <1>1, <1>3, <1>4 DEF Listed
  <2> QED
    BY <1>0, <1>1, <2>1, ApprovedKeeps
<1> QED
  BY <1>7, <1>8, <1>9, <1>10, <1>11 DEF DeliverablesInv, Filed

LEMMA RollBackRunStep == ASSUME DeliverablesInv, NEW t \in Tasks, RollBackRun(t) PROVE DeliverablesInv'
<1>0. DeliverablesTypes /\ Filed /\ Housed /\ Approved
  BY DEF DeliverablesInv
<1>1. /\ run' = [run EXCEPT ![t] = NoRun]
      /\ leftovers' = IF run[t].at = "running" THEN leftovers \cup {workspaces[t]} ELSE leftovers
      /\ UNCHANGED <<files, exported, lost, workbook, artifacts, approvals, audited, req, workspaces, processes, calls>>
  BY DEF RollBackRun, fileVars, rowVars
<1>2. DeliverablesTypes'
  BY <1>0, <1>1, NoRunFacts DEF DeliverablesTypes
<1>3. Filed'
  BY <1>0, <1>1, NoRunFacts, FiledKeeps
<1>4. \A u \in Tasks : workspaces[u] \notin leftovers' \cup {0} => u # t /\ run[u].at = "running"
  BY <1>0, <1>1 DEF Housed, WorkspaceIsOwn
<1>5. \A u \in Tasks : u # t => run'[u] = run[u]
  BY <1>0, <1>1 DEF DeliverablesTypes
<1>6. Housed'
  BY <1>0, <1>1, <1>4, <1>5, HousedKeeps
<1>7. \A e \in Exports : IF e \in Listed THEN artifacts'[e].status = artifacts[e].status
                         ELSE artifacts'[e].status \in {"none", "draft"}
  BY <1>1 DEF Listed
<1>8. Approved'
  BY <1>0, <1>1, <1>7, ApprovedKeeps
<1> QED
  BY <1>2, <1>3, <1>6, <1>8 DEF DeliverablesInv

-----------------------------------------------------------------------------

\* The sandbox is left: the directory goes or becomes a leftover, the program
\* may go.
LEMMA LeavesSandbox ==
    ASSUME DeliverablesInv, NEW t \in Tasks, run[t].at \in {"sandbox", "running"},
           NEW at \in {"verify", "stepped"}, Advance(t, at),
           NEW d, d = workspaces[t] \/ (d = calls + 1 /\ calls' = d), NEW removed, CleanUp(t, d, removed),
           calls' \in {calls, calls + 1}, calls' <= MaxCalls, processes' \subseteq processes,
           UNCHANGED <<files, exported, lost, workbook, artifacts, approvals, audited, req>>
    PROVE  DeliverablesInv'
<1> DEFINE x == [run[t] EXCEPT !.at = at]
           w == IF removed THEN 0 ELSE d
<1>0. DeliverablesTypes /\ Filed /\ Housed /\ Approved /\ run[t] \in RunType
  BY DEF DeliverablesInv, DeliverablesTypes
<1>1. /\ run' = [run EXCEPT ![t] = x] /\ workspaces' = [workspaces EXCEPT ![t] = w]
      /\ leftovers' = IF removed THEN leftovers ELSE leftovers \cup {d}
  BY DEF Advance, CleanUp
<1>2. /\ x \in RunType /\ x.rows = run[t].rows /\ x.passed = run[t].passed /\ x.file = run[t].file
      /\ x.at = at /\ run[t].file = 0
  BY <1>0 DEF RunType, Places, Filed, Placed
<1>3. Placed(x)
  BY <1>2 DEF Placed
<1> HIDE DEF x
<1>4. /\ calls \in Nat /\ calls' \in 0 .. MaxCalls /\ d \in 0 .. MaxCalls /\ d <= calls'
      /\ \A u \in Tasks : workspaces[u] \in Nat /\ workspaces[u] <= calls /\ workspaces[u] <= calls'
      /\ \A p \in processes : p.directory \in Nat /\ p.directory <= calls /\ p.directory <= calls'
  BY <1>0, DeliverableBounds DEF DeliverablesTypes, Housed
<1>5. /\ w \in 0 .. MaxCalls /\ w <= calls' /\ w \in leftovers' \cup {0}
      /\ leftovers' \subseteq 0 .. MaxCalls /\ leftovers \subseteq leftovers'
  BY <1>0, <1>1, <1>4, DeliverableBounds DEF DeliverablesTypes
<1>6. \A u \in Tasks : u # t /\ w # 0 => workspaces[u] # w
  BY <1>0, <1>4 DEF Housed
<1> HIDE DEF w
<1>7. DeliverablesTypes'
  <2>1. workspaces' \in [Tasks -> 0 .. MaxCalls]
    BY <1>0, <1>1, <1>5 DEF DeliverablesTypes
  <2>2. run' \in [Tasks -> RunType]
    BY <1>0, <1>1, <1>2 DEF DeliverablesTypes
  <2> QED
    BY <1>0, <1>4, <1>5, <2>1, <2>2 DEF DeliverablesTypes
<1>8. Filed'
  BY <1>0, <1>1, <1>2, <1>3, FiledKeeps
<1>9. /\ \A u \in Tasks : workspaces'[u] = IF u = t THEN w ELSE workspaces[u]
      /\ \A u \in Tasks : u # t => run'[u] = run[u]
  BY <1>0, <1>1 DEF DeliverablesTypes
<1>10. Housed'
  <2>1. WorkspaceIsOwn'
    <3> SUFFICES ASSUME NEW u \in Tasks, workspaces'[u] \notin leftovers' \cup {0}
                 PROVE  /\ run'[u].at = "running"
                        /\ \A p \in processes' : p.directory = workspaces'[u] => p.program = run'[u].program
      BY DEF WorkspaceIsOwn
    <3>1. u # t /\ workspaces'[u] = workspaces[u] /\ run'[u] = run[u]
      BY <1>5, <1>9
    <3> QED
      BY <1>0, <1>5, <3>1 DEF Housed, WorkspaceIsOwn
  <2>2. \A u \in Tasks : workspaces'[u] <= calls'
    BY <1>4, <1>5, <1>9
  <2>3. \A u, v \in Tasks : workspaces'[u] # 0 /\ workspaces'[u] = workspaces'[v] => u = v
    BY <1>0, <1>6, <1>9 DEF Housed
  <2>4. \A p \in processes' : p.directory <= calls'
    BY <1>4
  <2> QED
    BY <2>1, <2>2, <2>3, <2>4 DEF Housed
<1>11. Approved'
  <2>1. \A e \in Exports : IF e \in Listed THEN artifacts'[e].status = artifacts[e].status
                           ELSE artifacts'[e].status \in {"none", "draft"}
    BY DEF Listed
  <2> QED
    BY <1>0, <2>1, ApprovedKeeps
<1> QED
  BY <1>7, <1>8, <1>10, <1>11 DEF DeliverablesInv

LEMMA SandboxEndsStep ==
    ASSUME DeliverablesInv, NEW t \in Tasks, NEW removed \in BOOLEAN,
           \/ SandboxRefused(t, removed) \/ SetUpFails(t, removed)
           \/ CodeEnds(t, removed) \/ CodeTimesOut(t, removed)
    PROVE  DeliverablesInv'
<1>0. DeliverablesTypes
  BY DEF DeliverablesInv
<1>1. calls \in Nat /\ calls <= MaxCalls /\ MaxCalls \in Nat
  BY <1>0, DeliverableBounds DEF DeliverablesTypes
<1>2. PICK d : d = Directory(t)
  OBVIOUS
<1>3. CASE SandboxRefused(t, removed) \/ SetUpFails(t, removed)
  <2>1. PICK at \in {"verify", "stepped"} :
          /\ Advance(t, at) /\ run[t].at = "sandbox" /\ CleanUp(t, Directory(t), removed)
          /\ calls' = calls + 1 /\ calls < MaxCalls /\ processes' = processes
          /\ UNCHANGED <<files, exported, lost, workbook, artifacts, approvals, audited, req>>
    BY <1>3 DEF SandboxRefused, SetUpFails, fileVars, rowVars
  <2>2. d = workspaces[t] \/ (d = calls + 1 /\ calls' = d)
    BY <1>2, <2>1 DEF Directory
  <2>3. calls' <= MaxCalls /\ calls' \in {calls, calls + 1}
    BY <1>1, <2>1
  <2> QED
    BY <1>2, <2>1, <2>2, <2>3, LeavesSandbox
<1>4. CASE CodeEnds(t, removed) \/ CodeTimesOut(t, removed)
  <2>1. /\ Advance(t, "verify") /\ run[t].at = "running" /\ CleanUp(t, workspaces[t], removed)
        /\ calls' = calls /\ processes' \subseteq processes
        /\ UNCHANGED <<files, exported, lost, workbook, artifacts, approvals, audited, req>>
    BY <1>4 DEF CodeEnds, CodeTimesOut, fileVars, rowVars
  <2>2. calls' <= MaxCalls /\ calls' \in {calls, calls + 1}
    BY <1>1, <2>1
  <2> QED
    BY <2>1, <2>2, LeavesSandbox
<1> QED
  BY <1>3, <1>4

LEMMA LeftoverEndsStep == ASSUME DeliverablesInv, NEW p \in processes, LeftoverEnds(p) PROVE DeliverablesInv'
<1>0. DeliverablesTypes /\ Filed /\ Housed /\ Approved
  BY DEF DeliverablesInv
<1>1. /\ processes' = processes \ {p}
      /\ UNCHANGED <<files, exported, lost, workbook, artifacts, approvals, audited, run, req, workspaces, calls, leftovers>>
  BY DEF LeftoverEnds, fileVars, rowVars
<1>2. DeliverablesTypes'
  BY <1>0, <1>1 DEF DeliverablesTypes
<1>3. Filed'
  BY <1>0, <1>1, FiledStays
<1>4. \A u \in Tasks : workspaces[u] \notin leftovers \cup {0} => run[u].at = "running"
  BY <1>0 DEF Housed, WorkspaceIsOwn
<1>5. Housed'
  BY <1>0, <1>1, <1>4, HousedKeeps
<1>6. Approved'
  <2>1. \A e \in Exports : IF e \in Listed THEN artifacts'[e].status = artifacts[e].status
                           ELSE artifacts'[e].status \in {"none", "draft"}
    BY <1>1 DEF Listed
  <2> QED
    BY <1>0, <1>1, <2>1, ApprovedKeeps
<1> QED
  BY <1>2, <1>3, <1>5, <1>6 DEF DeliverablesInv

LEMMA StartCodeStep == ASSUME DeliverablesInv, NEW t \in Tasks, StartCode(t) PROVE DeliverablesInv'
<1> DEFINE n == calls + 1
           dir == Directory(t)
           new == [program |-> n, directory |-> dir]
           x == [run[t] EXCEPT !.at = "running", !.program = n]
<1>0. DeliverablesTypes /\ Filed /\ Housed /\ Approved /\ run[t] \in RunType
  BY DEF DeliverablesInv, DeliverablesTypes
<1>1. /\ run[t].at = "sandbox" /\ n <= MaxCalls /\ run' = [run EXCEPT ![t] = x]
      /\ workspaces' = [workspaces EXCEPT ![t] = dir] /\ processes' = processes \cup {new}
      /\ calls' = n
      /\ UNCHANGED <<files, exported, lost, workbook, artifacts, approvals, audited, req, leftovers>>
  BY DEF StartCode, fileVars, rowVars
<1>2. n \in 1 .. MaxCalls /\ dir \in 1 .. MaxCalls /\ dir <= n /\ n # calls
  BY <1>0, <1>1, DeliverableBounds DEF DeliverablesTypes, Housed, Directory
<1>3. /\ x \in RunType /\ x.rows = run[t].rows /\ x.passed = run[t].passed /\ x.file = run[t].file
      /\ x.at = "running" /\ x.program = n /\ run[t].file = 0
  <2>1. n \in 0 .. MaxCalls
    BY <1>2, DeliverableBounds
  <2>2. run[t].file = 0
    BY <1>0, <1>1 DEF Filed, Placed
  <2> HIDE DEF n
  <2> QED
    BY <1>0, <2>1, <2>2 DEF RunType, Places
<1>4. Placed(x)
  BY <1>3 DEF Placed
<1>5. new.program = n /\ new.directory = dir
      /\ new \in [program: 1 .. MaxCalls, directory: 1 .. MaxCalls]
  BY <1>2
<1> HIDE DEF x, new
<1>6. DeliverablesTypes'
  BY <1>0, <1>1, <1>2, <1>3, <1>5 DEF DeliverablesTypes
<1>7. Filed'
  BY <1>0, <1>1, <1>3, <1>4, FiledKeeps
<1>8. /\ \A u \in Tasks : workspaces'[u] = IF u = t THEN dir ELSE workspaces[u]
      /\ \A u \in Tasks : run'[u] = IF u = t THEN x ELSE run[u]
  BY <1>0, <1>1 DEF DeliverablesTypes
<1>9. /\ \A u \in Tasks : workspaces[u] \in Nat /\ workspaces[u] <= calls
      /\ \A p \in processes : p.directory \in Nat \ {0} /\ p.directory <= calls
      /\ calls \in Nat
  BY <1>0 DEF DeliverablesTypes, Housed
<1>10. \A u \in Tasks : workspaces'[u] <= n
  BY <1>2, <1>8, <1>9
<1>11. \A u, v \in Tasks : workspaces'[u] # 0 /\ workspaces'[u] = workspaces'[v] => u = v
  <2>1. \A u \in Tasks : u # t => workspaces[u] # dir
    BY <1>0, <1>9 DEF Housed, Directory
  <2> QED
    BY <1>0, <1>8, <2>1 DEF Housed
<1>12. \A p \in processes' : p.directory <= n
  BY <1>1, <1>2, <1>5, <1>9
<1>13. WorkspaceIsOwn'
  <2> SUFFICES ASSUME NEW u \in Tasks, workspaces'[u] \notin leftovers \cup {0}
               PROVE  /\ run'[u].at = "running"
                      /\ \A p \in processes' : p.directory = workspaces'[u] => p.program = run'[u].program
    BY <1>1 DEF WorkspaceIsOwn
  <2>1. CASE u = t
    <3>1. dir \notin leftovers \cup {0}
      BY <1>8, <2>1
    <3>2. workspaces[t] \notin leftovers \cup {0} => run[t].at = "running"
      BY <1>0 DEF Housed, WorkspaceIsOwn
    <3>3. dir = n
      BY <1>1, <3>1, <3>2 DEF Directory
    <3> QED
      BY <1>1, <1>3, <1>5, <1>8, <1>9, <2>1, <3>3
  <2>2. CASE u # t
    <3>1. new.directory # workspaces'[u]
      BY <1>2, <1>5, <1>8, <1>11, <2>2
    <3> QED
      BY <1>0, <1>1, <1>8, <2>2, <3>1 DEF Housed, WorkspaceIsOwn
  <2> QED
    BY <2>1, <2>2
<1>14. Housed'
  BY <1>1, <1>10, <1>11, <1>12, <1>13 DEF Housed
<1>15. Approved'
  <2>1. \A e \in Exports : IF e \in Listed THEN artifacts'[e].status = artifacts[e].status
                           ELSE artifacts'[e].status \in {"none", "draft"}
    BY <1>1 DEF Listed
  <2> QED
    BY <1>0, <1>1, <2>1, ApprovedKeeps
<1> QED
  BY <1>6, <1>7, <1>14, <1>15 DEF DeliverablesInv

-----------------------------------------------------------------------------

\* A step of an approval request.
LEMMA RequestStep ==
    ASSUME DeliverablesInv, NEW h \in Approvers, NEW y \in ReqType, req' = [req EXCEPT ![h] = y],
           UNCHANGED <<fileVars, run, sandboxVars>>,
           artifacts' \in [Exports -> Artifact], Listed' = Listed,
           approvals' \in [Exports -> 0 .. MaxApprovals], audited' \in [Exports -> 0 .. MaxApprovals],
           Approved'
    PROVE  DeliverablesInv'
<1>0. DeliverablesTypes /\ Filed /\ Housed
  BY DEF DeliverablesInv
<1>1. UNCHANGED <<files, exported, lost, workbook, run, workspaces, processes, calls, leftovers>>
  BY DEF fileVars, rowVars, sandboxVars
<1>2. DeliverablesTypes'
  BY <1>0, <1>1 DEF DeliverablesTypes
<1>3. Filed'
  <2>1. NamesUsed' /\ ErrorsKept' /\ \A u \in Tasks : Placed(run'[u])
    BY <1>0, <1>1 DEF Filed, NamesUsed, ErrorsKept
  <2>2. \A u \in Tasks : Own(u)' = Own(u)
    BY <1>1 DEF Own
  <2>3. OwnFiles'
    BY <1>0, <1>1, <2>2 DEF Filed, OwnFiles
  <2> QED
    BY <2>1, <2>3 DEF Filed
<1>4. \A u \in Tasks : workspaces[u] \notin leftovers \cup {0} => run[u].at = "running"
  BY <1>0 DEF Housed, WorkspaceIsOwn
<1>5. Housed'
  BY <1>0, <1>1, <1>4, HousedKeeps
<1> QED
  BY <1>2, <1>3, <1>5 DEF DeliverablesInv

LEMMA Fewer ==
    ASSUME NEW a \in Nat, NEW n \in Nat, NEW T, IsFiniteSet(T), NEW S, S \subseteq T,
           a + Cardinality(T) <= n
    PROVE  a + Cardinality(S) <= n
<1>1. Cardinality(S) <= Cardinality(T) /\ Cardinality(S) \in Nat /\ Cardinality(T) \in Nat
  BY FS_Subset, FS_CardinalityType
<1> QED
  BY <1>1

LEMMA InFlightFacts ==
    ASSUME NEW e
    PROVE  /\ IsFiniteSet(InFlight(e)) /\ Cardinality(InFlight(e)) \in Nat
           /\ Cardinality(InFlight(e)) <= Cardinality(Approvers) /\ Cardinality(Approvers) \in Nat
<1>1. InFlight(e) \subseteq Approvers /\ IsFiniteSet(Approvers)
  BY DeliverableBounds DEF InFlight
<1> QED
  BY <1>1, FS_Subset, FS_CardinalityType

\* ApprovalsAgree, by the set of the requests in flight.
LEMMA AgreeIs ==
    ApprovalsAgree <=>
      \A e \in Exports : /\ artifacts[e].status = "approved" <=> approvals[e] > 0
                         /\ approvals[e] = audited[e]
                         /\ approvals[e] + Cardinality(InFlight(e)) <= Cardinality(Approvers)
BY DEF ApprovalsAgree, InFlight

\* As long as nothing is approved, the requests in flight may come and go.
LEMMA ApprovedStays ==
    ASSUME DeliverablesTypes, Approved, UNCHANGED <<artifacts, approvals, audited>>,
           \A e \in Exports : InFlight(e)' \subseteq InFlight(e) \/ artifacts[e].status # "approved",
           \A g \in Approvers : req'[g].at # "idle" => req'[g].file \in Listed
    PROVE  Approved' /\ Listed' = Listed
<1>1. Listed' = Listed
  BY DEF Listed
<1>2. ASSUME NEW e \in Exports
      PROVE  approvals[e] + Cardinality(InFlight(e)') <= Cardinality(Approvers)
  <2>1. /\ IsFiniteSet(Approvers) /\ approvals[e] \in Nat /\ InFlight(e)' \subseteq Approvers
        /\ Cardinality(Approvers) \in Nat
    BY DeliverableBounds, FS_CardinalityType DEF InFlight, DeliverablesTypes
  <2>2. /\ artifacts[e].status = "approved" <=> approvals[e] > 0
        /\ approvals[e] + Cardinality(InFlight(e)) <= Cardinality(Approvers)
    BY AgreeIs DEF Approved
  <2>3. CASE InFlight(e)' \subseteq InFlight(e)
    BY <2>1, <2>2, <2>3, InFlightFacts, Fewer
  <2>4. CASE artifacts[e].status # "approved"
    <3>1. approvals[e] = 0
      BY <2>1, <2>2, <2>4
    <3>2. 0 + Cardinality(InFlight(e)') <= Cardinality(Approvers)
      <4>1. 0 + Cardinality(Approvers) <= Cardinality(Approvers)
        BY <2>1
      <4> QED
        BY <2>1, <4>1, Fewer
    <3> QED
      BY <3>1, <3>2
  <2> QED
    BY <2>3, <2>4
<1>3. ApprovalsAgree'
  BY <1>2, AgreeIs DEF Approved, ApprovalsAgree, InFlight
<1> QED
  BY <1>1, <1>3 DEF Approved

LEMMA ReqFacts ==
    ASSUME DeliverablesTypes, NEW h \in Approvers, NEW y, req' = [req EXCEPT ![h] = y]
    PROVE  \A g \in Approvers : req'[g] = IF g = h THEN y ELSE req[g]
BY DEF DeliverablesTypes

LEMMA ReadArtifactStep ==
    ASSUME DeliverablesInv, NEW h \in Approvers, NEW e \in Exports, ReadArtifact(h, e)
    PROVE  DeliverablesInv'
<1> DEFINE y == [at |-> "read", file |-> e]
<1>0. DeliverablesTypes /\ Approved
  BY DEF DeliverablesInv
<1>1. /\ req[h].at = "idle" /\ e \in Listed /\ artifacts[e].status # "approved"
      /\ req' = [req EXCEPT ![h] = y]
      /\ UNCHANGED <<fileVars, artifacts, approvals, audited, run, sandboxVars>>
  BY DEF ReadArtifact, rowVars
<1>2. y \in ReqType /\ y.at = "read" /\ y.file = e
  BY DEF ReqType
<1> HIDE DEF y
<1>3. \A g \in Approvers : req'[g] = IF g = h THEN y ELSE req[g]
  BY <1>0, <1>1, ReqFacts, Zenon
<1>4. \A k \in Exports : InFlight(k)' \subseteq InFlight(k) \/ artifacts[k].status # "approved"
  BY <1>1, <1>2, <1>3 DEF InFlight
<1>5. \A g \in Approvers : req'[g].at # "idle" => req'[g].file \in Listed
  BY <1>0, <1>1, <1>2, <1>3 DEF Approved
<1>6. Approved' /\ Listed' = Listed
  BY <1>0, <1>1, <1>4, <1>5, ApprovedStays
<1> QED
  BY <1>0, <1>1, <1>2, <1>6, RequestStep DEF DeliverablesTypes

LEMMA FlushApprovalStep ==
    ASSUME DeliverablesInv, NEW h \in Approvers, FlushApproval(h)
    PROVE  DeliverablesInv'
<1> DEFINE y == [req[h] EXCEPT !.at = "flushed"]
<1>0. DeliverablesTypes /\ Approved /\ req[h] \in ReqType
  BY DEF DeliverablesInv, DeliverablesTypes
<1>1. /\ req[h].at = "read" /\ req' = [req EXCEPT ![h] = y]
      /\ UNCHANGED <<fileVars, artifacts, approvals, audited, run, sandboxVars>>
  BY DEF FlushApproval, rowVars
<1>2. y \in ReqType /\ y.at = "flushed" /\ y.file = req[h].file
  BY <1>0 DEF ReqType
<1> HIDE DEF y
<1>3. \A g \in Approvers : req'[g] = IF g = h THEN y ELSE req[g]
  BY <1>0, <1>1, ReqFacts, Zenon
<1>4. \A k \in Exports : InFlight(k)' \subseteq InFlight(k) \/ artifacts[k].status # "approved"
  BY <1>1, <1>2, <1>3 DEF InFlight
<1>5. \A g \in Approvers : req'[g].at # "idle" => req'[g].file \in Listed
  BY <1>0, <1>1, <1>2, <1>3 DEF Approved
<1>6. Approved' /\ Listed' = Listed
  BY <1>0, <1>1, <1>4, <1>5, ApprovedStays
<1> QED
  BY <1>0, <1>1, <1>2, <1>6, RequestStep DEF DeliverablesTypes

LEMMA AbortApprovalStep ==
    ASSUME DeliverablesInv, NEW h \in Approvers, AbortApproval(h)
    PROVE  DeliverablesInv'
<1>0. DeliverablesTypes /\ Approved
  BY DEF DeliverablesInv
<1>1. /\ req' = [req EXCEPT ![h] = NoReq]
      /\ UNCHANGED <<fileVars, artifacts, approvals, audited, run, sandboxVars>>
  BY DEF AbortApproval, rowVars
<1>2. NoReq \in ReqType /\ NoReq.at = "idle"
  BY DEF ReqType, NoReq
<1>3. \A g \in Approvers : req'[g] = IF g = h THEN NoReq ELSE req[g]
  BY <1>0, <1>1, ReqFacts, Zenon
<1>4. \A k \in Exports : InFlight(k)' \subseteq InFlight(k) \/ artifacts[k].status # "approved"
  BY <1>1, <1>2, <1>3 DEF InFlight
<1>5. \A g \in Approvers : req'[g].at # "idle" => req'[g].file \in Listed
  BY <1>0, <1>1, <1>2, <1>3 DEF Approved
<1>6. Approved' /\ Listed' = Listed
  BY <1>0, <1>1, <1>4, <1>5, ApprovedStays
<1> QED
  BY <1>0, <1>1, <1>2, <1>6, RequestStep DEF DeliverablesTypes

\* The committed artifact becomes approved, and its request is no longer in
\* flight when its approval counts.
LEMMA ApprovalCommits ==
    ASSUME DeliverablesInv, NEW h \in Approvers, NEW e, e = req[h].file, CommitApproval(h)
    PROVE  DeliverablesInv'
<1>0. DeliverablesTypes /\ Approved /\ req[h] \in ReqType
  BY DEF DeliverablesInv, DeliverablesTypes
<1>1. /\ req[h].at = "flushed" /\ req' = [req EXCEPT ![h] = NoReq]
      /\ artifacts' = [artifacts EXCEPT ![e].status = "approved"]
      /\ approvals' = [approvals EXCEPT ![e] = CountUp(@)]
      /\ audited' = [audited EXCEPT ![e] = CountUp(@)]
      /\ UNCHANGED <<fileVars, run, sandboxVars>>
  BY DEF CommitApproval
<1>2. NoReq \in ReqType /\ NoReq.at = "idle"
  BY DEF ReqType, NoReq
<1>3. \A g \in Approvers : req'[g] = IF g = h THEN NoReq ELSE req[g]
  BY <1>0, <1>1, ReqFacts, Zenon
<1>4. e \in Exports /\ e \in Listed /\ h \in InFlight(e)
  BY <1>0, <1>1 DEF Approved, Listed, InFlight
<1>5. \A n \in 0 .. MaxApprovals : CountUp(n) \in 0 .. MaxApprovals /\ CountUp(n) > 0 /\ CountUp(n) <= n + 1
  BY DeliverableBounds DEF CountUp
<1>6. /\ artifacts' \in [Exports -> Artifact]
      /\ \A k \in Exports : artifacts'[k].status = IF k = e THEN "approved" ELSE artifacts[k].status
  BY <1>0, <1>1, <1>4 DEF DeliverablesTypes, Artifact, ArtifactStatuses
<1>7. /\ approvals' \in [Exports -> 0 .. MaxApprovals] /\ audited' \in [Exports -> 0 .. MaxApprovals]
      /\ approvals'[e] = CountUp(approvals[e]) /\ audited'[e] = CountUp(audited[e])
      /\ \A k \in Exports : k # e => approvals'[k] = approvals[k] /\ audited'[k] = audited[k]
  BY <1>0, <1>1, <1>4, <1>5 DEF DeliverablesTypes
<1>8. Listed' = Listed
  BY <1>4, <1>6 DEF Listed
<1>9. /\ InFlight(e)' = InFlight(e) \ {h}
      /\ \A k \in Exports : k # e => InFlight(k)' = InFlight(k)
  <2>1. \A g \in Approvers, k \in Exports :
          (req'[g].at # "idle" /\ req'[g].file = k)
            <=> (req[g].at # "idle" /\ req[g].file = k /\ g # h)
    BY <1>2, <1>3
  <2>2. \A k \in Exports : InFlight(k)' = InFlight(k) \ {h}
    BY <2>1 DEF InFlight
  <2>3. \A k \in Exports : k # e => h \notin InFlight(k)
    BY DEF InFlight
  <2> QED
    BY <1>4, <2>2, <2>3
<1>10. ApprovalsAgree'
  <2> SUFFICES ASSUME NEW k \in Exports
               PROVE  /\ artifacts'[k].status = "approved" <=> approvals'[k] > 0
                      /\ approvals'[k] = audited'[k]
                      /\ approvals'[k] + Cardinality(InFlight(k)') <= Cardinality(Approvers)
    BY DEF ApprovalsAgree, InFlight
  <2>1. /\ artifacts[k].status = "approved" <=> approvals[k] > 0
        /\ approvals[k] = audited[k] /\ approvals[k] \in 0 .. MaxApprovals
        /\ approvals[k] + Cardinality(InFlight(k)) <= Cardinality(Approvers)
    BY <1>0, AgreeIs DEF Approved, DeliverablesTypes
  <2>2. CASE k # e
    <3>1. /\ artifacts'[k].status = artifacts[k].status /\ approvals'[k] = approvals[k]
          /\ audited'[k] = audited[k]
      BY <1>6, <1>7, <2>2
    <3>2. Cardinality(InFlight(k)') = Cardinality(InFlight(k))
      BY <1>9, <2>2
    <3> QED
      BY <2>1, <3>1, <3>2
  <2>3. CASE k = e
    <3>1. Cardinality(InFlight(e) \ {h}) = Cardinality(InFlight(e)) - 1
      BY <1>4, InFlightFacts, FS_RemoveElement
    <3>2. /\ Cardinality(InFlight(e)) \in Nat /\ Cardinality(Approvers) \in Nat
          /\ approvals'[e] \in Nat /\ approvals'[e] > 0 /\ approvals'[e] <= approvals[e] + 1
      BY <1>5, <1>7, <2>1, <2>3, InFlightFacts
    <3>3. approvals'[e] + (Cardinality(InFlight(e)) - 1) <= Cardinality(Approvers)
      BY <2>1, <2>3, <3>2
    <3>4. approvals'[e] = audited'[e] /\ artifacts'[e].status = "approved"
      BY <1>4, <1>6, <1>7, <2>1, <2>3
    <3>5. Cardinality(InFlight(e)') = Cardinality(InFlight(e)) - 1
      BY <1>9, <3>1
    <3>6. approvals'[e] + Cardinality(InFlight(e)') <= Cardinality(Approvers)
      BY <3>3, <3>5
    <3>7. artifacts'[e].status = "approved" <=> approvals'[e] > 0
      BY <3>2, <3>4
    <3> QED
      BY <2>3, <3>4, <3>6, <3>7
  <2> QED
    BY <2>2, <2>3
<1>11. Approved'
  BY <1>0, <1>2, <1>3, <1>8, <1>10 DEF Approved
<1> QED
  BY <1>1, <1>2, <1>6, <1>7, <1>8, <1>11, RequestStep

LEMMA CommitApprovalStep ==
    ASSUME DeliverablesInv, NEW h \in Approvers, CommitApproval(h)
    PROVE  DeliverablesInv'
<1>1. PICK e : e = req[h].file
  OBVIOUS
<1> QED
  BY <1>1, ApprovalCommits

-----------------------------------------------------------------------------

\* A new container: nothing is open any more, and what was on disk is lost.
LEMMA LoseFilesStep == ASSUME DeliverablesInv, LoseFiles PROVE DeliverablesInv'
<1>0. DeliverablesTypes /\ Filed /\ Housed /\ Approved
  BY DEF DeliverablesInv
<1>1. /\ files' = {} /\ lost' = lost \cup files
      /\ run' = [t \in Tasks |-> NoRun] /\ req' = [h \in Approvers |-> NoReq]
      /\ workspaces' = [t \in Tasks |-> 0] /\ processes' \subseteq processes
      /\ UNCHANGED <<exported, workbook, artifacts, approvals, audited, calls, leftovers>>
  BY DEF LoseFiles, rowVars
<1>2. /\ \A t \in Tasks : run'[t] = NoRun /\ workspaces'[t] = 0
      /\ \A h \in Approvers : req'[h].at = "idle"
      /\ NoReq \in ReqType
  BY <1>1 DEF NoReq, ReqType
<1>3. DeliverablesTypes'
  BY <1>0, <1>1, <1>2, NoRunFacts, DeliverableBounds DEF DeliverablesTypes
<1>4. Filed'
  <2>1. Listed' = Listed /\ \A t \in Tasks : Own(t)' = {}
    BY <1>1, <1>2, NoRunFacts DEF Listed, Own
  <2>2. OwnFiles' /\ NamesUsed'
    BY <1>0, <1>1, <2>1 DEF Filed, OwnFiles, NamesUsed
  <2>3. ErrorsKept' /\ \A t \in Tasks : Placed(run'[t])
    BY <1>2, NoRunFacts DEF ErrorsKept
  <2> QED
    BY <2>2, <2>3 DEF Filed
<1>5. Housed'
  BY <1>0, <1>1, <1>2, HousedKeeps
<1>6. Approved'
  <2>1. \A e \in Exports : InFlight(e)' \subseteq InFlight(e) \/ artifacts[e].status # "approved"
    BY <1>2 DEF InFlight
  <2> QED
    BY <1>0, <1>1, <1>2, <2>1, ApprovedStays
<1> QED
  BY <1>3, <1>4, <1>5, <1>6 DEF DeliverablesInv

-----------------------------------------------------------------------------

LEMMA DeliverablesInitStep == Init => DeliverablesInv
<1> SUFFICES ASSUME Init PROVE DeliverablesInv
  OBVIOUS
<1>1. /\ files = {} /\ exported = 0 /\ lost = {} /\ artifacts = [e \in Exports |-> NoArtifact] /\ processes = {} /\ calls = 0
      /\ workbook = [e \in Exports |-> {}] /\ run = [t \in Tasks |-> NoRun] /\ leftovers = {}
      /\ req = [h \in Approvers |-> NoReq] /\ workspaces = [t \in Tasks |-> 0]
      /\ approvals = [e \in Exports |-> 0] /\ audited = [e \in Exports |-> 0]
  BY DEF Init
<1>2. NoArtifact \in Artifact /\ NoArtifact.status = "none" /\ NoReq \in ReqType /\ NoReq.at = "idle"
  BY DeliverableBounds DEF NoArtifact, Artifact, ArtifactStatuses, NoReq, ReqType
<1>3. DeliverablesTypes
  BY <1>1, <1>2, NoRunFacts, DeliverableBounds DEF DeliverablesTypes
<1>4. Listed = {} /\ \A t \in Tasks : Own(t) = {}
  BY <1>1, <1>2, NoRunFacts DEF Listed, Own
<1>5. NamesUsed
  BY <1>1 DEF NamesUsed
<1>6. Filed
  BY <1>1, <1>4, <1>5, NoRunFacts DEF Filed, OwnFiles, ErrorsKept
<1>7. Housed
  BY <1>1 DEF Housed, WorkspaceIsOwn
<1>8. \A e \in Exports : InFlight(e) = {}
  BY <1>1, <1>2 DEF InFlight
<1>9. Approved
  <2>1. ApprovalsAgree
    <3>1. Cardinality({}) = 0 /\ Cardinality(Approvers) \in Nat
      BY FS_EmptySet, FS_CardinalityType, DeliverableBounds
    <3>2. ASSUME NEW e \in Exports
          PROVE  /\ artifacts[e].status = "approved" <=> approvals[e] > 0
                 /\ approvals[e] = audited[e]
                 /\ approvals[e] + Cardinality(InFlight(e)) <= Cardinality(Approvers)
      <4>1. artifacts[e] = NoArtifact /\ approvals[e] = 0 /\ audited[e] = 0
        BY <1>1
      <4>2. Cardinality(InFlight(e)) = 0
        BY <1>8, <3>1
      <4> QED
        BY <1>2, <3>1, <4>1, <4>2
    <3> QED
      BY <3>2, AgreeIs
  <2> QED
    BY <1>1, <1>2, <2>1 DEF Approved
<1> QED
  BY <1>3, <1>6, <1>7, <1>9 DEF DeliverablesInv

LEMMA DeliverablesStutter == ASSUME DeliverablesInv, UNCHANGED vars PROVE DeliverablesInv'
<1>1. UNCHANGED <<files, exported, lost, workbook, artifacts, approvals, audited, run, req, workspaces, processes,
                  calls, leftovers>>
  BY DEF vars, fileVars, rowVars, sandboxVars
<1>2. DeliverablesTypes'
  BY <1>1 DEF DeliverablesInv, DeliverablesTypes
<1>3. Filed'
  BY <1>1, FiledStays DEF DeliverablesInv
<1>4. Housed'
  BY <1>1 DEF DeliverablesInv, Housed, WorkspaceIsOwn
<1>5. Approved'
  BY <1>1 DEF DeliverablesInv, Approved, ApprovalsAgree, Listed
<1> QED
  BY <1>2, <1>3, <1>4, <1>5 DEF DeliverablesInv

LEMMA DeliverablesNextStep == DeliverablesInv /\ [Next]_vars => DeliverablesInv'
<1> SUFFICES ASSUME DeliverablesInv, [Next]_vars PROVE DeliverablesInv'
  OBVIOUS
<1>1. CASE UNCHANGED vars
  BY <1>1, DeliverablesStutter
<1>2. ASSUME NEW t \in Tasks,
             \/ \E tool \in UsedTools : StartTool(t, tool)
             \/ \E errors \in SUBSET Errors : SaveDocument(t, errors)
             \/ \E blocks \in Blocks : InsertRows(t, blocks)
             \/ ToolRaises(t) \/ VerifyRaises(t)
             \/ \E verdict \in {"PASS", "FAILED"} : VerifyStep(t, verdict)
             \/ CommitRun(t) \/ RollBackRun(t)
      PROVE  DeliverablesInv'
  BY <1>2, StartToolStep, SaveDocumentStep, InsertRowsStep, RaisesStep, VerifyStepStep,
     CommitRunStep, RollBackRunStep
<1>3. ASSUME NEW t \in Tasks, StartCode(t) PROVE DeliverablesInv'
  BY <1>3, StartCodeStep
<1>4. ASSUME NEW t \in Tasks, NEW removed \in BOOLEAN,
             \/ SandboxRefused(t, removed) \/ SetUpFails(t, removed)
             \/ CodeEnds(t, removed) \/ CodeTimesOut(t, removed)
      PROVE  DeliverablesInv'
  BY <1>4, SandboxEndsStep
<1>5. ASSUME NEW p \in processes, LeftoverEnds(p) PROVE DeliverablesInv'
  BY <1>5, LeftoverEndsStep
<1>6. ASSUME NEW h \in Approvers,
             \/ \E e \in Exports : ReadArtifact(h, e)
             \/ FlushApproval(h) \/ CommitApproval(h) \/ AbortApproval(h)
      PROVE  DeliverablesInv'
  BY <1>6, ReadArtifactStep, FlushApprovalStep, CommitApprovalStep, AbortApprovalStep
<1>7. ASSUME LoseFiles PROVE DeliverablesInv'
  BY <1>7, LoseFilesStep
<1> QED
  BY <1>1, <1>2, <1>3, <1>4, <1>5, <1>6, <1>7 DEF Next

-----------------------------------------------------------------------------

\* The inductive invariant holds in every reachable state.
THEOREM DeliverablesHold == Spec => []DeliverablesInv
<1>1. Init => DeliverablesInv
  BY DeliverablesInitStep
<1>2. DeliverablesInv /\ [Next]_vars => DeliverablesInv'
  BY DeliverablesNextStep
<1> QED
  BY <1>1, <1>2, PTL DEF Spec

\* Whatever is rolled back or tried again, an artifact that is listed has its
\* file, unless that went with its container, and the rows of an open run name
\* files that are there and not listed yet (sandbox.py:133-177,
\* artifact_api.py:47-59, docker-compose.yml:29).
THEOREM ListedHasFile == Spec => []ListedIsDownloadable
<1>1. DeliverablesInv => ListedIsDownloadable
  BY DEF DeliverablesInv, Filed, OwnFiles, Own, Download, ListedIsDownloadable
<1> QED
  BY <1>1, DeliverablesHold, PTL

\* Status, approvals and audit entries agree for any number of overlapping
\* requests, and there are no more approvals than such requests
\* (artifact_api.py:179-209).
THEOREM ApprovalsCounted == Spec => []ApprovalsAgree
<1>1. DeliverablesInv => ApprovalsAgree
  BY DEF DeliverablesInv, Approved
<1> QED
  BY <1>1, DeliverablesHold, PTL

\* The errors of a recalculation reach the verdict (sandbox.py:163-169,
\* 285-288, agent_loop.py:407-412).
THEOREM PassedWasClean == Spec => []PassedIsRecalculated
<1>1. DeliverablesInv => PassedIsRecalculated
  BY DEF DeliverablesInv, Filed, ErrorsKept, PassedIsRecalculated
<1> QED
  BY <1>1, DeliverablesHold, PTL

\* A directory that is no leftover of a failed removal, a failed set-up or a
\* dead worker is there only while its program runs, alone, for any number of
\* tasks and programs that were left running (sandbox.py:60-84).
THEOREM WorkspaceOwned == Spec => []WorkspaceIsOwn
<1>1. DeliverablesInv => WorkspaceIsOwn
  BY DEF DeliverablesInv, Housed
<1> QED
  BY <1>1, DeliverablesHold, PTL
=============================================================================
