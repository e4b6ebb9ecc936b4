--------------------------- MODULE MCAgentWorker ---------------------------
(***************************************************************************)
(* Instances of AgentWorker for TLC.  The plans are chosen for what their  *)
(* tools do: model_invoke is LOW, docx_create MEDIUM, code_exec HIGH (asks *)
(* a human, then inserts a second approval when it runs), fs_write MEDIUM  *)
(* but run as code_exec (inserts an approval nobody asked for), rag_ingest *)
(* is permitted to an admin and has no implementation, vision_analyze      *)
(* never reaches the gateway.                                              *)
(***************************************************************************)
EXTENDS AgentWorker, TLC

\* The owner of every task.
AdminOwns == [t \in Tasks |-> "admin"]

\* A step that leaves an approval behind before one that waits for its own: the two
\* can be decided at once, and each may queue a job.  A step that fails before the
\* one that waits, so that it is taken up again when the task is resumed.
TwoAdminPlans == {<<"fs_write", "code_exec">>, <<"rag_ingest", "code_exec">>}

\* At most one step that waits for a human, and none before it that leaves an
\* approval behind; a plan the gateway rejects.
OneGate == {<<"code_exec", "docx_create">>, <<"vision_analyze", "code_exec">>,
            <<"controlled_egress">>, <<>>}

\* No human is needed.
OneExport == {<<"docx_create">>}

\* The first step leaves an approval behind, the second one waits for another.
ScriptThenGate == {<<"fs_write", "code_exec">>}

Symmetry == Permutations(Workers) \cup Permutations(Handlers)
============================================================================
