--------------------------- MODULE PolicyGateway ---------------------------
(***************************************************************************)
(* The decision functions of the Policy Gateway                            *)
(* (src/backend/src/policy_gateway/gateway.py): the RBAC matrix, the risk  *)
(* classification, the validation of a whole execution context and the     *)
(* authorization of one action.  They read no state, so they are operators *)
(* here; the approval row that authorize inserts for a HIGH action is      *)
(* inserted by the module that owns the database (AgentWorker!Asked).      *)
(***************************************************************************)

Roles     == {"admin", "engineer", "analyst", "viewer"}
RiskTiers == {"LOW", "MEDIUM", "HIGH"}

\* The allowed_tools of ROLE_PERMISSIONS.
ViewerTools   == {"fs_read", "rag_search", "model_invoke"}
ExportTools   == {"docx_create", "xlsx_create", "pptx_create"}
AnalystTools  == ViewerTools \cup ExportTools \cup {"vision_analyze"}
EngineerTools == AnalystTools \cup {"fs_write", "code_exec"}
AdminTools    == EngineerTools \cup {"rag_ingest", "admin_classify", "mode_toggle"}

\* Every action the gateway has a name for, permitted to some role or not.
ToolNames == AdminTools \cup {"artifact_finalize", "controlled_egress"}

\* A role missing from the matrix gets the viewer's permissions.
AllowedTools(role) ==
    CASE role = "admin"    -> AdminTools
      [] role = "engineer" -> EngineerTools
      [] role = "analyst"  -> AnalystTools
      [] OTHER             -> ViewerTools

\* TOOL_RISK_MAP, by tier; whatever it does not list is MEDIUM.
HighRisk == {"code_exec", "artifact_finalize", "controlled_egress", "mode_toggle"}
LowRisk  == {"fs_read", "rag_search", "model_invoke", "vision_analyze"}

RiskOf(action) == IF action \in HighRisk THEN "HIGH"
                  ELSE IF action \in LowRisk THEN "LOW" ELSE "MEDIUM"

\* validate_context: every tool of the plan is permitted to the role, and the
\* controlled network is not asked for in Sovereign Mode.
ContextIsValid(role, tools, network, sovereign) ==
    /\ tools \subseteq AllowedTools(role)
    /\ ~(network = "controlled" /\ sovereign)

\* authorize, with the context of the task (its set of allowed tools):
\* a HIGH action is neither allowed nor denied, it awaits a human.
Authorize(role, action, context) ==
    IF action \notin AllowedTools(role) \/ action \notin context THEN "denied"
    ELSE IF RiskOf(action) = "HIGH" THEN "approval"
    ELSE "allowed"

\* The action a step's tool is executed as: file system tools are turned into a
\* generated script and run as code_exec (agent_loop.py, _execute_step).
ExecutedAs(tool) == IF tool \in {"fs_read", "fs_write"} THEN "code_exec" ELSE tool

\* The tools _execute_step has a branch for; any other raises ValueError.
RunnableTools == EngineerTools

\* vision_analyze returns a fixed text before it reaches the gateway.
GatewayTools == RunnableTools \ {"vision_analyze"}
============================================================================
