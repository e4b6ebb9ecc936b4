------------------------------ MODULE Services ------------------------------
(***************************************************************************)
(* The components around the agent, each on its own instance: what tools   *)
(* leave behind, the model registry, the event stream, the rate limits,    *)
(* the conversations and the accounts.  They share no state, so that a     *)
(* behaviour of all of them is one of each; a behaviour explored here      *)
(* moves the component it has chosen at the start.                         *)
(***************************************************************************)
EXTENDS Deliverables, ModelRegistry, TaskStream, RateLimiter, Conversations, Accounts

VARIABLE moving   \* the component that moves

servicesVars == <<moving, vars, registryVars, streamVars, limiterVars, conversationVars, accountVars>>

Components == {"deliverables", "registry", "stream", "limiter", "conversations", "accounts"}

ServicesInit ==
    /\ moving \in Components
    /\ Init /\ RegistryInit /\ StreamInit /\ LimiterInit /\ ConversationInit /\ AccountInit
    /\ moving # "registry" => settings = [cloud |-> FALSE, key |-> TRUE]

ServicesNext ==
    \/ /\ moving = "deliverables" /\ Next
       /\ UNCHANGED <<moving, registryVars, streamVars, limiterVars, conversationVars, accountVars>>
    \/ /\ moving = "registry" /\ RegistryNext
       /\ UNCHANGED <<moving, vars, streamVars, limiterVars, conversationVars, accountVars>>
    \/ /\ moving = "stream" /\ StreamNext
       /\ UNCHANGED <<moving, vars, registryVars, limiterVars, conversationVars, accountVars>>
    \/ /\ moving = "limiter" /\ LimiterNext
       /\ UNCHANGED <<moving, vars, registryVars, streamVars, conversationVars, accountVars>>
    \/ /\ moving = "conversations" /\ ConversationNext
       /\ UNCHANGED <<moving, vars, registryVars, streamVars, limiterVars, accountVars>>
    \/ /\ moving = "accounts" /\ AccountNext
       /\ UNCHANGED <<moving, vars, registryVars, streamVars, limiterVars, conversationVars>>

ServicesSpec == ServicesInit /\ [][ServicesNext]_servicesVars

\* Every variable of every component has its type.
ServicesTypeOK ==
    /\ moving \in Components
    /\ TypeOK /\ RegistryTypeOK /\ StreamTypeOK
    /\ LimiterTypeOK /\ ConversationTypeOK /\ AccountTypeOK

-----------------------------------------------------------------------------
(* The instance *)

Submission(id, provider, caps, window, latency, path, file, sha, sig) ==
    [model_id |-> id, provider |-> provider, capabilities |-> caps, context_window |-> window,
     vision |-> FALSE, tool_calling |-> TRUE, latency_class |-> latency,
     bundle_path |-> path, file_hash |-> file, bundle_sha256 |-> sha, signature |-> sig]

\* A signed bundle; a cloud model with the name of a default one; a model of
\* the same name as the first that only claims a hash and has no signature;
\* and a bundle that is not the one claimed.
SomeSubmissions == {
    Submission("plant", "vllm", [list |-> {"planning", "tool_calling"}], 32768, "fast",
               "/models/plant", "h1", "none", "h1"),
    Submission("reasoning-local", "openai", [list |-> {"general_qa", "analysis", "planning"}], 131072, "fast",
               "no path", "none", "h2", "h2"),
    Submission("plant", "ollama", [planning |-> {}], 1024, "slow", "no path", "none", "h3", "none"),
    Submission("plant", "vllm", [list |-> {"planning"}], 32768, "fast",
               "/models/plant", "h4", "h5", "h4")}

Need(caps, vision, tools, window) ==
    [capabilities |-> caps, vision |-> vision, tool_calling |-> tools, min_context |-> window]

\* What the code asks for (chat, planner, verifier, code, vision),
\* and a need no model has.
CodeNeeds == {
    Need({}, FALSE, FALSE, 4096), Need({"planning", "tool_calling"}, FALSE, TRUE, 4096),
    Need({"general_qa", "analysis"}, FALSE, FALSE, 4096), Need({"code"}, FALSE, FALSE, 4096),
    Need({"vision", "ocr_assist"}, TRUE, FALSE, 4096),
    Need({"speech"}, FALSE, FALSE, 4096)}

EndpointLimits == [e \in Endpoints |-> IF e = "create_task" THEN 1 ELSE 2]

Symmetry == Permutations(Approvers) \cup Permutations(Clients) \cup Permutations(Processes)
=============================================================================
