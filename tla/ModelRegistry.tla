--------------------------- MODULE ModelRegistry ---------------------------
(***************************************************************************)
(* Models: registration, supply-chain verification, routing and the mode   *)
(* shown (model_gateway/router.py, api.py, supply_chain.py and the mode of *)
(* policy_gateway/gateway.py).  Each process has a registry of its own in  *)
(* memory, filled from the table of registered models when it starts.      *)
(***************************************************************************)
EXTENDS Integers, Sequences, SequencesExt, FiniteSets, Functions

CONSTANTS
    Processes,          \* the server processes
    Submissions,        \* the registration requests an administrator may send
    Needs,              \* the requirements the code routes by
    MaxRegistrations,   \* bound: registration requests
    MaxRestarts,        \* bound: process restarts
    MaxOutages          \* bound: commits that fail

VARIABLES
    reg,           \* per process: its models, in the order of insertion
    table,         \* the committed rows, one per model_id
    registering,   \* per process: the registrations that are not committed yet
    sovereign,     \* per process: the flag of the policy gateway
    settings,      \* whether cloud models are allowed and the signing key is there
    started,       \* history, per process: the rows it read when it started
    registered,    \* history, per process: what it registered since then
    used           \* history: how often each bound was used

registryVars ==
    <<reg, table, registering, sovereign, settings, started, registered, used>>

NoHash == "none"
CloudProviders == {"groq", "gemini", "openai", "anthropic"}

-----------------------------------------------------------------------------
Model(id, provider, caps, window, vision, tools, latency, hash) ==
    [id |-> id, provider |-> provider, capabilities |-> caps, context_window |-> window,
     vision |-> vision, tool_calling |-> tools, latency_class |-> latency,
     active |-> TRUE, model_hash |-> hash]

Writer == {"general_qa", "planning", "summarization", "tool_calling", "analysis", "writing"}
Coder  == {"code", "code_review", "sandbox_debug", "tool_calling", "planning"}
Viewer == {"vision", "ocr_assist", "drawing_understanding"}

ReasoningLocal == Model("reasoning-local", "ollama", Writer, 32768, FALSE, TRUE, "medium", NoHash)
CodingLocal == Model("coding-local", "ollama", Coder, 16384, FALSE, TRUE, "fast", NoHash)
VisionLocal == Model("vision-local", "ollama", Viewer, 8192, TRUE, FALSE, "medium", NoHash)
EmbeddingLocal ==
    Model("embedding-local", "ollama", {"embedding"}, 8192, FALSE, FALSE, "fast", NoHash)

LocalModels == <<ReasoningLocal, CodingLocal, VisionLocal, EmbeddingLocal>>

ReasoningGroq == Model("reasoning-groq", "groq", Writer, 131072, FALSE, TRUE, "fast", NoHash)
CodingGroq == Model("coding-groq", "groq", Coder, 131072, FALSE, TRUE, "fast", NoHash)
FastGroq ==
    Model("fast-groq", "groq", {"general_qa", "summarization", "classification"}, 131072,
          FALSE, FALSE, "fast", NoHash)
VisionGemini ==
    Model("vision-gemini", "gemini", Viewer \cup (Writer \ {"writing"}), 1048576,
          TRUE, TRUE, "medium", NoHash)
ReasoningGemini ==
    Model("reasoning-gemini", "gemini", Writer \cup {"code", "code_review"}, 1048576,
          TRUE, TRUE, "medium", NoHash)
EmbeddingGemini ==
    Model("embedding-gemini", "gemini", {"embedding"}, 2048, FALSE, FALSE, "fast", NoHash)

CloudModels ==
    <<ReasoningGroq, CodingGroq, FastGroq, VisionGemini, ReasoningGemini, EmbeddingGemini>>

LoadDefaultModels == IF settings.cloud THEN LocalModels \o CloudModels ELSE LocalModels

\* models[entry.id] = entry: an id that is there keeps its place.
RegisterModel(models, e) ==
    IF \E i \in DOMAIN models : models[i].id = e.id
    THEN [i \in DOMAIN models |-> IF models[i].id = e.id THEN e ELSE models[i]]
    ELSE Append(models, e)

-----------------------------------------------------------------------------
\* A submission names a bundle, whose hash is that of the file if there is
\* one, or only claims a hash; the signature is that of some hash.
Bundled(s) == s.bundle_path # "no path"
ModelHash(s) == IF Bundled(s) THEN s.file_hash ELSE s.bundle_sha256

\* Where there is no file there is no hash of it.
ASSUME SubmissionsAssumption == \A s \in Submissions : ~Bundled(s) => s.file_hash = NoHash

\* Faulty variant: a hash that is only claimed needs no signature.
VerifyFilesOnly(s) ==
    /\ DOMAIN s.capabilities # {}
    /\ s.context_window >= 512
    /\ Bundled(s) => s.file_hash # NoHash /\ s.bundle_sha256 \in {NoHash, s.file_hash}
    /\ Bundled(s) /\ settings.key => s.signature = ModelHash(s)

\* verify_bundle.
VerifyBundle(s) ==
    /\ DOMAIN s.capabilities # {}
    /\ s.context_window >= 512
    /\ Bundled(s) => s.file_hash # NoHash /\ s.bundle_sha256 \in {NoHash, s.file_hash}
    /\ ~Bundled(s) => s.bundle_sha256 # NoHash
    /\ settings.key => s.signature = ModelHash(s)

\* The entry register_model builds: of the capabilities, an object, it takes
\* the member "list".
Manifest(s) ==
    Model(s.model_id, s.provider,
          IF "list" \in DOMAIN s.capabilities THEN s.capabilities["list"] ELSE {},
          s.context_window, s.vision, s.tool_calling, s.latency_class, ModelHash(s))

\* The entry sync_with_db builds: the object itself, and to ask whether a
\* capability is in it is to ask for a key.
RowManifest(s) == [Manifest(s) EXCEPT !.capabilities = DOMAIN s.capabilities]

Ids(models) == {m.id : m \in Range(models)}
NewManifests(models, rows) == {RowManifest(s) : s \in {r \in rows : r.model_id \notin Ids(models)}}

\* Faulty variant: a model that is known already is not loaded.
KeepsKnown(models, rows) ==
    {models \o added : added \in SetToSeqs(NewManifests(models, rows))}

\* What a registry may be once the rows are loaded: a row, of which there is one
\* per id, takes the place of a model of that id; the others follow in the order
\* of the query.
SyncWithDb(models, rows) ==
    LET Of(id) == {s \in rows : s.model_id = id}
        loaded == [i \in DOMAIN models |->
                     IF Of(models[i].id) = {} THEN models[i]
                     ELSE RowManifest(CHOOSE s \in rows : s.model_id = models[i].id)]
    IN  {loaded \o added : added \in SetToSeqs(NewManifests(models, rows))}

-----------------------------------------------------------------------------
Satisfies(m, need) ==
    /\ need.vision => m.vision
    /\ need.tool_calling => m.tool_calling
    /\ need.min_context <= m.context_window
    /\ need.capabilities \subseteq m.capabilities

Quick(m) == CASE m.latency_class = "fast" -> 3 [] m.latency_class = "medium" -> 2 [] OTHER -> 1
Wide(m) == IF m.context_window >= 100000 THEN 1 ELSE 0

\* The score in tenths of a model that satisfies the need, doubled, less one
\* where the sum of the decimal fractions is rounded below the exact value.
Score(m, need) ==
    LET fit   == IF need.capabilities # {} THEN 6 ELSE 5
        quick == Quick(m)
        wide  == Wide(m)
    IN  2 * (fit + quick + wide)
          - (IF <<fit, quick, wide>> \in {<<6, 3, 0>>, <<6, 3, 1>>, <<6, 1, 1>>, <<5, 2, 1>>}
             THEN 1 ELSE 0)

NoModel == "no model"

\* Faulty variant: every model is a candidate, also one that does not satisfy.
FirstOfBest(models, need) ==
    LET best == {i \in DOMAIN models : \A j \in DOMAIN models :
                     Score(models[j], need) <= Score(models[i], need)}
    IN  models[CHOOSE i \in best : \A j \in best : i <= j].id

\* Of the candidates with the best score, the one inserted first: the sort is
\* stable.
Route(models, need) ==
    LET candidates == {i \in DOMAIN models : models[i].active /\ Satisfies(models[i], need)}
        best == {i \in candidates : \A j \in candidates :
                     Score(models[j], need) <= Score(models[i], need)}
    IN  IF candidates = {} THEN NoModel
        ELSE models[CHOOSE i \in best : \A j \in best : i <= j].id

\* _get_model_info of the execution manager.
ModelInfo(models, id) == models[CHOOSE i \in DOMAIN models : models[i].id = id]

GetMode(p) ==
    CASE \E i \in DOMAIN reg[p] : reg[p][i].active /\ reg[p][i].provider \in CloudProviders -> "hybrid"
      [] OTHER -> IF sovereign[p] THEN "sovereign" ELSE "controlled"

-----------------------------------------------------------------------------
RegistryInit ==
    /\ settings \in [cloud : BOOLEAN, key : BOOLEAN]
    /\ reg = [p \in Processes |-> LoadDefaultModels]
    /\ table = {}
    /\ registering = [p \in Processes |-> {}]
    /\ sovereign = [p \in Processes |-> TRUE]
    /\ started = [p \in Processes |-> {}]
    /\ registered = [p \in Processes |-> {}]
    /\ used = [registrations |-> 0, restarts |-> 0, outages |-> 0]

Count(what, most) == used[what] < most /\ used' = [used EXCEPT ![what] = @ + 1]

\* POST /models/register up to its commit: a verified model is selectable in
\* this process at once; one that is not verified is answered with 400.
Register(p, s) ==
    /\ VerifyBundle(s)
    /\ Count("registrations", MaxRegistrations)
    /\ reg' = [reg EXCEPT ![p] = RegisterModel(@, Manifest(s))]
    /\ registered' = [registered EXCEPT ![p] = @ \cup {s}]
    /\ registering' = [registering EXCEPT ![p] = @ \cup {s}]
    /\ UNCHANGED <<table, sovereign, settings, started>>

\* The row is committed and answered with 201, unless the model_id is taken:
\* then with 500, and the entry in memory stays.
CommitModel(p, s) ==
    /\ s \in registering[p]
    /\ registering' = [registering EXCEPT ![p] = @ \ {s}]
    /\ IF \E row \in table : row.model_id = s.model_id
         THEN UNCHANGED table
         ELSE table' = table \cup {s}
    /\ UNCHANGED <<reg, sovereign, settings, started, registered, used>>

\* The commit fails for want of the database: 500, and the entry stays.
CommitFails(p, s) ==
    /\ s \in registering[p]
    /\ Count("outages", MaxOutages)
    /\ registering' = [registering EXCEPT ![p] = @ \ {s}]
    /\ UNCHANGED <<reg, table, sovereign, settings, started, registered>>

\* A process stops and starts again: the default models, then the rows, in an
\* order the query leaves open.  What it had not committed is lost.
Restart(p) ==
    /\ Count("restarts", MaxRestarts)
    /\ \E models \in SyncWithDb(LoadDefaultModels, table) : reg' = [reg EXCEPT ![p] = models]
    /\ started' = [started EXCEPT ![p] = table]
    /\ registered' = [registered EXCEPT ![p] = {}]
    /\ registering' = [registering EXCEPT ![p] = {}]
    /\ sovereign' = [sovereign EXCEPT ![p] = TRUE]
    /\ UNCHANGED <<table, settings>>

\* The toggle changes the flag of the process that serves it.
SetMode(p) ==
    /\ sovereign' = [sovereign EXCEPT ![p] = ~@]
    /\ UNCHANGED <<reg, table, registering, settings, started, registered, used>>

RegistryNext ==
    \E p \in Processes :
        \/ \E s \in Submissions : Register(p, s) \/ CommitModel(p, s) \/ CommitFails(p, s)
        \/ Restart(p)
        \/ SetMode(p)

RegistrySpec == RegistryInit /\ [][RegistryNext]_registryVars

-----------------------------------------------------------------------------
RegistryTypeOK ==
    /\ table \subseteq Submissions
    /\ \A p \in Processes :
         /\ registering[p] \cup registered[p] \cup started[p] \subseteq Submissions
         /\ sovereign[p] \in BOOLEAN
         /\ \A i, j \in DOMAIN reg[p] : reg[p][i].id = reg[p][j].id => i = j

Better(m, n) ==
    /\ Quick(m) >= Quick(n) /\ Wide(m) >= Wide(n)
    /\ <<Quick(m), Wide(m)>> # <<Quick(n), Wide(n)>>

\* FR1.2 and FR7.1, for whatever was registered, toggled and restarted: a need
\* is refused only if no model satisfies it, the chosen model satisfies it, no
\* other that does is at least as fast and as wide and better in one of them,
\* and a process that could choose a cloud model shows the hybrid mode.
RoutingIsSound ==
    \A p \in Processes, need \in Needs :
        LET fits == {m \in Range(reg[p]) : m.active /\ Satisfies(m, need)}
            id   == Route(reg[p], need)
            m    == ModelInfo(reg[p], id)
        IN  IF fits = {} THEN id = NoModel
            ELSE /\ m \in fits
                 /\ \A n \in fits : ~Better(n, m)
                 /\ m.provider \in CloudProviders => GetMode(p) = "hybrid"

\* "Model supply-chain verification (signature + checksum + manifest) before
\* any model is selectable" (project.md:704): a model of the memory of any
\* process that is not one of the defaults is of a submission that was signed,
\* if there is a key, and whose bundle, if it has one, has the claimed hash.
SelectableIsVerified ==
    \A p \in Processes : \A m \in Range(reg[p]) \ Range(LoadDefaultModels) :
        \E s \in Submissions :
            /\ s.model_id = m.id /\ s.provider = m.provider
            /\ settings.key => s.signature = m.model_hash
            /\ m.model_hash = IF s.file_hash # NoHash THEN s.file_hash ELSE s.bundle_sha256
            /\ m.model_hash # NoHash

\* FR2.2: a process has, for each row it read when it started, that model and
\* not a default of the same name, unless it has accepted another one of that
\* name itself since.
RegistryPersists ==
    \A p \in Processes : \A s \in started[p] :
        LET m == ModelInfo(reg[p], s.model_id)
        IN  /\ \E i \in DOMAIN reg[p] : reg[p][i].id = s.model_id
            /\ \/ m.provider = s.provider /\ m.model_hash = ModelHash(s)
               \/ \E t \in registered[p] : t.model_id = s.model_id /\ m = Manifest(t)

\* "Sync in-memory models with the database (FR2.2 persistence)" (router.py:191):
\* a model that was registered serves the same needs after a restart.
\* Violated: the two ways to make an entry read the capabilities differently.
RestartKeepsCapabilities ==
    \A p \in Processes : \A s \in started[p] :
        (\A t \in registered[p] : t.model_id # s.model_id) =>
            \A need \in Needs :
                Satisfies(ModelInfo(reg[p], s.model_id), need) <=> Satisfies(Manifest(s), need)
=============================================================================
