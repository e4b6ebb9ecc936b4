# SENTINEL: a verification project

TLA+ specifications of the backend of SENTINEL (`src/backend/src`), a FastAPI
application that plans and runs agent tasks with the help of language models,
asks humans before risky steps, and keeps a hash-chained audit log. File names
below are relative to `src/backend/src` unless they start with `src/`.

## 1. Inventory

### Processes and shared state

`backend/Dockerfile` starts four uvicorn processes. Each serves requests on one
event loop and runs one worker loop (`sentinel_core/job_worker.py`). They share
one PostgreSQL database (READ COMMITTED, through SQLAlchemy async sessions), one
Redis and one Qdrant. Module-level singletons (`policy_gateway`, `model_router`,
`ws_connections`, `agent_loop.active_tasks`) are per process.

| Component | State | Operations | Interacts with |
|---|---|---|---|
| Task API (`sentinel_core/task_router.py`) | `agent_tasks`, `job_queue`, `messages` | `create_task`, reads, WebSocket stream | inserts jobs for the worker |
| Worker loop (`sentinel_core/job_worker.py`) | `job_queue`; one session per job | claim (SKIP LOCKED), process, commit; error handler in a session of its own | calls the agent loop |
| Agent loop (`sentinel_core/agent_loop.py`) | `agent_tasks`, `agent_steps`, events, checkpoints | plan, authorize, execute with retries, verify, replan, complete | planner, Policy Gateway, verification, WebSocket callback |
| Policy Gateway (`policy_gateway/gateway.py`) | `approvals`; the mode, in memory | `validate_context`, `authorize`, `execute`, `decide_approval`, `set_mode` | re-queues tasks, calls tools and models |
| Planner, verification (`sentinel_core/planner.py`, `verification.py`) | none | `decompose`, `replan`, `verify_*` | model router, execution manager |
| Audit log (`security/audit_log.py`) | `audit_log`, `audit_checkpoints` | `log`, `verify_chain` | written in the caller's transaction by the mode toggle, artifact approval, model calls |
| Artifacts, export (`sentinel_core/artifact_api.py`, `tool_gateway/sandbox.py`) | files, `artifacts` and versions | create, list, approve, download | Policy Gateway, audit log |
| Sandbox executor (`tool_gateway/sandbox.py`) | a workspace directory per run | execute with timeout, cleanup | Docker |
| Knowledge service (`knowledge_service/`) | `kb_documents`, extractions, Qdrant points | upload, classify, ingest, search | embeddings and vision models |
| Model gateway (`model_gateway/`) | the registry, in memory and in `model_registry` | register, sync, route, invoke | providers over HTTP, audit log |
| Rate limiters (`api_gateway/rate_limiter.py`, `main.py`) | sliding windows in Redis and in memory | admit or reject | every request |
| API gateway, projects, auth | users, sessions, messages, projects | login, chat, CRUD | model gateway |
| Egress monitor (`security/egress_monitor.py`) | `network_events` | sample, persist | none |
| Front end | none | display | the API |

### What is hard

* One transaction per run: everything a worker does to the database, from the
  claim to the last step, becomes visible at `job_worker.py:119` or not at all,
  whereas files, containers and model calls are not undone.
* Check-then-act on rows without a lock: `decide_approval`, the plan of a task,
  artifact approval, the latest audit entry.
* Objects read before a lock and used after it: the session's identity map keeps
  the task that `process_claimed_job` loaded.
* Error handlers that repair half of the state: the job is marked failed, the
  task stays QUEUED.
* Approvals that nobody asked for: `execute` authorizes an action again and
  inserts a second approval for a HIGH one.
* Concurrent writers of a chain: two transactions read the same latest entry.
* What no rollback undoes: points in Qdrant, exported files, programs, the models
  and the mode in memory; and what does not outlive its container, as the exported
  files, while the rows that name them do.
* Cleaning up that may fail: the sandbox ignores the errors of removing a directory
  a program may still write to, and the next run takes what is left.
* Errors between two writes of one transaction that a handler turns into a commit:
  verification that raises leaves a FAILED task with a step COMMITTED.
* A list that handlers change while a broadcast walks over it.
* Requests on one session or project that overlap: deletion against a turn whose
  model is still answering.
* Start-up of four processes at once on an empty database.

`PROJECT.json` lists each of these as a hazard at its line, with the properties that
cover it.

### What makes each component correct

* Worker, agent loop, approvals: a task is driven by one worker at a time; a HIGH
  step runs only after a human approved that step; a VERIFIED step stays so and is
  not run again; a queued task has a job and comes to rest; a paused task has
  something that will wake it; the chat agrees with the outcome.
* Audit log: one chain, without gap or fork, whatever the interleaving; it grows at
  its end only; checkpoints name committed entries; a loss is noticed; writers end.
* Knowledge service: nothing is indexed under a tag no administrator gave the
  document, nor twice for one classification; a reader gets hits of his tags only;
  a count of chunks that looks complete is; readings that differ are marked.
* Deliverables: what is listed can be downloaded, as long as the files are not lost
  with their container; status, approvals and audit entries agree; recalculation
  errors reach the verdict; a program has its directory for itself, unless an earlier
  run could not remove it.
* Model registry: only verified models can be chosen; the chosen one satisfies the
  need and none is better; what was registered is there after a restart.
* WebSocket stream: events arrive in order and once, at everybody who stays.
* Rate limiter: at most the limit within any window; nobody is rejected who sent
  less.
* Conversations: messages, tasks, sessions, titles and projects fit together at
  every moment; a deleted project leaves its sessions.
* Accounts: a serving process has the default accounts; names are unique; only the
  seeded admin administers.

## 2. Modules

| Module | Models | Role |
|---|---|---|
| `PolicyGateway` | decisions of `gateway.py` | operators without state, used by `AgentWorker` |
| `TaskLifecycle` | what users of the task API are promised | abstract specification |
| `AgentWorker` | worker, agent loop, `create_task`, `decide_approval` | detailed specification; `Lifecycle == INSTANCE TaskLifecycle WITH ...` |
| `AuditLog` | `audit_log.py` and the transactions around it | specification |
| `DocumentPipeline` | chunking, page regions, Evidence Resolver | operators, used by `KnowledgeBase` |
| `KnowledgeBase` | upload, classification, ingestion, search | specification |
| `Verification` | the verdicts of `verification.py` | operators, used by `Deliverables` |
| `Deliverables` | exports, code runs, artifact endpoints | specification |
| `ModelRegistry` | registration, verification, routing, mode | specification |
| `TaskStream` | the event stream of one task in one process | specification |
| `RateLimiter` | both limits of one client | specification |
| `Conversations` | projects, sessions, messages as transactions | specification |
| `Accounts` | seeding, registration, login, tokens | specification |
| `Services` | `Deliverables` and the five after it, side by side | one instance for TLC |
| `MCAgentWorker`, `MCAuditLog`, `MCKnowledgeBase` | | instances for TLC |
| `AgentWorkerProofs`, `AuditLogProofs`, `KnowledgeBaseProofs`, `ModelRegistryProofs`, `DeliverablesProofs`, `RateLimiterProofs`, `ConversationsProofs` | | inductive invariants and theorems of the module named |
| `ServicesProofs` | | the same for `Accounts` and `TaskStream`, and the composition: it extends the four proof modules of the other parts of `Services` |

### AgentWorker

The committed rows are `taskStatus`, `planned` (is `plan_json` set), `tools` and
`stepStatus` (the steps in `step_order`), `approvals` (per step, the n-th row),
`jobs` (in `created_at` order) and `reply` (the last chat message). `tx[w]` is the
open transaction of worker `w`: its private copy of the task's rows, the approvals
it inserted (`asked`), the step and the attempt. `req[h]` is the transaction of an
approval request. `effects` and `approvedOnce` are history variables.

One action ends where another process can interleave in a way that matters: at a
row lock, at a read of a committed row, at the end of a tool call, at the commit.

| Action | Code |
|---|---|
| `CreateTask` | `task_router.py:48-91` |
| `ClaimJob`, `LoadTask` | `job_worker.py:24-39`, `42-58` |
| `LockTask` | `agent_loop.py:61-81`; the flush of PLANNING takes the row lock |
| `DraftPlan`, `RejectPlan`, `MalformedPlan`, `ResumePlan` | `agent_loop.py:84-142`, `292-298` |
| `ReplayStep`, `AwaitDecision`, `AskApproval`, `AmbiguousApproval`, `DenyStep`, `StartStep` | `agent_loop.py:145-211` with `authorize` |
| `StepSucceeds`, `StepRetries`, `StepFails` | `agent_loop.py:213-257` with `_execute_step` and `execute` |
| `VerifyStep`, `VerifyRaises`, `CompleteTask` | `agent_loop.py:259-298`, `verification.py:105-113` |
| `CommitWork` | `job_worker.py:70-119` |
| `Crash`, `DatabaseError`, `MarkJobFailed`, `HandlerFails` | `job_worker.py:120-136` |
| `CheckPending`, `FlushDecision`, `ReadTask`, `RequeueTask`, `CommitDecision`, `AbortRequest` | `gateway.py:402-450`, `database.py:36-46` |

`VerifyRaises`: the step was flushed as COMMITTED (`agent_loop.py:245-247`) before its
verification, which for a `code_exec` compiles the output and catches `SyntaxError`
only. Another error fails the task, and the worker commits it with that step
COMMITTED. The loop skips COMMITTED steps (`agent_loop.py:147`), so that a second
live job completes the task without that step ever being verified. Whether it can be
raised depends on the interpreter: a NUL byte in the output makes `compile()` raise
`ValueError` up to Python 3.11.3 and `SyntaxError` from 3.11.4 on, and the image is
`python:3.11-slim`, whichever that is. The model leaves it open.

Row locks are not stored: `TaskRowFree`, `ApprovalRowFree` and `JobRowFree` derive
them from where the open transactions are. A read never waits and sees committed
rows; a flush waits for the row and, as SQLAlchemy does, writes what the session
already holds without reading it again.

Left out of the model: step descriptions, results and hashes; agent events and
checkpoints (written, never read back by the loop); tasks whose user or row has
disappeared; tasks without a chat session, which get no message.

### TaskLifecycle

A task is submitted, driven in one visible step from QUEUED to PAUSED, COMPLETED
or FAILED, resumed from PAUSED only. COMPLETED and FAILED are final, VERIFIED
steps stay, a COMPLETED task has no step left to do, and a PAUSED one has a first
unsettled step that awaits a human. A step COMMITTED and not verified is seen in a
FAILED task only. The refinement mapping is the identity on
`taskStatus` and `stepStatus`: the worker's many steps are stuttering steps, and
its commit is one `Drive`.

### AuditLog

`log` and `checkpoints` are the committed rows; `open[a]` is the transaction of
writer `a`, of one of three kinds (mode change, artifact approval, model calls),
with the rows it has inserted. `Prepare` reads the latest visible entry and hashes
the next; `Insert` waits for another open transaction that has the number
(`SeqFree`, the unique index) and `InsertFails` once that has committed (`Taken`).
A hash is the sequence of all payloads hashed so far, so that equal hashes are
hashes of equal chains. `ChainIntegrity` is `verify_chain` as a function of a set
of rows. `Tick` is the time, which the application reads when it hashes and the
database at the start of the transaction.

### KnowledgeBase, DocumentPipeline

`docs` are the rows of `kb_documents`, `files` what is on disk, `points` counts
the points in Qdrant per document, chunk and tag. `req[h]` is a classification
request with the row it loaded (`seen`) and the row as it has it now (`mine`):
SQLAlchemy writes only the columns that differ, so `CommitClassify` merges them
into whatever is committed by then. `asked` and `interrupted` are history.

| Action | Code |
|---|---|
| `UploadFile`, `UploadFails`, `LoseFiles` | `knowledge_service/api.py` upload; the directory is on no volume |
| `LoadDocument`, `FlushTag` | `classify_document` up to its first flush, which takes the row lock |
| `ReadDocument` | `ingest_document_pipeline` up to the chunks |
| `IngestChunk`, `SkipChunk`, `QdrantUnavailable`, `CompleteDocument` | `RAGService.ingest_document` |
| `CommitClassify`, `RollBack` | `database.py:36-46` |
| `Search`, `Replies` (operators) | `rag_query`, `search`, `query_with_answer` |

`DocumentPipeline` has what is computed without state: `ChunkText`, `Resolve` and
the rows of a page. A text is an identity and a number of words, a confidence a
number of hundredths. The answer of the vision model is a choice for each page.

### Deliverables, Verification

`run[t]` is the transaction of the worker that runs task `t`, reduced to what its
tools leave. `files` are on disk, `exported` counts the names given and `lost` is
history. `workspaces[t]` is the directory of the task, by the call that made it;
`leftovers` is history: the directories some call has not removed. `req[h]` is an
approval of an artifact.

| Action | Code |
|---|---|
| `SaveDocument`, `InsertRows`, `ToolRaises` | `sandbox.py:118-289`: a file, then its rows |
| `StartCode`, `SandboxRefused`, `SetUpFails` | `sandbox.py:62-76`, `86-115`; making the directory and writing the program are outside of the `try` |
| `CodeEnds`, `CodeTimesOut` | `sandbox.py:77-109`; `CleanUp` is `rmtree(ignore_errors=True)`, which removes the directory or leaves it |
| `LeftoverEnds` | a program nobody waits for any more |
| `VerifyStep`, `VerifyRaises` | `agent_loop.py:259-298`, `verification.py:105-113` |
| `CommitRun`, `RollBackRun` | `job_worker.py:63-129` |
| `LoseFiles` | a new container: `docker-compose.yml:29` mounts `/app/artifacts`, but `config.py:80` and `.env.example:56` name `./artifacts_store`, and `./sandbox` is not mounted either |
| `ReadArtifact`, `FlushApproval`, `CommitApproval`, `AbortApproval` | `artifact_api.py:161-211` |

A directory that is only half removed counts as left. Programs keep to the directory
they were started in. `Verification` has the checks and how a model's answer becomes a
verdict.

### ModelRegistry

`reg[p]` is the registry in the memory of process `p`, a sequence in the order of
insertion, for that order decides ties. `table` are the committed rows. `Register`
makes a verified model selectable at once, `CommitModel` or `CommitFails` follow;
`Restart` loads the defaults and then the table: the order in which the database
returns the rows is open, so `SyncWithDb` takes a set of rows and yields every
registry the loop may end with. `Route` is the router's choice;
scores are integers that reproduce the rounding of the decimal fractions.

### TaskStream

One action per await of `_broadcast_event`, and one per step of a handler. Lists
have identities, because a broadcast keeps the list it began with while the key of
the dictionary may be deleted and made anew. `Rest` is what `list.remove` leaves: the
other connections in their order.

### RateLimiter

A request takes its stamp at the middleware (`RateLimitMiddleware`) and its Redis
transaction is executed later (`SlidingWindow`), at most `MaxDelay` after the stamp
and in any order; `RedisFails` admits it unchecked.

### Conversations, Accounts

Every request of `Conversations` is a transaction. What it reads is committed, what
it writes is in its record until it commits. A flush waits for row locks and a
delete for the open transactions that refer to the row (`Answering`, `Orphaning`),
as PostgreSQL's foreign keys make it. `delete_project` has four steps, since
SQLAlchemy first writes NULL into the sessions it has read, then loads what is to
be cascaded over, then deletes. `Accounts` has a start-up per process (`CheckSeeds`,
`SeedDefaultUsers`, `Stop`), a registration per visitor (`RegisterUser`,
`InsertUser`) and tokens; passwords and signatures are abstracted.

### Services

The six modules share no variable, and the code they model no state. A behaviour of
`ServicesSpec` moves the component chosen at the start (`moving`), so that the
states of the components are added and not multiplied; what is checked is each
component's own specification.

## 3. What TLC checks

| Run | Instance | Shows |
|---|---|---|
| `WorkerTwoAdmins` | 1 task, 2 workers, 2 requests, 2 plans of 2 steps | types and seven safety properties under concurrent approvals, where a task may get several live jobs (4 885 000 states) |
| `WorkerOneAdmin` | 1 task, 2 workers, 1 request, 4 plans, 2 faults, fairness | refinement of `TaskLifecycle`, one live job, final decisions, no lost wake-up, a job behind every queued task, liveness (11 500 states) |
| `AuditChain` | 2 writers, interval 2, 3 numbers, 1 error, fairness | chain, checkpoints, verifier, no stuck writer |
| `Knowledge` | 2 documents, 2 requests, 2 tags, 3 classifications, 1 fault, 3 readers | index, tags, counts, answers and evidence (119 000 states) |
| `Services` | see below | thirteen properties of the six components (472 000 states) |
| `EffectTwice`, `CompletedUnverified`, `LostWakeup` | 1 task, 1 worker, 1 request | a documented promise the worker does not keep, each |
| `VerifyUntouched`, `ModeUnaudited` | 2 writers | a documented promise of the audit log that is not kept, each |
| `EventSkipped` | 3 clients, 2 events | a client that stays misses an event |
| `RestartForgetsCapabilities` | as `Services` | a registered model serves other needs after a restart |

Bounds of the worker. `MaxSteps = 2` suffices to have a step before and a step after
the one that waits; the plans are chosen so that each kind of tool occurs: LOW,
MEDIUM, HIGH, run under another name, without implementation, never reaching the
gateway, rejected by the gateway, and the empty plan. `MaxApprovals = 2` is the first
number at which the lookup is ambiguous; a third row would change nothing the code
tells apart. `MaxEffects` only caps a history counter. `MaxFaults = 2` lets a crash
follow an error in `WorkerOneAdmin`. `WorkerTwoAdmins` spends its states on concurrent
requests and has no fault: all of its eight properties are proved for any number of
faults. One task is enough because
workers and requests of different tasks share only the order of the jobs, which the
proofs cover for any number of tasks. In `AuditChain` three numbers are one below, on
and above the interval.

The two worker runs split the properties by what the code guarantees: with two
approval requests in flight the decision of an approval can be overwritten
(`gateway.py:416-423`) and a stale PAUSED can set a finished task back to QUEUED
(`gateway.py:432-436`), so `DecisionIsFinal`, `OneLiveJob` and
`ImplementsLifecycle` are stated for requests one at a time, as a single
administrator makes them. `PausedIsWakeable` holds of plans in which nothing
leaves a stray approval before the step that waits; `LostWakeup` shows a plan in
which something does. `QueuedHasJob` is checked in the first case only, for lack of
faults in the second; it is proved for both.

Bounds of `Knowledge`. Two requests overlap on one document and a third
classification follows them. One document is a text of two chunks that share a
word, the other a scan of two pages which the two readers may read alike or
differently, with OCR less sure than the vision model on one page and surer on the
other. The four answers of the vision model are one that agrees, one that differs,
one that is malformed and none at all. One chunk matches an injection pattern. The
readers are an administrator, a user with a tag and one without. One fault is a
rollback, a skipped chunk, a lost file or a missing collection.

Bounds of `Services`. Deliverables: one task of two steps, so that an export follows
a code run or a second one a first; two requests approve; two files, so that
a name is not reused; two calls of the sandbox, so that a program that timed out, or
a directory that was left, meets the next; one fault, which is a rollback, a tool or
a set-up that raises, a removal that fails, or a lost container. Registry:
two processes, two registrations of four submissions (signed; under the name of a
default model; with a claimed hash and no signature; with the wrong bundle), with
and without a key and cloud models, two restarts, one failed commit. Stream: three
clients are the fewest of which one leaves, one moves up and one is skipped.
Limiter: two processes, two endpoints with different limits, a window of 2 and a
delay of 1, so that two pipelines may be executed in the wrong order. Conversations:
four requests, one that creates the project, one a session, and two that overlap,
on two sessions. Accounts: two processes, two visitors, and names that are and are
not among the defaults. 
Deadlock is not checked: a system with no task to submit and nothing to decide has
come to rest, and the bounds stop the environment.

Fairness. `WF_vars(Work(w))`: the loop polls every second
(`job_worker.py:133-136`), statements and provider calls end or raise, and a
process that dies is started again. `WF_vars(Answer(h))`: a request that has begun
goes on. `WF_vars(Write(a))` likewise. No fairness makes a user submit, a human
decide, or anything fail. Since a worker whose step keeps being retried stops
after three attempts, weak fairness of the whole of `Work(w)` is enough. The other
components have no liveness property: a request that ends is all they promise.

Refinement. `ImplementsLifecycle` is `Lifecycle!Spec` of the instance of
`TaskLifecycle` in `AgentWorker`.

Each property of a passing run has a faulty variant of a definition (named next to
it and listed in `PROJECT.json`) that makes TLC find it violated.

## 4. What is proved

For every value of the constants that satisfies the ASSUMEs:

* `AgentWorkerProofs`, for any number of workers and approval requests: `TypeOK`,
  `OnlyRestingStatuses`, `HighRiskWaitsForHuman`, `VerifiedNotReexecuted`,
  `LoadedPlanIsCurrent`, `CompletedIsTried`, `ReplyAgrees`, `QueuedHasJob`, and the
  action property `VerifiedIsStable`. For behaviours in which no two
  requests decide approvals of one task at once (`[]OnePerTask`, trivially so for the
  one handler of `WorkerOneAdmin`), and any number of requests on different tasks:
  `OneLiveJob`, the action property `DecisionIsFinal` and the refinement
  `ImplementsLifecycle`. With plans in which
  nothing that leaves an approval comes before a HIGH step (`OneGatePerPlan`, as
  the plans of that run) besides: `PausedIsWakeable`.
* `AuditLogProofs`: `TypeOK`, `OneTransactionAhead`, `ChainIsLinked`,
  `CheckpointsMatch`, `LossIsNoticed`, and the action property `GrowsAtItsEnd`.
* `KnowledgeBaseProofs`: `TypeOK`, `IndexedOncePerRequest`, `UnreviewedNotIndexed`,
  `FullCountIsSearchable`, `AnswersHonourTags`, `DisagreementsFlagged`.
* `ModelRegistryProofs`: `RegistryTypeOK`, `SelectableIsVerified`,
  `RegistryPersists`, `RoutingIsSound`.
* `DeliverablesProofs`: `ListedIsDownloadable`, `ApprovalsAgree`,
  `PassedIsRecalculated`, `WorkspaceIsOwn`.
* `RateLimiterProofs`: `LimiterTypeOK`, `AdmittedIsBounded`.
* `ConversationsProofs`: `ConversationsAreWhole`, `OrphansSurvive`.
* `ServicesProofs`: `AccountsAreSound`, `StreamTypeOK`, `DeliveredOnce`; and of the
  composition, `ServicesTypeOK` and `EachOnItsOwn`: a behaviour of `ServicesSpec` is a
  behaviour of the specification of each of its components, so that everything
  proved of a component holds of the composition the run explores.

Worker. None of these is inductive. `IInv` adds: `LockInv`, that no two workers
which are past the lock drive one task, and `JobInv`, that no two process one job;
`HandInv`, that whatever is VERIFIED in the database is VERIFIED in the private
steps of the worker that drives the task, and that a HIGH tool about to be called
is in `approvedOnce`; `LoopInv`, which ties the private steps to the place in the
loop; and `DataInv`, that a task not yet planned has at most one job, no approval
and no verified step. The last, with `JobInv`, is why the plan loaded before the
lock is still current: nobody else could have planned the task meanwhile. `DataInv`
also says that an APPROVED row has its step in `approvedOnce`, which makes the
lookup that precedes `StartStep` imply a past approval. `RanInv`, proved on top of
`IInv`, follows a step that is COMMITTED, in the rows or in a transaction: it is a
`code_exec` step whose tool has run, since nothing else leaves it so, and `effects`
never goes down; `OnlyRestingStatuses` is its committed part.

Worker, progress. `PInv` follows the loop (`ProgressInv`): every step before the
current one is settled or was left COMMITTED by an earlier run, so it is for all of
them in a transaction about to commit COMPLETED, one about to commit PAUSED has a first unsettled step that awaits a human, and what
it asked for has no row yet. `Fits` ties the rows of a task to its plan, without
which "every step" would say nothing. `QueuedHasJob` needs all its writers: a request
inserts the job with the status, a worker leaves QUEUED only by leaving its job, and
the error handler marks it failed.

Worker, one request per task at a time. With two, a request that still believes its
approval PENDING re-queues a task that has gone on; that is why `OnePerTask` is a
hypothesis and not an omission, and `WorkerTwoAdmins` claims none of these. `LInv` adds that a
pending job has a QUEUED task, that whoever works has a pending job, and that the
approval a request has in hand is still PENDING. `CleanInv`
adds that with one live job nobody drives a task on which a verification has raised:
the task is FAILED, which is why the lifecycle may say that a COMPLETED or PAUSED
task has no step COMMITTED. The refinement maps the commit
of a worker to `Drive`, that of a request which re-queued the task to `Resume`, and
every other step to a stuttering step. `VInv` adds that a
QUEUED task has nothing to decide and a PAUSED one exactly one approval: the one
request that decides it finds the task PAUSED. A plan in which an earlier step
leaves an approval behind breaks that, and `LostWakeup` is such a plan.

Audit log. The unique index is all that orders the writers. `Dense` makes it
enough: the committed numbers are 1..n and those of an open transaction go on from
n + 1, so two transactions with entries would both have n + 1. `Chained` says that
each entry follows the one before among the rows a transaction sees, `NextFollows`
that an entry prepared for insertion follows a row that is still there (it may be
stale, and then its number is taken), and `AllMarked` that checkpoints and
multiples of the interval correspond, in the database and in each transaction.

Rate limits. Pipelines are executed out of order and each removes what is `Window`
older than its own stamp. `Remembered` is what makes the bound hold: a counted
request that is no longer in the sorted set is `Window` old by now, whoever removed
it. With `Prompt`, that no pipeline is later than `MaxDelay`, a pipeline counts
every request admitted in a window that is shorter by that delay. Assumed:
`MaxDelay < Window`, positive limits.

Conversations. Requests lock nothing they have read. `WorkedOn` says that a session
for which an open transaction has written is still there, `Cascaded` that what a
delete cascades over belongs to the sessions it deletes, so that a message it has
not loaded makes it fail, and `InsertsFresh` that an id being inserted is nobody
else's and its project stays. `Outlived` is the second property, stated so that a
session someone else deletes later does not violate it.

Accounts. `AllOrNothing`: a table that has one of the default users has all of them,
since nobody can register before a process serves; so losing the race for the seed
is harmless.

Deliverables. Three parts that hardly meet. `Filed`: the name of an exported file is
new, so the file belongs to one transaction until that commits; its row carries the
errors of its workbook, and a step in verification has its row. A listed artifact has
its file or the file is in `lost`; no open transaction survives the loss, so its files
are there. `Housed`: directories have the number of the call that made them and no two
tasks share one; at a call's end, at a failed set-up and at a worker's death the
directory is gone or becomes one of the `leftovers`, and only those may be met by
another program. `Approved`: a request that has read an artifact is counted when it
commits, and the commit trades one request in flight for one approval; who comes
after the first approval is refused, so that the sum no longer grows. Assumed:
finitely many approval requests, `MaxApprovals` > 0.

Knowledge. `OnceInv` counts: the points of a chunk under a tag and the requests that
will yet add one are together at most what was asked for; a chunk that fails, a
rollback and the row of another request only lower the sum. `ReviewInv` holds a
running or interrupted request to account for the points of a document whose row is
not confirmed: the row is merged at the commit, so a later request must not take
the confirmation back, which `PlaceInv` says. `FullInv` follows the counter of
ingested chunks: as long as it equals the chunks tried, all of them are there. The
operators are lemmas: `ChunksCover` (every word is in a chunk, for every size and
every overlap smaller than it), the merge of the readings of one page, and the rows
they yield. Assumed: finite sets, confidences and word counts are numbers, and the
chunks of a text fit the bound.

Registry. `RegInv` says of each process that its entries are defaults or made of
submissions that passed the verification, that names are unique (or a choice by name
could mean another entry), and that every row read at the start stands, as the row
has it or as a later registration replaced it. That the router's choice is a best
one rests on `Least`, the least element of a set of numbers, for the sort by score
is stable and the first of the best wins. Assumed: a submission without a bundle
has no hash of a file.

Stream. `GrowingPlaces` and `RestIsCloser`: removing connections moves none to a
later place. So the index of a broadcast never meets a connection again (`Walking`:
what was sent to is below the index), whatever handlers leave in between, and
without a removal nobody is passed over (`Reaching`).

Composition. The components share no variable, so a step of one is a stuttering step
of the others; the theorem is what makes `Services` an instance of each.

Only model-checked are the two liveness properties, `QueuedIsDriven` and
`WritersFinish`, since the prover reasons neither about fairness nor about ENABLED.
The violated claims of section 5 are refuted by TLC's counterexamples. Nothing is
proved by induction over data: where a definition folds over a sequence, the proofs
unfold it as far as the code's own bound goes (at most two readings of a page,
`FoldOcr` and `FoldVision`). `RouteChooses` is an exception in form only: its choice
is the least by a well-founded order.

## 5. Where the code departs from its documents

* `EffectTwice`: `src/project.md:19` promises that a completed side effect cannot
  run twice after a restart. With the only commit at the end of a run it can.
* `CompletedUnverified`: `src/project.md:59` and `verification.py:46` promise
  completion only after verification. The loop completes a task with
  VERIFY_FAILED or REJECTED steps; a new plan replaces `plan_json`, and its steps
  are never created.
* `LostWakeup`: see the comment at `gateway.py:425`. The request reads the task
  before the worker commits PAUSED.
* `VerifyUntouched`: the verifier hashes `created_at`, the writer its own clock.
* `ModeUnaudited`: the mode is set before its entry is written.
* `EventSkipped`: `task_router.py:221` promises an event to all connections. A
  handler that removes its own from the list during the loop's await makes the loop
  pass over the next one.
* `RestartForgetsCapabilities`: `model_gateway/router.py:191` promises persistence.
  Registration takes the member "list" of the capabilities, the synchronisation at
  start-up the object itself, of which the router then asks for keys.

Also true of the code, as the models have it:

* Audit log: the last entries may be lost unnoticed, since `verify_chain` reads the
  last checkpoint and does not compare it (`audit_log.py:187-201`).
* Knowledge: the points of a document that is reclassified keep the old tag and are
  found under it, as `AnswersHonourTags` allows. Two overlapping classifications
  index a document twice, which `IndexedOncePerRequest` counts as asked for twice;
  the row may then end with one tag and the latest points with the other. The page
  number of a pdf's chunk is the number of the chunk, and all rows of a page have the
  type of its first region. Spreadsheets and presentations complete with no chunk.
* Worker: where verification raises, a FAILED task keeps a step COMMITTED, and with a
  second live job the task becomes COMPLETED with that step never verified
  (`verification.py:109`, `agent_loop.py:147`).
* Deliverables: a new container has the rows of all artifacts and the files of none,
  so each download is a 404 (`artifact_api.py:248-251`): the volume of
  `docker-compose.yml:29` is not the directory the files are in. A directory that
  could not be removed is taken over by the next run of the task, with whatever a
  program that timed out still writes to it.
* Deliverables: the output of `code_exec` never passes `verify_code`, which
  compiles it as Python although it starts with "Exit code:". `approve_artifact`
  does not look at the verdict (`src/project.md:77`). The gateway passes no sources,
  so no component has any. A program that timed out is left running
  (`sandbox.py:27`, `src/project.md:533` say it is destroyed).
* Registry: a registration answered with 500 stays selectable in that process until
  it restarts, and one answered with 201 is unknown to the other processes until
  they do. The mode toggle is kept per process and does not affect routing.
* Rate limits: rejected requests keep the window full; the two limits share one key;
  without Redis requests are admitted.
* Conversations: a session that is committed in a project after `delete_project`
  has read its sessions is deleted with it, not orphaned (`projects_api.py:202`).
  The two messages of a turn have the same `created_at`, so their order is open.
  Two overlapping first messages both set the title. A session that an agent task
  refers to cannot be deleted.

## 6. Not modelled

* Egress monitor: it samples `/proc/net/tcp` and inserts rows; it keeps nothing.
* Front end: display.
* Provider adapters, OCR, vision, embeddings, token signing, password hashing, the
  layout of documents: input and output. Their results are choices of the models.
* PostgreSQL, Redis, Qdrant and Docker: external, modelled by what this code relies
  on.
* Read endpoints, the change of a project's name or directory, file browsing:
  they format rows or write one column.
* Events and checkpoints of the agent loop: written, never read back by it.
* Jobs of several tasks: that a job which always fails is claimed again each second
  before all others (`job_worker.py:25`) would need an order of the jobs of
  several tasks and errors without bound; and what a running task's audit entries do
  to other writers, for `AuditLog` has them as a writer of their own and not inside
  `AgentWorker`.

What is left to prove: every property of a passing run but the two liveness ones is a
theorem. Open are theorems beyond the runs: what of the lifecycle still holds for two
requests on one task at once, in place of final decisions.
