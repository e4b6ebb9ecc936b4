---------------------------- MODULE AgentWorker ----------------------------
(***************************************************************************)
(* The job queue, the worker loop, the agent loop and the approval         *)
(* endpoint (job_worker.py, agent_loop.py, task_router.py and              *)
(* policy_gateway/gateway.py under src/backend/src), over one PostgreSQL   *)
(* database at READ COMMITTED.                                             *)
(*                                                                         *)
(* Each backend process runs one worker loop and any number of approval    *)
(* requests.  A worker claims a job, drives the whole task and updates the *)
(* job in ONE transaction: job_worker.py:119 is the only commit.  So the   *)
(* module keeps the committed rows in variables of their own and the rows  *)
(* an open transaction has written in tx[w] (a worker) or req[h] (a        *)
(* request); a crash or an error drops them, and nobody else sees them     *)
(* before the commit.  A row written by an open transaction is locked.     *)
(*                                                                         *)
(* What happens outside the database is not undone by a rollback: effects  *)
(* counts the times the tool of a step ran to its end.                     *)
(***************************************************************************)
EXTENDS PolicyGateway, Naturals, Sequences

CONSTANTS
    Tasks,         \* the tasks users may submit
    Workers,       \* the worker loops, one per backend process
    Handlers,      \* the approval requests that may be in flight at once
    NoTask,        \* the task of a transaction that has none
    RoleOf,        \* the role of the user who owns the task
    Plans,         \* the plans (sequences of tools) the planner may return
    MaxSteps,      \* bound: the longest plan
    MaxApprovals,  \* bound: the approval rows kept per step; later ones are dropped
    MaxEffects,    \* bound: the runs of a step's tool are counted up to this
    MaxFaults      \* bound: crashes and database errors in a behaviour

ASSUME RolesAssumption  == RoleOf \in [Tasks -> Roles]
ASSUME PlansAssumption  == Plans \subseteq {p \in Seq(ToolNames) : Len(p) <= MaxSteps}
ASSUME NoTaskAssumption == NoTask \notin Tasks
ASSUME BoundsAssumption ==
    /\ MaxSteps \in Nat /\ MaxApprovals \in Nat \ {0}
    /\ MaxEffects \in Nat \ {0} /\ MaxFaults \in Nat

VARIABLES
    taskStatus,    \* committed: agent_tasks.status ("NONE": no row)
    planned,       \* committed: agent_tasks.plan_json is set
    tools,         \* committed: tool_used of the task's agent_steps, in step_order
    stepStatus,    \* committed: agent_steps.status ("NONE": no row)
    approvals,     \* committed: decision of the n-th approval of a step ("NONE": no row)
    jobs,          \* committed: the job_queue, in created_at order
    reply,         \* committed: the last message the worker or the API posted on the task
    tx,            \* the transaction of each worker
    req,           \* the transaction of each approval request
    effects,       \* history: how often the tool of each step ran to its end
    approvedOnce,  \* history: the steps for which an approval was once APPROVED
    faults         \* number of crashes and errors so far

rows == <<taskStatus, planned, tools, stepStatus, approvals, jobs, reply>>
vars == <<rows, tx, req, effects, approvedOnce, faults>>

StepIds     == 1..MaxSteps
ApprovalIds == 1..MaxApprovals

TaskStatuses == {"NONE", "QUEUED", "PLANNING", "RUNNING", "PAUSED", "COMPLETED", "FAILED"}
StepStatuses == {"NONE", "PENDING", "AUTHORIZED", "EXECUTING", "COMMITTED",
                 "VERIFIED", "VERIFY_FAILED", "REJECTED"}
Decisions    == {"PENDING", "APPROVED", "REJECTED"}
JobStatuses  == {"pending", "paused", "completed", "failed"}
Settled      == {"VERIFIED", "VERIFY_FAILED", "REJECTED"}

\* Where a worker is between two statements that others can interleave with.
WorkerPCs  == {"idle", "claimed", "loaded", "plan", "step", "execute", "verify",
               "commit", "raised"}
RequestPCs == {"idle", "checked", "flushed", "requeue", "requeued", "commit"}

NoSteps == [i \in StepIds |-> "NONE"]

NoTx == [pc |-> "idle", job |-> 0, task |-> NoTask, status |-> "NONE",
         planned |-> FALSE, tools |-> <<>>, steps |-> NoSteps, asked |-> {},
         pos |-> 1, attempt |-> 1]

NoReq == [pc |-> "idle", task |-> NoTask, step |-> 0, row |-> 0, decision |-> "PENDING"]

Init ==
    /\ taskStatus = [t \in Tasks |-> "NONE"]
    /\ planned    = [t \in Tasks |-> FALSE]
    /\ tools      = [t \in Tasks |-> <<>>]
    /\ stepStatus = [t \in Tasks |-> NoSteps]
    /\ approvals  = [t \in Tasks |-> [i \in StepIds |-> [n \in ApprovalIds |-> "NONE"]]]
    /\ jobs       = <<>>
    /\ reply      = [t \in Tasks |-> "none"]
    /\ tx         = [w \in Workers |-> NoTx]
    /\ req        = [h \in Handlers |-> NoReq]
    /\ effects    = [t \in Tasks |-> [i \in StepIds |-> 0]]
    /\ approvedOnce = {}
    /\ faults     = 0

----------------------------------------------------------------------------
(***************************************************************************)
(* Row locks, derived from what the open transactions have written.        *)
(***************************************************************************)

Driving == {"plan", "step", "execute", "verify", "commit"}

\* The flush of status PLANNING (agent_loop.py:79-80) locks the task's row until
\* the worker commits; so does the flush that re-queues it (gateway.py:433-436).
WorkerHolds(w, t)  == tx[w].task = t /\ tx[w].pc \in Driving
RequestHolds(h, t) == req[h].task = t /\ req[h].pc = "requeued"

\* Faulty variant: an agent loop that writes no row before it starts.
TaskRowFreeAlways(t) == TRUE

TaskRowFree(t) == /\ \A w \in Workers : ~WorkerHolds(w, t)
                  /\ \A h \in Handlers : ~RequestHolds(h, t)

ApprovalRowFree(h, t, i, n) ==
    \A g \in Handlers \ {h} :
        ~( /\ req[g].pc \in {"flushed", "requeue", "requeued", "commit"}
           /\ req[g].task = t /\ req[g].step = i /\ req[g].row = n )

JobRowFree(j) == \A w \in Workers : tx[w].job = j => tx[w].pc = "raised"

Claimable(j) == jobs[j].status = "pending" /\ JobRowFree(j)

----------------------------------------------------------------------------
(***************************************************************************)
(* POST /tasks: the task, its job and two chat messages, in one commit.    *)
(***************************************************************************)

\* Faulty variant: a retried request enqueues the task a second time.
NewJobsTwice(t) == <<[task |-> t, status |-> "pending"], [task |-> t, status |-> "pending"]>>

NewJobs(t) == <<[task |-> t, status |-> "pending"]>>

CreateTask(t) ==
    /\ taskStatus[t] = "NONE"
    /\ taskStatus' = [taskStatus EXCEPT ![t] = "QUEUED"]
    /\ jobs' = jobs \o NewJobs(t)
    /\ reply' = [reply EXCEPT ![t] = "accepted"]
    /\ UNCHANGED <<planned, tools, stepStatus, approvals, tx, req, effects,
                   approvedOnce, faults>>

----------------------------------------------------------------------------
(***************************************************************************)
(* The worker: claim, load, lock, plan.                                    *)
(***************************************************************************)

Move(w, r) ==
    /\ tx' = [tx EXCEPT ![w] = r]
    /\ UNCHANGED <<rows, req, approvedOnce, faults>>

\* claim_next_job: the oldest pending job whose row nobody has locked.  All
\* jobs have the same priority, and created_at orders them as they are appended.
ClaimJob(w) ==
    /\ tx[w].pc = "idle"
    /\ \E j \in DOMAIN jobs :
         /\ Claimable(j)
         /\ \A k \in 1..(j - 1) : ~Claimable(k)
         /\ Move(w, [NoTx EXCEPT !.pc = "claimed", !.job = j, !.task = jobs[j].task])
    /\ UNCHANGED effects

\* process_claimed_job reads the task before it is locked; the session's
\* identity map keeps these values when execute_task selects the row again.
LoadTask(w) ==
    /\ tx[w].pc = "claimed"
    /\ Move(w, [tx[w] EXCEPT !.pc = "loaded", !.planned = planned[tx[w].task]])
    /\ UNCHANGED effects

\* task.status = PLANNING; flush.  Waits while another transaction has the row.
LockTask(w) ==
    /\ tx[w].pc = "loaded"
    /\ TaskRowFree(tx[w].task)
    /\ Move(w, [tx[w] EXCEPT !.pc = "plan", !.status = "PLANNING"])
    /\ UNCHANGED effects

ToolSet(p) == {p[k] : k \in DOMAIN p}

NewSteps(p, k) == [i \in StepIds |-> IF i <= k THEN "PENDING" ELSE "NONE"]

\* No plan yet: the planner proposes one, the gateway validates the context it
\* needs, and its steps are inserted.
DraftPlan(w) ==
    /\ tx[w].pc = "plan" /\ ~tx[w].planned
    /\ \E p \in Plans :
         /\ ContextIsValid(RoleOf[tx[w].task], ToolSet(p), "none", TRUE)
         /\ Move(w, [tx[w] EXCEPT !.pc = "step", !.status = "RUNNING", !.planned = TRUE,
                                  !.tools = p, !.steps = NewSteps(p, Len(p))])
    /\ UNCHANGED effects

\* The gateway rejects the context: the task fails with its plan and no steps.
RejectPlan(w) ==
    /\ tx[w].pc = "plan" /\ ~tx[w].planned
    /\ \E p \in Plans : ~ContextIsValid(RoleOf[tx[w].task], ToolSet(p), "none", TRUE)
    /\ Move(w, [tx[w] EXCEPT !.pc = "commit", !.status = "FAILED", !.planned = TRUE])
    /\ UNCHANGED effects

\* The planner's JSON is an array, but an element of it cannot be made a step:
\* the steps before it are flushed by the handler that fails the task.
MalformedPlan(w) ==
    /\ tx[w].pc = "plan" /\ ~tx[w].planned
    /\ \E p \in Plans : \E k \in 0..(Len(p) - 1) :
         /\ k = 0 \/ ContextIsValid(RoleOf[tx[w].task], ToolSet(p), "none", TRUE)
         /\ Move(w, [tx[w] EXCEPT !.pc = "commit", !.status = "FAILED", !.planned = TRUE,
                                  !.tools = SubSeq(p, 1, k), !.steps = NewSteps(p, k)])
    /\ UNCHANGED effects

\* A plan was loaded: its steps are read, now that the task's row is locked.
ResumePlan(w) ==
    /\ tx[w].pc = "plan" /\ tx[w].planned
    /\ Move(w, [tx[w] EXCEPT !.pc = "step", !.status = "RUNNING",
                             !.tools = tools[tx[w].task],
                             !.steps = stepStatus[tx[w].task]])
    /\ UNCHANGED effects

----------------------------------------------------------------------------
(***************************************************************************)
(* The worker: the loop over the steps.                                    *)
(***************************************************************************)

AtStep(w)      == tx[w].pc = "step" /\ tx[w].pos <= Len(tx[w].tools)
Tool(w)        == tx[w].tools[tx[w].pos]
MarkStep(w, s) == [tx[w] EXCEPT !.steps[tx[w].pos] = s]

\* "continue": the next step, whose attempts are counted afresh.
NextStep(r) == [r EXCEPT !.pc = "step", !.pos = @ + 1, !.attempt = 1]

\* Faulty variant: execute_task pauses without storing the task's status.
PauseInMemory(r) == [r EXCEPT !.pc = "commit"]

PauseTask(r) == [r EXCEPT !.pc = "commit", !.status = "PAUSED"]
FailTask(r)  == [r EXCEPT !.pc = "commit", !.status = "FAILED"]

\* The approval rows of a step that the transaction of w sees.
ApprovalRows(w, i) == {n \in ApprovalIds : approvals[tx[w].task][i][n] # "NONE"}
                        \cup {n \in ApprovalIds : <<i, n>> \in tx[w].asked}

\* The rows of a step the worker has after authorize inserted one more.
Asked(w, i) ==
    LET free == ApprovalIds \ ApprovalRows(w, i)
    IN  tx[w].asked \cup {<<i, n>> : n \in {m \in free : \A k \in free : m <= k}}

\* Faulty variant: the existence of an approval is taken for its decision.
LookupAnyRow(w, i) ==
    IF ApprovalRows(w, i) = {} THEN "none" ELSE "APPROVED"

\* scalar_one_or_none over the approvals of the step: two rows are an error.
Lookup(w, i) ==
    CASE ApprovalRows(w, i) = {} -> "none"
      [] \E n, m \in ApprovalRows(w, i) : n # m -> "multiple"
      [] OTHER -> LET n == CHOOSE n \in ApprovalRows(w, i) : TRUE
                  IN  IF <<i, n>> \in tx[w].asked THEN "PENDING"
                      ELSE approvals[tx[w].task][i][n]

\* What the step is told: the human's answer, or else the gateway's.
Verdict(w) ==
    LET found == Lookup(w, tx[w].pos)
    IN  IF found = "none"
        THEN Authorize(RoleOf[tx[w].task], Tool(w), ToolSet(tx[w].tools))
        ELSE found

\* Faulty variant: a verified step is taken up again.
SkipCommittedOnly == {"COMMITTED"}

Skipped == {"COMMITTED", "VERIFIED"}

ReplayStep(w) ==
    /\ AtStep(w) /\ tx[w].steps[tx[w].pos] \in Skipped
    /\ Move(w, NextStep(tx[w]))
    /\ UNCHANGED effects

TakeUp(w) == AtStep(w) /\ tx[w].steps[tx[w].pos] \notin Skipped

\* The approval is PENDING: pause.  A row of this step found here is committed.
AwaitDecision(w) ==
    /\ TakeUp(w) /\ Verdict(w) = "PENDING"
    /\ Move(w, PauseTask(MarkStep(w, "AUTHORIZED")))
    /\ UNCHANGED effects

\* No approval yet for a HIGH tool: authorize inserts one, and the task pauses.
AskApproval(w) ==
    /\ TakeUp(w) /\ Verdict(w) = "approval"
    /\ Move(w, PauseTask([MarkStep(w, "AUTHORIZED") EXCEPT !.asked = Asked(w, tx[w].pos)]))
    /\ UNCHANGED effects

\* MultipleResultsFound: caught by execute_task, the task fails.
AmbiguousApproval(w) ==
    /\ TakeUp(w) /\ Verdict(w) = "multiple"
    /\ Move(w, FailTask(MarkStep(w, "AUTHORIZED")))
    /\ UNCHANGED effects

\* The human or the gateway says no: the step is REJECTED, the task goes on.
DenyStep(w) ==
    /\ TakeUp(w) /\ Verdict(w) \in {"REJECTED", "denied"}
    /\ Move(w, NextStep(MarkStep(w, "REJECTED")))
    /\ UNCHANGED effects

StartStep(w) ==
    /\ TakeUp(w) /\ Verdict(w) \in {"APPROVED", "allowed"}
    /\ Move(w, [MarkStep(w, "EXECUTING") EXCEPT !.pc = "execute"])
    /\ UNCHANGED effects

(***************************************************************************)
(* _execute_step.  It calls the gateway's execute, which authorizes the    *)
(* action once more (and, when it is HIGH, inserts one more approval, that *)
(* nobody waits for), and then the tool.  An attempt that raises has       *)
(* reached the gateway or not; one that returns has run the tool, whose    *)
(* effect no rollback undoes.                                              *)
(***************************************************************************)

AskedAfter(w, reached) ==
    IF /\ reached
       /\ "approval" = Authorize(RoleOf[tx[w].task], ExecutedAs(Tool(w)),
                                 ToolSet(tx[w].tools))
    THEN Asked(w, tx[w].pos) ELSE tx[w].asked

MayReach(w) == {FALSE} \cup (IF Tool(w) \in GatewayTools THEN {TRUE} ELSE {})

StepSucceeds(w) ==
    /\ tx[w].pc = "execute" /\ Tool(w) \in RunnableTools
    /\ Move(w, [MarkStep(w, "COMMITTED") EXCEPT
                  !.pc = "verify", !.asked = AskedAfter(w, Tool(w) \in GatewayTools)])
    /\ effects' = [effects EXCEPT ![tx[w].task][tx[w].pos] =
                     IF @ < MaxEffects THEN @ + 1 ELSE @]

MaxRetries == 3

\* The error text mentions 429 or a rate limit: sleep and try again.
StepRetries(w) ==
    /\ tx[w].pc = "execute" /\ tx[w].attempt < MaxRetries
    /\ Tool(w) \in GatewayTools
    /\ \E reached \in MayReach(w) :
         Move(w, [tx[w] EXCEPT !.attempt = @ + 1, !.asked = AskedAfter(w, reached)])
    /\ UNCHANGED effects

\* Any other error (an action with no implementation is one), or the last attempt:
\* the step is REJECTED, the task goes on.
StepFails(w) ==
    /\ tx[w].pc = "execute" /\ Tool(w) # "vision_analyze"
    /\ \E reached \in MayReach(w) :
         Move(w, NextStep([MarkStep(w, "REJECTED") EXCEPT !.asked = AskedAfter(w, reached)]))
    /\ UNCHANGED effects

\* _verify_step; after a failure the planner's new plan_json replaces the old one
\* (still set), and the rows of the steps stay as they are.
VerifyOutcomes == {"VERIFIED", "VERIFY_FAILED"}

VerifyStep(w) ==
    /\ tx[w].pc = "verify"
    /\ \E s \in VerifyOutcomes : Move(w, NextStep(MarkStep(w, s)))
    /\ UNCHANGED effects

\* compile() of the output of a code_exec raises something else than a SyntaxError:
\* the task fails with the step as it was flushed, COMMITTED.
VerifyRaises(w) ==
    /\ tx[w].pc = "verify" /\ Tool(w) = "code_exec"
    /\ Move(w, FailTask(tx[w]))
    /\ UNCHANGED effects

\* Faulty variant: the loop ends one step early.
StepsDoneEarly(w) == tx[w].pos >= Len(tx[w].tools)

StepsDone(w) == tx[w].pos > Len(tx[w].tools)

CompleteTask(w) ==
    /\ tx[w].pc = "step" /\ StepsDone(w)
    /\ Move(w, [tx[w] EXCEPT !.pc = "commit", !.status = "COMPLETED"])
    /\ UNCHANGED effects

----------------------------------------------------------------------------
(***************************************************************************)
(* The worker: the commit, and what happens instead of it.                 *)
(***************************************************************************)

\* Faulty variant: the task's status is taken for the job's.
JobResultRaw(status) == status

\* process_claimed_job after execute_task.
JobResult(status) == CASE status = "PAUSED"    -> "paused"
                       [] status = "COMPLETED" -> "completed"
                       [] OTHER                -> "failed"

\* Faulty variant: the chat is told of a completion whatever the result.
ReplyOptimistic(status, last) == IF status = "PAUSED" THEN last ELSE "completed"

ReplyTo(status, last) == CASE status = "PAUSED"    -> last
                           [] status = "COMPLETED" -> "completed"
                           [] OTHER                -> "failed"

\* Faulty variant: the approvals are added to the session too late to be committed.
WithAskedLost(w) == approvals[tx[w].task]

WithAsked(w) ==
    [i \in StepIds |-> [n \in ApprovalIds |->
        IF <<i, n>> \in tx[w].asked THEN "PENDING" ELSE approvals[tx[w].task][i][n]]]

\* The job's status, the message and the commit (job_worker.py:70-119).
CommitWork(w) ==
    LET t == tx[w].task
    IN  /\ tx[w].pc = "commit"
        /\ taskStatus' = [taskStatus EXCEPT ![t] = tx[w].status]
        /\ planned'    = [planned EXCEPT ![t] = tx[w].planned]
        /\ tools'      = [tools EXCEPT ![t] = tx[w].tools]
        /\ stepStatus' = [stepStatus EXCEPT ![t] = tx[w].steps]
        /\ approvals'  = [approvals EXCEPT ![t] = WithAsked(w)]
        /\ jobs'       = [jobs EXCEPT ![tx[w].job].status = JobResult(tx[w].status)]
        /\ reply'      = [reply EXCEPT ![t] = ReplyTo(tx[w].status, @)]
        /\ tx'         = [tx EXCEPT ![w] = NoTx]
        /\ UNCHANGED <<req, effects, approvedOnce, faults>>

Drop(w, r) ==
    /\ tx' = [tx EXCEPT ![w] = r]
    /\ UNCHANGED <<rows, req, effects, approvedOnce>>

\* The process dies and is started again: PostgreSQL rolls its transaction back.
Crash(w) ==
    /\ tx[w].pc # "idle" /\ faults < MaxFaults
    /\ faults' = faults + 1
    /\ Drop(w, NoTx)

\* A flush or the commit fails (a unique constraint, a lost connection): the
\* flush in execute_task's own handler fails too, and the exception reaches the
\* worker loop, which rolls back.
DatabaseError(w) ==
    /\ tx[w].pc \notin {"idle", "raised"} /\ faults < MaxFaults
    /\ faults' = faults + 1
    /\ Drop(w, [NoTx EXCEPT !.pc = "raised", !.job = tx[w].job])

\* The loop's handler marks the job failed, in a session of its own.  The row is
\* no longer locked by this worker; another one may have claimed it meanwhile.
MarkJobFailed(w) ==
    /\ tx[w].pc = "raised" /\ JobRowFree(tx[w].job)
    /\ jobs' = [jobs EXCEPT ![tx[w].job].status = "failed"]
    /\ tx' = [tx EXCEPT ![w] = NoTx]
    /\ UNCHANGED <<taskStatus, planned, tools, stepStatus, approvals, reply, req,
                   effects, approvedOnce, faults>>

\* The handler itself fails: the rollback has expired the job object, and reading
\* job.id wants I/O where none is possible.  The outer handler logs, and the job
\* is still pending.
HandlerFails(w) ==
    /\ tx[w].pc = "raised"
    /\ UNCHANGED faults
    /\ Drop(w, NoTx)

----------------------------------------------------------------------------
(***************************************************************************)
(* POST /policy/approvals/{id}: decide_approval, whose transaction commits *)
(* when the request ends (shared/database.py, get_db).                     *)
(***************************************************************************)

Respond(h, r) ==
    /\ req' = [req EXCEPT ![h] = r]
    /\ UNCHANGED <<rows, tx, effects, approvedOnce, faults>>

\* Faulty variant: any existing approval may be decided.
DecidableAny(d) == d # "NONE"

Decidable(d) == d = "PENDING"

\* The approval is read and found PENDING (otherwise 409, and nothing changes).
CheckPending(h) ==
    /\ req[h].pc = "idle"
    /\ \E t \in Tasks, i \in StepIds, n \in ApprovalIds, d \in {"APPROVED", "REJECTED"} :
         /\ Decidable(approvals[t][i][n])
         /\ Respond(h, [pc |-> "checked", task |-> t, step |-> i, row |-> n, decision |-> d])

\* The decision is flushed: the row is locked, after waiting for another request
\* that has it, and is not read again.
FlushDecision(h) ==
    /\ req[h].pc = "checked"
    /\ ApprovalRowFree(h, req[h].task, req[h].step, req[h].row)
    /\ Respond(h, [req[h] EXCEPT !.pc = "flushed"])

\* Faulty variant: the task is woken whatever its status.
WakesAlways(t) == TRUE

Wakes(t) == taskStatus[t] = "PAUSED"

ReadTask(h) ==
    /\ req[h].pc = "flushed"
    /\ Respond(h, [req[h] EXCEPT !.pc = IF Wakes(req[h].task) THEN "requeue" ELSE "commit"])

\* task.status = QUEUED and a new job, flushed: waits for the task's row.
RequeueTask(h) ==
    /\ req[h].pc = "requeue"
    /\ TaskRowFree(req[h].task)
    /\ Respond(h, [req[h] EXCEPT !.pc = "requeued"])

\* Faulty variant: the task is re-queued without a job.
ResumeJobsNone(t) == <<>>

ResumeJobs(t) == <<[task |-> t, status |-> "pending"]>>

CommitDecision(h) ==
    LET t == req[h].task
        i == req[h].step
    IN  /\ req[h].pc \in {"requeued", "commit"}
        /\ approvals' = [approvals EXCEPT ![t][i][req[h].row] = req[h].decision]
        /\ approvedOnce' = approvedOnce \cup
                             (IF req[h].decision = "APPROVED" THEN {<<t, i>>} ELSE {})
        /\ IF req[h].pc = "requeued"
           THEN /\ taskStatus' = [taskStatus EXCEPT ![t] = "QUEUED"]
                /\ jobs' = jobs \o ResumeJobs(t)
           ELSE UNCHANGED <<taskStatus, jobs>>
        /\ req' = [req EXCEPT ![h] = NoReq]
        /\ UNCHANGED <<planned, tools, stepStatus, reply, tx, effects, faults>>

\* The request's process dies, or a statement of it fails: rolled back.
AbortRequest(h) ==
    /\ req[h].pc # "idle" /\ faults < MaxFaults
    /\ faults' = faults + 1
    /\ req' = [req EXCEPT ![h] = NoReq]
    /\ UNCHANGED <<rows, tx, effects, approvedOnce>>

----------------------------------------------------------------------------

PlanTask(w) == DraftPlan(w) \/ RejectPlan(w) \/ MalformedPlan(w) \/ ResumePlan(w)

DoStep(w) ==
    \/ ReplayStep(w) \/ AwaitDecision(w) \/ AskApproval(w) \/ AmbiguousApproval(w)
    \/ DenyStep(w) \/ StartStep(w)
    \/ StepSucceeds(w) \/ StepRetries(w) \/ StepFails(w)
    \/ VerifyStep(w) \/ VerifyRaises(w)

Work(w) ==
    \/ ClaimJob(w) \/ LoadTask(w) \/ LockTask(w) \/ PlanTask(w)
    \/ DoStep(w) \/ CompleteTask(w) \/ CommitWork(w)
    \/ MarkJobFailed(w) \/ HandlerFails(w)

Answer(h) == FlushDecision(h) \/ ReadTask(h) \/ RequeueTask(h) \/ CommitDecision(h)

Next ==
    \/ \E t \in Tasks : CreateTask(t)
    \/ \E w \in Workers : Work(w) \/ Crash(w) \/ DatabaseError(w)
    \/ \E h \in Handlers : CheckPending(h) \/ Answer(h) \/ AbortRequest(h)

Spec == Init /\ [][Next]_vars

\* The worker loop polls every second and its calls time out, so a worker that can
\* go on does; so does a request once it is in.  Nothing makes a user submit a
\* task, a human decide, or anything fail.
Fairness == /\ \A w \in Workers : WF_vars(Work(w))
            /\ \A h \in Handlers : WF_vars(Answer(h))

FairSpec == Spec /\ Fairness

----------------------------------------------------------------------------
(***************************************************************************)
(* Properties.                                                             *)
(***************************************************************************)

JobRows  == [task : Tasks, status : JobStatuses]
Requests == [pc : RequestPCs, task : Tasks \cup {NoTask}, step : StepIds \cup {0},
             row : ApprovalIds \cup {0}, decision : Decisions]
Txs      == [pc : WorkerPCs, job : Nat, task : Tasks \cup {NoTask},
             status : TaskStatuses, planned : BOOLEAN, tools : Seq(ToolNames),
             steps : [StepIds -> StepStatuses], asked : SUBSET (StepIds \X ApprovalIds),
             pos : Nat \ {0}, attempt : 1..MaxRetries]

\* The rows, the transactions and the counters have their types; in particular
\* the loop over the steps never indexes past the plan's steps.
TypeOK ==
    /\ taskStatus \in [Tasks -> TaskStatuses]
    /\ planned \in [Tasks -> BOOLEAN]
    /\ tools \in [Tasks -> Seq(ToolNames)]
    /\ stepStatus \in [Tasks -> [StepIds -> StepStatuses]]
    /\ approvals \in [Tasks -> [StepIds -> [ApprovalIds -> Decisions \cup {"NONE"}]]]
    /\ jobs \in Seq(JobRows)
    /\ reply \in [Tasks -> {"none", "accepted", "completed", "failed"}]
    /\ tx \in [Workers -> Txs]
    /\ req \in [Handlers -> Requests]
    /\ effects \in [Tasks -> [StepIds -> 0..MaxEffects]]
    /\ approvedOnce \subseteq Tasks \X StepIds
    /\ faults \in 0..MaxFaults

\* Nobody outside the worker's transaction sees a task being planned or run, nor
\* a step being executed: what the commit of job_worker.py:119 publishes is at
\* rest, whatever path execute_task returned by.  A step it publishes as COMMITTED
\* is a code_exec whose program ran to its end and whose verification raised
\* (agent_loop.py:292-298).
OnlyRestingStatuses ==
    \A t \in Tasks :
        /\ taskStatus[t] \notin {"PLANNING", "RUNNING"}
        /\ \A i \in StepIds :
             /\ stepStatus[t][i] # "EXECUTING"
             /\ stepStatus[t][i] = "COMMITTED" =>
                  i \in DOMAIN tools[t] /\ tools[t][i] = "code_exec" /\ effects[t][i] > 0

\* A step whose tool is HIGH risk is executed only after a human has approved
\* that very step: a worker that is about to call the tool (agent_loop.py:218)
\* follows an APPROVED decision, made before the worker looked.
HighRiskWaitsForHuman ==
    \A w \in Workers :
        tx[w].pc = "execute" /\ RiskOf(Tool(w)) = "HIGH"
            => <<tx[w].task, tx[w].pos>> \in approvedOnce

\* A step that is VERIFIED in the database is never executed again, whoever
\* resumes the task and however often (agent_loop.py:147).
VerifiedNotReexecuted ==
    \A w \in Workers :
        tx[w].pc = "execute" => stepStatus[tx[w].task][tx[w].pos] # "VERIFIED"

\* A VERIFIED step stays VERIFIED: no transaction overwrites it with what it
\* read before another one committed.
VerifiedIsStable ==
    [][\A t \in Tasks, i \in StepIds :
         stepStatus[t][i] = "VERIFIED" => stepStatus'[t][i] = "VERIFIED"]_vars

\* The plan a worker read before it had the task's row is still the committed one
\* when it acts on it: a task is never planned twice (agent_loop.py:85).
LoadedPlanIsCurrent ==
    \A w \in Workers : tx[w].pc = "plan" => tx[w].planned = planned[tx[w].task]

\* A QUEUED task has a job a worker will pick up, unless the worker loop's error
\* handler failed one (job_worker.py:123-129, which leaves the task as it was).
QueuedHasJob ==
    \A t \in Tasks : taskStatus[t] = "QUEUED" =>
        \E j \in DOMAIN jobs : jobs[j].task = t /\ jobs[j].status \in {"pending", "failed"}

\* A COMPLETED task has tried every step of its plan: none is left pending or
\* waiting for a human (agent_loop.py:285).  With a second job for the task, a step
\* whose verification raised under the first one is skipped as COMMITTED (147).
CompletedIsTried ==
    \A t \in Tasks : taskStatus[t] = "COMPLETED" =>
        \A i \in DOMAIN tools[t] : stepStatus[t][i] \in Settled \cup {"COMMITTED"}

\* The last message in the task's chat agrees with how the task ended
\* (job_worker.py:78-105), with several jobs for one task too.
ReplyAgrees ==
    \A t \in Tasks : /\ taskStatus[t] = "COMPLETED" => reply[t] = "completed"
                     /\ taskStatus[t] = "FAILED" => reply[t] = "failed"

(***************************************************************************)
(* With approvals decided one request at a time.                           *)
(***************************************************************************)

Lifecycle ==
    INSTANCE TaskLifecycle WITH Tasks <- Tasks, MaxSteps <- MaxSteps,
                                taskStatus <- taskStatus, stepStatus <- stepStatus

\* The tasks live the life TaskLifecycle promises.
ImplementsLifecycle == Lifecycle!Spec

\* A task has at most one job that is pending: it is never driven twice for one
\* decision (gateway.py:432).
OneLiveJob ==
    \A j, k \in DOMAIN jobs :
        jobs[j].task = jobs[k].task /\ jobs[j].status = "pending"
                                    /\ jobs[k].status = "pending" => j = k

\* A decision is made once: a second one answers 409 (gateway.py:416).
DecisionIsFinal ==
    [][\A t \in Tasks, i \in StepIds, n \in ApprovalIds :
         approvals[t][i][n] \in {"APPROVED", "REJECTED"}
             => approvals'[t][i][n] = approvals[t][i][n]]_vars

\* A PAUSED task waits for an approval that is still to be decided, or for a
\* request that is about to wake it ("Re-queue the task to wake up the
\* background worker", gateway.py:425).
PausedIsWakeable ==
    \A t \in Tasks : taskStatus[t] = "PAUSED" =>
        \/ \E i \in StepIds, n \in ApprovalIds : approvals[t][i][n] = "PENDING"
        \/ \E j \in DOMAIN jobs : jobs[j].task = t /\ jobs[j].status = "pending"

\* Every job is worked off: a QUEUED task comes to rest, whatever crashes (a
\* bounded number of times), unless the loop's handler failed its job.
QueuedIsDriven ==
    \A t \in Tasks : taskStatus[t] = "QUEUED" ~>
        \/ taskStatus[t] \in {"PAUSED", "COMPLETED", "FAILED"}
        \/ \E j \in DOMAIN jobs : jobs[j].task = t /\ jobs[j].status = "failed"

(***************************************************************************)
(* What the documents promise and the code does not keep.                  *)
(***************************************************************************)

\* "A completed side effect cannot execute twice after a restart" (project.md:19).
EffectAtMostOnce == \A t \in Tasks, i \in StepIds : effects[t][i] <= 1

\* "Completion = generation + verification + policy compliance" (verification.py:4).
CompletedIsVerified ==
    \A t \in Tasks : taskStatus[t] = "COMPLETED" =>
        \A i \in DOMAIN tools[t] : stepStatus[t][i] = "VERIFIED"
============================================================================
