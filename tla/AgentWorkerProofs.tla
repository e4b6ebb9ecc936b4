-------------------------- MODULE AgentWorkerProofs --------------------------
(***************************************************************************)
(* Proofs about AgentWorker, for every set of tasks, workers and requests, *)
(* every plan and every bound.                                             *)
(*                                                                         *)
(* The inductive invariant IInv has one part per kind of state: DataInv    *)
(* relates the committed rows, TxInv(w) what the transaction of worker w   *)
(* has in hand to the rows, ReqInv(h) a request to the rows, and JobInv    *)
(* and LockInv say that no two workers have the same job or the same       *)
(* task's row.  Almost every step of a worker only rewrites its own        *)
(* transaction: MoveStep proves that such a step keeps IInv once its       *)
(* result satisfies TxInv.                                                 *)
(*                                                                         *)
(* Others are built on it, each for the properties that need more: PInv    *)
(* (how far a task has come) and RanInv (steps that ran and were not       *)
(* verified) for any number of requests; LInv (pending jobs) and CleanInv  *)
(* (such steps are in FAILED tasks only) when requests do not overlap on a *)
(* task; and VInv (approvals to decide) for plans that ask a human at one  *)
(* step.                                                                   *)
(***************************************************************************)
EXTENDS AgentWorker, SequenceTheorems, TLAPS

Looping == {"step", "execute", "verify", "commit"}
Busy    == {"claimed", "loaded", "plan"} \cup Looping
Resting == {"NONE", "PENDING", "AUTHORIZED", "COMMITTED", "VERIFIED", "VERIFY_FAILED", "REJECTED"}

\* What the loop over the steps has in hand agrees with its place in the loop.
LoopInv(r) ==
    /\ Len(r.tools) <= MaxSteps
    /\ r.pc \in {"execute", "verify"} => r.pos <= Len(r.tools)
    /\ r.pc = "execute" => r.steps[r.pos] = "EXECUTING"
    /\ r.pc = "verify" => r.steps[r.pos] = "COMMITTED"
    /\ \A i \in StepIds : \/ r.steps[i] \in Resting
                          \/ r.pc \in {"execute", "verify"} /\ i = r.pos
    /\ r.pc = "commit" => r.status \in {"PAUSED", "COMPLETED", "FAILED"}

\* The plan, and whatever is VERIFIED in the database, is in hand; a HIGH tool
\* about to be called was approved.
HandInv(r) ==
    /\ r.pc \in Looping => r.planned
    /\ r.pc \in {"loaded", "plan"} => r.planned = planned[r.task]
    /\ r.pc \in Looping =>
         \A i \in StepIds : stepStatus[r.task][i] = "VERIFIED" => r.steps[i] = "VERIFIED"
    /\ r.pc = "execute" /\ RiskOf(r.tools[r.pos]) = "HIGH" => <<r.task, r.pos>> \in approvedOnce

\* The job claimed is in the queue, and is the task's.
ClaimInv(r) ==
    /\ r.pc \in Busy => r.task \in Tasks
    /\ r.pc \in Busy \cup {"raised"} => r.job \in DOMAIN jobs
    /\ r.pc \in Busy => jobs[r.job].task = r.task

TxInv(r) == LoopInv(r) /\ HandInv(r) /\ ClaimInv(r)

\* A request is about a row that exists, so the task has a plan.
ReqInv(r) == r.pc # "idle" => /\ r.task \in Tasks /\ r.step \in StepIds
                              /\ r.row \in ApprovalIds
                              /\ planned[r.task]

\* A task nobody submitted has no job; a task without a plan has one at most,
\* no approval and no verified step.
DataInv ==
    /\ \A t \in Tasks : Len(tools[t]) <= MaxSteps
    /\ \A t \in Tasks : taskStatus[t] = "NONE" => \A j \in DOMAIN jobs : jobs[j].task # t
    /\ \A t \in Tasks : ~planned[t] =>
         \A j, k \in DOMAIN jobs : jobs[j].task = t /\ jobs[k].task = t => j = k
    /\ \A t \in Tasks : ~planned[t] => \A i \in StepIds : stepStatus[t][i] # "VERIFIED"
    /\ \A t \in Tasks : ~planned[t] =>
         \A i \in StepIds, n \in ApprovalIds : approvals[t][i][n] = "NONE"
    /\ \A t \in Tasks, i \in StepIds, n \in ApprovalIds :
         approvals[t][i][n] = "APPROVED" => <<t, i>> \in approvedOnce

\* No task is published PLANNING or RUNNING, and no step EXECUTING.
AtRest ==
    \A t \in Tasks : /\ taskStatus[t] \notin {"PLANNING", "RUNNING"}
                     /\ \A i \in StepIds : stepStatus[t][i] # "EXECUTING"

\* No two workers process one job, and no two drive one task.
JobInv ==
    \A v, w \in Workers :
        tx[v].pc \in Busy /\ tx[w].pc \in Busy /\ tx[v].job = tx[w].job => v = w

LockInv ==
    \A v, w \in Workers :
        tx[v].pc \in Driving /\ tx[w].pc \in Driving /\ tx[v].task = tx[w].task => v = w

IInv == /\ TypeOK
        /\ \A w \in Workers : TxInv(tx[w])
        /\ \A h \in Handlers : ReqInv(req[h])
        /\ DataInv /\ JobInv /\ LockInv /\ AtRest

----------------------------------------------------------------------------
(***************************************************************************)
(* The operators.                                                          *)
(***************************************************************************)

\* Updating the status of a job keeps the queue a queue of the same jobs.
LEMMA JobUpdate ==
    ASSUME jobs \in Seq(JobRows), NEW j \in DOMAIN jobs, NEW s \in JobStatuses
    PROVE  /\ [jobs EXCEPT ![j].status = s] \in Seq(JobRows)
           /\ DOMAIN [jobs EXCEPT ![j].status = s] = DOMAIN jobs
           /\ \A k \in DOMAIN jobs : [jobs EXCEPT ![j].status = s][k].task = jobs[k].task
<1> DEFINE e == [jobs[j] EXCEPT !.status = s]
<1>1. DOMAIN jobs = 1..Len(jobs) /\ Len(jobs) \in Nat
  BY LenProperties
<1>2. jobs[j] \in JobRows
  BY <1>1, ElementOfSeq
<1>3. e \in JobRows /\ e.task = jobs[j].task
  BY <1>2 DEF JobRows
<1>4. [jobs EXCEPT ![j].status = s] = [jobs EXCEPT ![j] = e]
  OBVIOUS
<1> HIDE DEF e
<1>5. /\ [jobs EXCEPT ![j] = e] \in Seq(JobRows)
      /\ Len([jobs EXCEPT ![j] = e]) = Len(jobs)
      /\ \A k \in 1..Len(jobs) : [jobs EXCEPT ![j] = e][k] = IF k = j THEN e ELSE jobs[k]
  BY <1>1, <1>3, ExceptSeq
<1> QED
  BY <1>1, <1>3, <1>4, <1>5

\* Appending a job keeps the jobs there are.
LEMMA JobAppend ==
    ASSUME jobs \in Seq(JobRows), NEW t \in Tasks
    PROVE  LET js == jobs \o <<[task |-> t, status |-> "pending"]>>
           IN  /\ js \in Seq(JobRows)
               /\ DOMAIN js = DOMAIN jobs \cup {Len(jobs) + 1}
               /\ \A k \in DOMAIN jobs : js[k] = jobs[k]
               /\ js[Len(jobs) + 1].task = t
               /\ Len(jobs) + 1 \notin DOMAIN jobs
BY DEF JobRows, JobStatuses

\* The tools and the approval rows a worker holds, at the step it is at.
LEMMA AskedType ==
    ASSUME TypeOK, NEW w \in Workers, tx[w].pos \in StepIds, NEW reached
    PROVE  /\ Asked(w, tx[w].pos) \in SUBSET (StepIds \X ApprovalIds)
           /\ AskedAfter(w, reached) \in SUBSET (StepIds \X ApprovalIds)
<1>1. tx[w].asked \in SUBSET (StepIds \X ApprovalIds)
  BY DEF TypeOK, Txs
<1>2. Asked(w, tx[w].pos) \in SUBSET (StepIds \X ApprovalIds)
  BY <1>1 DEF Asked
<1> QED
  BY <1>1, <1>2 DEF AskedAfter

\* A worker at a step is at a step of the plan.
LEMMA AtStepPos ==
    ASSUME TypeOK, NEW w \in Workers, TxInv(tx[w]),
           AtStep(w) \/ tx[w].pc \in {"execute", "verify"}
    PROVE  tx[w].pos \in StepIds /\ tx[w].pos \in 1..Len(tx[w].tools)
BY BoundsAssumption DEF TypeOK, Txs, TxInv, LoopInv, AtStep, StepIds

\* The steps of a fresh plan are pending.
LEMMA PlanType ==
    ASSUME NEW p \in Plans, NEW k \in 0..Len(p)
    PROVE  /\ p \in Seq(ToolNames) /\ Len(p) <= MaxSteps
           /\ SubSeq(p, 1, k) \in Seq(ToolNames) /\ Len(SubSeq(p, 1, k)) = k
           /\ NewSteps(p, k) \in [StepIds -> {"PENDING", "NONE"}]
BY PlansAssumption DEF NewSteps

\* An idle transaction has the type of a transaction.
LEMMA NoTxType == NoTx \in Txs /\ NoReq \in Requests
<1>1. <<>> \in Seq(ToolNames)
  BY EmptySeq
<1>2. NoSteps \in [StepIds -> StepStatuses]
  BY DEF NoSteps, StepStatuses
<1>3. NoTx \in Txs
  BY <1>1, <1>2 DEF NoTx, Txs, WorkerPCs, TaskStatuses, MaxRetries
<1> QED
  BY <1>3 DEF NoReq, Requests, RequestPCs, Decisions

\* The jobs in the queue are jobs of tasks.
LEMMA JobsOfTasks ==
    ASSUME TypeOK, NEW j \in DOMAIN jobs
    PROVE  j \in Nat /\ jobs[j] \in JobRows /\ jobs[j].task \in Tasks
<1>1. jobs \in Seq(JobRows)
  BY DEF TypeOK
<1>2. j \in 1..Len(jobs) /\ j \in Nat
  BY <1>1, LenProperties
<1>3. jobs[j] \in JobRows
  BY <1>1, <1>2, ElementOfSeq
<1> QED
  BY <1>2, <1>3 DEF JobRows

----------------------------------------------------------------------------
(***************************************************************************)
(* The steps of a worker inside its transaction.                           *)
(***************************************************************************)

\* A step that only rewrites the transaction of w, to one that satisfies TxInv,
\* of the same job and the same locks or with a lock that was free, keeps IInv.
LEMMA MoveStep ==
    ASSUME IInv, NEW w \in Workers, NEW r \in Txs, Move(w, r), TxInv(r),
           effects' \in [Tasks -> [StepIds -> 0..MaxEffects]],
           tx[w].pc \in Busy, r.job = tx[w].job, r.task = tx[w].task,
           r.pc \in Driving => tx[w].pc \in Driving \/ TaskRowFree(r.task)
    PROVE  IInv'
<1>1. tx' = [tx EXCEPT ![w] = r] /\ UNCHANGED <<rows, req, approvedOnce, faults>>
  BY DEF Move
<1>2. tx \in [Workers -> Txs]
  BY DEF IInv, TypeOK
<1>3. \A v \in Workers : tx'[v] = IF v = w THEN r ELSE tx[v]
  BY <1>1, <1>2
<1>4. TypeOK'
  BY <1>1 DEF IInv, TypeOK, rows
<1>5. \A v \in Workers : TxInv(tx[v])'
  BY <1>1, <1>3 DEF IInv, TxInv, LoopInv, HandInv, ClaimInv, rows
<1>6. \A h \in Handlers : ReqInv(req[h])'
  BY <1>1 DEF IInv, ReqInv, rows
<1>7. DataInv' /\ AtRest'
  BY <1>1 DEF IInv, DataInv, AtRest, rows
<1>8. JobInv'
  BY <1>3 DEF IInv, JobInv
<1>9. LockInv'
  BY <1>3 DEF IInv, LockInv, TaskRowFree, WorkerHolds
<1> QED
  BY <1>4, <1>5, <1>6, <1>7, <1>8, <1>9 DEF IInv

\* Claiming, reading and locking a task.
LEMMA ClaimStep ==
    ASSUME IInv, NEW w \in Workers, ClaimJob(w)
    PROVE  IInv'
<1>1. PICK j \in DOMAIN jobs :
        /\ Claimable(j)
        /\ Move(w, [NoTx EXCEPT !.pc = "claimed", !.job = j, !.task = jobs[j].task])
  BY DEF ClaimJob
<1> DEFINE r == [NoTx EXCEPT !.pc = "claimed", !.job = j, !.task = jobs[j].task]
<1>2. j \in Nat /\ jobs[j].task \in Tasks
  BY JobsOfTasks DEF IInv
<1>3. r \in Txs
  BY <1>2, NoTxType DEF Txs, WorkerPCs
<1>4. /\ r.pc = "claimed" /\ r.job = j /\ r.task = jobs[j].task
      /\ r.tools = <<>> /\ r.steps = NoSteps
  BY DEF NoTx
<1>5. TxInv(r)
  BY <1>2, <1>4, EmptySeq, BoundsAssumption
  DEF TxInv, LoopInv, HandInv, ClaimInv, NoSteps, Resting, Looping, Busy
<1> HIDE DEF r
<1>6. tx' = [tx EXCEPT ![w] = r] /\ UNCHANGED <<rows, req, approvedOnce, faults, effects>>
  BY <1>1 DEF Move, ClaimJob, r
<1>7. \A v \in Workers : tx'[v] = IF v = w THEN r ELSE tx[v]
  BY <1>6 DEF IInv, TypeOK
<1>8. TypeOK'
  BY <1>3, <1>6 DEF IInv, TypeOK, rows
<1>9. \A v \in Workers : TxInv(tx[v])'
  BY <1>5, <1>6, <1>7 DEF IInv, TxInv, LoopInv, HandInv, ClaimInv, rows
<1>10. \A h \in Handlers : ReqInv(req[h])'
  BY <1>6 DEF IInv, ReqInv, rows
<1>11. DataInv' /\ AtRest'
  BY <1>6 DEF IInv, DataInv, AtRest, rows
<1>12. JobInv'
  BY <1>1, <1>4, <1>7 DEF IInv, JobInv, Claimable, JobRowFree, Busy, Looping
<1>13. LockInv'
  BY <1>4, <1>7 DEF IInv, LockInv, Driving
<1> QED
  BY <1>8, <1>9, <1>10, <1>11, <1>12, <1>13 DEF IInv

LEMMA LoadStep ==
    ASSUME IInv, NEW w \in Workers, LoadTask(w)
    PROVE  IInv'
<1> DEFINE r == [tx[w] EXCEPT !.pc = "loaded", !.planned = planned[tx[w].task]]
<1>1. tx[w] \in Txs /\ TxInv(tx[w]) /\ tx[w].pc = "claimed"
  BY DEF IInv, TypeOK, LoadTask
<1>2. tx[w].task \in Tasks
  BY <1>1 DEF TxInv, ClaimInv, Busy
<1>3. planned[tx[w].task] \in BOOLEAN
  BY <1>2 DEF IInv, TypeOK
<1>4. r \in Txs
  BY <1>1, <1>3 DEF Txs, WorkerPCs
<1>5. TxInv(r)
  BY <1>1 DEF Txs, TxInv, LoopInv, HandInv, ClaimInv, Busy, Looping
<1> QED
  BY <1>1, <1>4, <1>5, MoveStep DEF LoadTask, IInv, TypeOK, Txs, Busy, Driving

LEMMA LockStep ==
    ASSUME IInv, NEW w \in Workers, LockTask(w)
    PROVE  IInv'
<1> DEFINE r == [tx[w] EXCEPT !.pc = "plan", !.status = "PLANNING"]
<1>1. tx[w] \in Txs /\ TxInv(tx[w]) /\ tx[w].pc = "loaded"
  BY DEF IInv, TypeOK, LockTask
<1>2. r \in Txs
  BY <1>1 DEF Txs, WorkerPCs, TaskStatuses
<1>3. TxInv(r)
  BY <1>1 DEF Txs, TxInv, LoopInv, HandInv, ClaimInv, Busy, Looping
<1> QED
  BY <1>1, <1>2, <1>3, MoveStep DEF LockTask, IInv, TypeOK, Txs, Busy

\* A plan was made for a task that had none, so nothing of it was VERIFIED.
LEMMA FreshPlanStep ==
    ASSUME IInv, NEW w \in Workers, DraftPlan(w) \/ RejectPlan(w) \/ MalformedPlan(w)
    PROVE  IInv'
<1>1. /\ tx[w] \in Txs /\ TxInv(tx[w]) /\ tx[w].pc = "plan" /\ ~tx[w].planned
      /\ effects' \in [Tasks -> [StepIds -> 0..MaxEffects]]
  BY DEF IInv, TypeOK, DraftPlan, RejectPlan, MalformedPlan
<1>2. tx[w].task \in Tasks /\ ~planned[tx[w].task]
  BY <1>1 DEF TxInv, ClaimInv, HandInv, Busy
<1>3. \A i \in StepIds : stepStatus[tx[w].task][i] # "VERIFIED"
  BY <1>2 DEF IInv, DataInv
<1>4. CASE DraftPlan(w)
  <2>1. PICK p \in Plans :
          Move(w, [tx[w] EXCEPT !.pc = "step", !.status = "RUNNING", !.planned = TRUE,
                                !.tools = p, !.steps = NewSteps(p, Len(p))])
    BY <1>4 DEF DraftPlan
  <2> DEFINE r == [tx[w] EXCEPT !.pc = "step", !.status = "RUNNING", !.planned = TRUE,
                                !.tools = p, !.steps = NewSteps(p, Len(p))]
  <2>2. Len(p) \in 0..Len(p)
    BY PlansAssumption, LenProperties
  <2>3. /\ p \in Seq(ToolNames) /\ Len(p) <= MaxSteps
        /\ NewSteps(p, Len(p)) \in [StepIds -> {"PENDING", "NONE"}]
    BY <2>2, PlanType
  <2>4. r \in Txs
    BY <1>1, <2>3 DEF Txs, WorkerPCs, TaskStatuses, StepStatuses
  <2>5. TxInv(r)
    BY <1>1, <1>3, <2>3 DEF Txs, TxInv, LoopInv, HandInv, ClaimInv, Busy, Looping, Resting
  <2> QED
    BY <1>1, <2>1, <2>4, <2>5, MoveStep DEF Txs, Busy, Driving
<1>5. CASE RejectPlan(w)
  <2> DEFINE r == [tx[w] EXCEPT !.pc = "commit", !.status = "FAILED", !.planned = TRUE]
  <2>1. r \in Txs
    BY <1>1 DEF Txs, WorkerPCs, TaskStatuses
  <2>2. TxInv(r)
    BY <1>1, <1>3 DEF Txs, TxInv, LoopInv, HandInv, ClaimInv, Busy, Looping, Resting
  <2> QED
    BY <1>1, <1>5, <2>1, <2>2, MoveStep DEF RejectPlan, Txs, Busy, Driving
<1>6. CASE MalformedPlan(w)
  <2>a. PICK p \in Plans : \E k \in 0..(Len(p) - 1) :
          Move(w, [tx[w] EXCEPT !.pc = "commit", !.status = "FAILED", !.planned = TRUE,
                                !.tools = SubSeq(p, 1, k), !.steps = NewSteps(p, k)])
    BY <1>6 DEF MalformedPlan
  <2>1. PICK k \in 0..(Len(p) - 1) :
          Move(w, [tx[w] EXCEPT !.pc = "commit", !.status = "FAILED", !.planned = TRUE,
                                !.tools = SubSeq(p, 1, k), !.steps = NewSteps(p, k)])
    BY <2>a
  <2> DEFINE r == [tx[w] EXCEPT !.pc = "commit", !.status = "FAILED", !.planned = TRUE,
                                !.tools = SubSeq(p, 1, k), !.steps = NewSteps(p, k)]
  <2>2. k \in 0..Len(p) /\ Len(p) \in Nat
    BY PlansAssumption, LenProperties
  <2>3. /\ Len(p) <= MaxSteps
        /\ SubSeq(p, 1, k) \in Seq(ToolNames) /\ Len(SubSeq(p, 1, k)) = k
        /\ NewSteps(p, k) \in [StepIds -> {"PENDING", "NONE"}]
    BY <2>2, PlanType
  <2>4. r \in Txs
    BY <1>1, <2>3 DEF Txs, WorkerPCs, TaskStatuses, StepStatuses
  <2>5. TxInv(r)
    BY <1>1, <1>3, <2>2, <2>3, BoundsAssumption
    DEF Txs, TxInv, LoopInv, HandInv, ClaimInv, Busy, Looping, Resting
  <2> QED
    BY <1>1, <2>1, <2>4, <2>5, MoveStep DEF Txs, Busy, Driving
<1> QED
  BY <1>4, <1>5, <1>6

LEMMA ResumeStep ==
    ASSUME IInv, NEW w \in Workers, ResumePlan(w)
    PROVE  IInv'
<1> DEFINE r == [tx[w] EXCEPT !.pc = "step", !.status = "RUNNING",
                              !.tools = tools[tx[w].task],
                              !.steps = stepStatus[tx[w].task]]
<1>1. tx[w] \in Txs /\ TxInv(tx[w]) /\ tx[w].pc = "plan" /\ tx[w].planned
  BY DEF IInv, TypeOK, ResumePlan
<1>2. tx[w].task \in Tasks
  BY <1>1 DEF TxInv, ClaimInv, Busy
<1>3. /\ tools[tx[w].task] \in Seq(ToolNames)
      /\ stepStatus[tx[w].task] \in [StepIds -> StepStatuses]
      /\ Len(tools[tx[w].task]) <= MaxSteps
      /\ \A i \in StepIds : stepStatus[tx[w].task][i] \in Resting
  BY <1>2 DEF IInv, TypeOK, DataInv, AtRest, StepStatuses, Resting
<1>4. r \in Txs
  BY <1>1, <1>3 DEF Txs, WorkerPCs, TaskStatuses
<1>5. TxInv(r)
  BY <1>1, <1>3 DEF Txs, TxInv, LoopInv, HandInv, ClaimInv, Busy, Looping
<1> QED
  BY <1>1, <1>4, <1>5, MoveStep DEF ResumePlan, IInv, TypeOK, Txs, Busy, Driving

\* Going on to the next step changes where the loop is and nothing else.
LEMMA NextStepType ==
    ASSUME NEW r \in Txs
    PROVE  /\ NextStep(r) \in Txs
           /\ NextStep(r).pc = "step"
           /\ NextStep(r).job = r.job /\ NextStep(r).task = r.task
           /\ NextStep(r).tools = r.tools /\ NextStep(r).steps = r.steps
           /\ NextStep(r).planned = r.planned
<1> DEFINE n == r.pos + 1
<1>1. n \in Nat \ {0} /\ 1 \in 1..MaxRetries
  BY DEF Txs, MaxRetries
<1>2. NextStep(r) = [r EXCEPT !.pc = "step", !.pos = n, !.attempt = 1]
  BY DEF NextStep
<1> HIDE DEF n
<1> QED
  BY <1>1, <1>2 DEF Txs, WorkerPCs

\* A step that is taken up is not VERIFIED in the database; moving on from it,
\* settled or not, or pausing at it keeps what the loop has in hand.
LEMMA TakenUp ==
    ASSUME IInv, NEW w \in Workers, TakeUp(w)
    PROVE  /\ tx[w].pos \in StepIds /\ tx[w].pos \in 1..Len(tx[w].tools)
           /\ stepStatus[tx[w].task][tx[w].pos] # "VERIFIED"
<1>1. tx[w] \in Txs /\ TxInv(tx[w]) /\ tx[w].pc = "step"
  BY DEF IInv, TypeOK, TakeUp, AtStep
<1>2. tx[w].pos \in StepIds /\ tx[w].pos \in 1..Len(tx[w].tools)
  BY <1>1, AtStepPos DEF IInv, TakeUp
<1> QED
  BY <1>1, <1>2 DEF TakeUp, Skipped, TxInv, HandInv, Looping

LEMMA SkipStep ==
    ASSUME IInv, NEW w \in Workers, ReplayStep(w) \/ CompleteTask(w)
    PROVE  IInv'
<1>1. tx[w] \in Txs /\ TxInv(tx[w]) /\ tx[w].pc = "step"
  BY DEF IInv, TypeOK, ReplayStep, CompleteTask, AtStep
<1>2. CASE ReplayStep(w)
  <2> DEFINE r == NextStep(tx[w])
  <2>1. /\ r \in Txs /\ r.pc = "step" /\ r.job = tx[w].job /\ r.task = tx[w].task
        /\ r.tools = tx[w].tools /\ r.steps = tx[w].steps /\ r.planned = tx[w].planned
    BY <1>1, NextStepType
  <2> HIDE DEF r
  <2>2. TxInv(r)
    BY <1>1, <2>1 DEF TxInv, LoopInv, HandInv, ClaimInv, Busy, Looping
  <2>3. Move(w, r) /\ UNCHANGED effects
    BY <1>2 DEF ReplayStep, r
  <2> QED
    BY <1>1, <2>1, <2>2, <2>3, MoveStep DEF IInv, TypeOK, Busy, Driving, Looping
<1>3. CASE CompleteTask(w)
  <2> DEFINE r == [tx[w] EXCEPT !.pc = "commit", !.status = "COMPLETED"]
  <2>1. r \in Txs
    BY <1>1 DEF Txs, WorkerPCs, TaskStatuses
  <2>2. TxInv(r)
    BY <1>1 DEF Txs, TxInv, LoopInv, HandInv, ClaimInv, Busy, Looping
  <2> QED
    BY <1>1, <1>3, <2>1, <2>2, MoveStep
    DEF CompleteTask, IInv, TypeOK, Txs, Busy, Driving, Looping
<1> QED
  BY <1>2, <1>3

\* Setting the status of the step the worker is at.
LEMMA MarkStepType ==
    ASSUME IInv, NEW w \in Workers, NEW s \in StepStatuses, tx[w].pos \in StepIds
    PROVE  /\ MarkStep(w, s) \in Txs
           /\ \A i \in StepIds : MarkStep(w, s).steps[i] = IF i = tx[w].pos THEN s
                                                           ELSE tx[w].steps[i]
           /\ MarkStep(w, s) = [tx[w] EXCEPT !.steps = MarkStep(w, s).steps]
           /\ MarkStep(w, s).asked = tx[w].asked /\ MarkStep(w, s).tools = tx[w].tools
           /\ MarkStep(w, s).job = tx[w].job /\ MarkStep(w, s).task = tx[w].task
           /\ MarkStep(w, s).planned = tx[w].planned /\ MarkStep(w, s).pos = tx[w].pos
BY DEF IInv, TypeOK, Txs, MarkStep

\* A step of the loop keeps IInv when it keeps the job and the plan in hand,
\* leaves the loop consistent and does not touch a step VERIFIED in the database.
LEMMA LoopStep ==
    ASSUME IInv, NEW w \in Workers, NEW r \in Txs, Move(w, r),
           effects' \in [Tasks -> [StepIds -> 0..MaxEffects]],
           tx[w].pc \in Looping, r.pc \in Looping, LoopInv(r),
           r.job = tx[w].job, r.task = tx[w].task, r.planned = tx[w].planned,
           \A i \in StepIds : r.steps[i] = tx[w].steps[i]
                                \/ stepStatus[tx[w].task][i] # "VERIFIED",
           r.pc = "execute" /\ RiskOf(r.tools[r.pos]) = "HIGH"
             => <<r.task, r.pos>> \in approvedOnce
    PROVE  IInv'
<1>1. TxInv(tx[w])
  BY DEF IInv
<1>2. TxInv(r)
  BY <1>1 DEF TxInv, HandInv, ClaimInv, Busy, Looping
<1> QED
  BY <1>2, MoveStep DEF Busy, Looping, Driving

\* The task pauses, or fails, at the step it is at.
LEMMA StopStep ==
    ASSUME IInv, NEW w \in Workers, TakeUp(w),
           NEW asked \in SUBSET (StepIds \X ApprovalIds), NEW status \in {"PAUSED", "FAILED"},
           NEW r, Move(w, r), UNCHANGED effects,
           r = [MarkStep(w, "AUTHORIZED") EXCEPT !.asked = asked, !.pc = "commit",
                                                 !.status = status]
    PROVE  IInv'
<1> DEFINE m == MarkStep(w, "AUTHORIZED")
<1>1. /\ tx[w] \in Txs /\ LoopInv(tx[w]) /\ tx[w].pc = "step"
      /\ tx[w].pos \in StepIds /\ stepStatus[tx[w].task][tx[w].pos] # "VERIFIED"
  BY TakenUp DEF IInv, TypeOK, TxInv, TakeUp, AtStep
<1>2. /\ m \in Txs
      /\ \A i \in StepIds : m.steps[i] = IF i = tx[w].pos THEN "AUTHORIZED" ELSE tx[w].steps[i]
      /\ m.job = tx[w].job /\ m.task = tx[w].task /\ m.planned = tx[w].planned
      /\ m.tools = tx[w].tools
  BY <1>1, MarkStepType DEF StepStatuses
<1>5. r = [m EXCEPT !.asked = asked, !.pc = "commit", !.status = status]
  BY DEF m
<1> HIDE DEF m
<1>3. r \in Txs
  BY <1>2, <1>5 DEF Txs, WorkerPCs, TaskStatuses
<1>4. /\ r.pc = "commit" /\ r.status = status /\ r.steps = m.steps
      /\ r.job = tx[w].job /\ r.task = tx[w].task /\ r.planned = tx[w].planned
      /\ r.tools = tx[w].tools
  BY <1>1, <1>2, <1>5 DEF Txs
<1>6. LoopInv(r)
  BY <1>1, <1>2, <1>4 DEF LoopInv, Resting
<1>7. effects' \in [Tasks -> [StepIds -> 0..MaxEffects]]
  BY DEF IInv, TypeOK
<1>8. \A i \in StepIds : r.steps[i] = tx[w].steps[i] \/ stepStatus[tx[w].task][i] # "VERIFIED"
  BY <1>1, <1>2, <1>4
<1>9. tx[w].pc \in Looping /\ r.pc \in Looping /\ r.pc # "execute"
  BY <1>1, <1>4 DEF Looping
<1> QED
  BY <1>3, <1>4, <1>6, <1>7, <1>8, <1>9, LoopStep

LEMMA PauseStep ==
    ASSUME IInv, NEW w \in Workers,
           AwaitDecision(w) \/ AskApproval(w) \/ AmbiguousApproval(w)
    PROVE  IInv'
<1> DEFINE m == MarkStep(w, "AUTHORIZED")
<1>1. /\ TakeUp(w) /\ UNCHANGED effects /\ tx[w] \in Txs
      /\ tx[w].pos \in StepIds
  BY TakenUp DEF AwaitDecision, AskApproval, AmbiguousApproval, IInv, TypeOK
<1>2. m \in Txs /\ m.asked = tx[w].asked
  BY <1>1, MarkStepType DEF StepStatuses
<1> HIDE DEF m
<1>3. tx[w].asked \in SUBSET (StepIds \X ApprovalIds)
  BY <1>1 DEF Txs
<1>4. CASE AwaitDecision(w)
  <2>1. PauseTask(m) = [m EXCEPT !.asked = tx[w].asked, !.pc = "commit", !.status = "PAUSED"]
    BY <1>2 DEF PauseTask, Txs
  <2> QED
    BY <1>1, <1>3, <1>4, <2>1, StopStep DEF AwaitDecision, m
<1>5. CASE AskApproval(w)
  <2> DEFINE a == Asked(w, tx[w].pos)
  <2>1. a \in SUBSET (StepIds \X ApprovalIds)
    BY <1>1, AskedType DEF IInv
  <2>2. PauseTask([m EXCEPT !.asked = a]) = [m EXCEPT !.asked = a, !.pc = "commit",
                                                      !.status = "PAUSED"]
    BY <1>2 DEF PauseTask, Txs
  <2> QED
    BY <1>1, <1>5, <2>1, <2>2, StopStep DEF AskApproval, m
<1>6. CASE AmbiguousApproval(w)
  <2>1. FailTask(m) = [m EXCEPT !.asked = tx[w].asked, !.pc = "commit", !.status = "FAILED"]
    BY <1>2 DEF FailTask, Txs
  <2> QED
    BY <1>1, <1>3, <1>6, <2>1, StopStep DEF AmbiguousApproval, m
<1> QED
  BY <1>1, <1>4, <1>5, <1>6 DEF AwaitDecision, AskApproval, AmbiguousApproval

\* The step a worker has in hand is not VERIFIED in the database.
LEMMA InHand ==
    ASSUME IInv, NEW w \in Workers, TakeUp(w) \/ tx[w].pc \in {"execute", "verify"}
    PROVE  /\ tx[w] \in Txs /\ LoopInv(tx[w]) /\ tx[w].pc \in Looping
           /\ tx[w].pos \in StepIds /\ tx[w].pos \in 1..Len(tx[w].tools)
           /\ stepStatus[tx[w].task][tx[w].pos] # "VERIFIED"
<1>1. tx[w] \in Txs /\ TxInv(tx[w])
  BY DEF IInv, TypeOK
<1>2. tx[w].pos \in StepIds /\ tx[w].pos \in 1..Len(tx[w].tools)
  BY <1>1, AtStepPos DEF IInv, TakeUp
<1>3. tx[w].pc \in Looping
  BY DEF TakeUp, AtStep, Looping
<1>4. CASE TakeUp(w)
  BY <1>1, <1>2, <1>3, <1>4, TakenUp DEF TxInv
<1>5. CASE tx[w].pc \in {"execute", "verify"}
  <2>1. tx[w].steps[tx[w].pos] # "VERIFIED"
    BY <1>1, <1>5 DEF TxInv, LoopInv
  <2> QED
    BY <1>1, <1>2, <1>3, <2>1 DEF TxInv, HandInv
<1> QED
  BY <1>4, <1>5

\* The step in hand is settled, and the task goes on to the next one.
LEMMA SettleStep ==
    ASSUME IInv, NEW w \in Workers, TakeUp(w) \/ tx[w].pc \in {"execute", "verify"},
           NEW asked \in SUBSET (StepIds \X ApprovalIds), NEW s \in Settled,
           NEW r, Move(w, r), UNCHANGED effects,
           r = NextStep([MarkStep(w, s) EXCEPT !.asked = asked])
    PROVE  IInv'
<1> DEFINE m == MarkStep(w, s)
           a == [m EXCEPT !.asked = asked]
<1>1. /\ tx[w] \in Txs /\ LoopInv(tx[w]) /\ tx[w].pc \in Looping
      /\ tx[w].pos \in StepIds /\ stepStatus[tx[w].task][tx[w].pos] # "VERIFIED"
  BY InHand
<1>2. /\ m \in Txs
      /\ \A i \in StepIds : m.steps[i] = IF i = tx[w].pos THEN s ELSE tx[w].steps[i]
      /\ m.job = tx[w].job /\ m.task = tx[w].task /\ m.planned = tx[w].planned
      /\ m.tools = tx[w].tools
  BY <1>1, MarkStepType DEF Settled, StepStatuses
<1> HIDE DEF m
<1>3. /\ a \in Txs /\ a.job = m.job /\ a.task = m.task /\ a.planned = m.planned
      /\ a.tools = m.tools /\ a.steps = m.steps
  BY <1>2 DEF Txs
<1>4. r = NextStep(a)
  BY DEF m
<1> HIDE DEF a
<1>5. /\ r \in Txs /\ r.pc = "step" /\ r.job = tx[w].job /\ r.task = tx[w].task
      /\ r.planned = tx[w].planned /\ r.tools = tx[w].tools /\ r.steps = m.steps
  BY <1>2, <1>3, <1>4, NextStepType
<1>6. LoopInv(r)
  BY <1>1, <1>2, <1>5 DEF LoopInv, Resting, Settled
<1>7. effects' \in [Tasks -> [StepIds -> 0..MaxEffects]]
  BY DEF IInv, TypeOK
<1>8. \A i \in StepIds : r.steps[i] = tx[w].steps[i] \/ stepStatus[tx[w].task][i] # "VERIFIED"
  BY <1>1, <1>2, <1>5
<1>9. r.pc \in Looping /\ r.pc # "execute"
  BY <1>5 DEF Looping
<1> QED
  BY <1>1, <1>5, <1>6, <1>7, <1>8, <1>9, LoopStep

\* What the transaction becomes when the verification of the step in hand raises.
LEMMA RaiseHand ==
    ASSUME IInv, NEW w \in Workers, VerifyRaises(w)
    PROVE  \E r \in Txs :
             /\ Move(w, r) /\ r.pc = "commit" /\ r.status = "FAILED" /\ r.job = tx[w].job
             /\ r.task = tx[w].task /\ r.planned = tx[w].planned /\ r.tools = tx[w].tools
             /\ r.steps = tx[w].steps /\ r.asked = tx[w].asked
<1>1. tx[w] \in Txs /\ Move(w, FailTask(tx[w]))
  BY DEF IInv, TypeOK, VerifyRaises
<1>2. PICK r : r = FailTask(tx[w])
  OBVIOUS
<1>3. r \in Txs
  BY <1>1, <1>2 DEF FailTask, Txs, WorkerPCs, TaskStatuses
<1>4. /\ r.pc = "commit" /\ r.status = "FAILED" /\ r.job = tx[w].job
      /\ r.task = tx[w].task /\ r.planned = tx[w].planned /\ r.tools = tx[w].tools
      /\ r.steps = tx[w].steps /\ r.asked = tx[w].asked
  BY <1>1, <1>2 DEF FailTask, Txs
<1> QED
  BY <1>1, <1>2, <1>3, <1>4

LEMMA RaiseStep ==
    ASSUME IInv, NEW w \in Workers, VerifyRaises(w)
    PROVE  IInv'
<1>1. PICK r \in Txs :
             /\ Move(w, r) /\ r.pc = "commit" /\ r.status = "FAILED" /\ r.job = tx[w].job
             /\ r.task = tx[w].task /\ r.planned = tx[w].planned /\ r.tools = tx[w].tools
             /\ r.steps = tx[w].steps /\ r.asked = tx[w].asked
  BY RaiseHand
<1>2. tx[w].pc = "verify" /\ LoopInv(tx[w]) /\ UNCHANGED effects
  BY DEF VerifyRaises, IInv, TxInv
<1>3. LoopInv(r)
  BY <1>1, <1>2 DEF LoopInv, Resting
<1>4. effects' \in [Tasks -> [StepIds -> 0..MaxEffects]]
  BY <1>2 DEF IInv, TypeOK
<1>5. tx[w].pc \in Looping /\ r.pc \in Looping /\ r.pc # "execute"
  BY <1>1, <1>2 DEF Looping
<1> QED
  BY <1>1, <1>3, <1>4, <1>5, LoopStep

LEMMA AnswerStep ==
    ASSUME IInv, NEW w \in Workers, DenyStep(w) \/ StepFails(w) \/ VerifyStep(w)
    PROVE  IInv'
<1>1. TakeUp(w) \/ tx[w].pc \in {"execute", "verify"}
  BY DEF DenyStep, StepFails, VerifyStep
<1>2. tx[w] \in Txs /\ tx[w].pos \in StepIds /\ tx[w].asked \in SUBSET (StepIds \X ApprovalIds)
  BY <1>1, InHand DEF Txs
<1>3. ASSUME NEW s \in Settled, Move(w, NextStep(MarkStep(w, s))), UNCHANGED effects
      PROVE  IInv'
  <2>1. MarkStep(w, s) = [MarkStep(w, s) EXCEPT !.asked = tx[w].asked]
    <3> DEFINE m == MarkStep(w, s)
    <3>1. m \in Txs /\ m.asked = tx[w].asked
      BY <1>2, MarkStepType DEF Settled, StepStatuses
    <3> HIDE DEF m
    <3>2. m = [m EXCEPT !.asked = tx[w].asked]
      BY <3>1 DEF Txs
    <3> QED
      BY <3>2 DEF m
  <2> DEFINE r == NextStep([MarkStep(w, s) EXCEPT !.asked = tx[w].asked])
  <2>2. Move(w, r)
    BY <1>3, <2>1
  <2> HIDE DEF r
  <2>3. r = NextStep([MarkStep(w, s) EXCEPT !.asked = tx[w].asked])
    BY DEF r
  <2> QED
    BY <1>1, <1>2, <1>3, <2>2, <2>3, SettleStep
<1>4. CASE DenyStep(w)
  BY <1>3, <1>4 DEF DenyStep, Settled
<1>5. CASE StepFails(w)
  <2>1. PICK reached \in MayReach(w) :
          Move(w, NextStep([MarkStep(w, "REJECTED") EXCEPT !.asked = AskedAfter(w, reached)]))
    BY <1>5 DEF StepFails
  <2> DEFINE a == AskedAfter(w, reached)
             r == NextStep([MarkStep(w, "REJECTED") EXCEPT !.asked = a])
  <2>2. a \in SUBSET (StepIds \X ApprovalIds)
    BY <1>2, AskedType DEF IInv
  <2>3. Move(w, r) /\ UNCHANGED effects /\ "REJECTED" \in Settled
    BY <1>5, <2>1 DEF StepFails, Settled
  <2>4. r = NextStep([MarkStep(w, "REJECTED") EXCEPT !.asked = a])
    OBVIOUS
  <2> HIDE DEF a, r
  <2> QED
    BY <1>1, <2>2, <2>3, <2>4, SettleStep
<1>6. CASE VerifyStep(w)
  BY <1>3, <1>6 DEF VerifyStep, VerifyOutcomes, Settled
<1> QED
  BY <1>4, <1>5, <1>6

\* Whoever is told APPROVED found the row of a decision; whoever is told allowed
\* asks for nothing HIGH.
LEMMA VerdictIsHuman ==
    ASSUME IInv, NEW w \in Workers, TakeUp(w), Verdict(w) \in {"APPROVED", "allowed"},
           RiskOf(Tool(w)) = "HIGH"
    PROVE  <<tx[w].task, tx[w].pos>> \in approvedOnce
<1> DEFINE t == tx[w].task
           i == tx[w].pos
           rowIds == ApprovalRows(w, i)
<1>1. i \in StepIds /\ t \in Tasks
  BY TakenUp DEF IInv, TxInv, ClaimInv, Busy, Looping, TakeUp, AtStep
<1>2. CASE Lookup(w, i) = "none"
  BY <1>2 DEF Verdict, Authorize
<1>3. CASE Lookup(w, i) # "none"
  <2>1. Lookup(w, i) \in {"APPROVED", "allowed"}
    BY <1>3 DEF Verdict
  <2>2. rowIds # {} /\ ~ \E n, m \in rowIds : n # m
    BY <2>1 DEF Lookup
  <2> DEFINE n == CHOOSE n \in rowIds : TRUE
  <2>3. n \in rowIds /\ rowIds \subseteq ApprovalIds
    BY <2>2 DEF ApprovalRows
  <2>4. Lookup(w, i) = IF <<i, n>> \in tx[w].asked THEN "PENDING" ELSE approvals[t][i][n]
    BY <2>2 DEF Lookup
  <2> HIDE DEF n, rowIds
  <2>5. approvals[t][i][n] \in {"APPROVED", "allowed"}
    BY <2>1, <2>4
  <2>6. approvals[t][i][n] \in Decisions \cup {"NONE"}
    BY <1>1, <2>3 DEF IInv, TypeOK
  <2>7. approvals[t][i][n] = "APPROVED"
    BY <2>5, <2>6 DEF Decisions
  <2> QED
    BY <1>1, <2>3, <2>7 DEF IInv, DataInv
<1> QED
  BY <1>2, <1>3

\* A step of the loop that stays at the step in hand, and gives it the status s.
LEMMA StayStep ==
    ASSUME IInv, NEW w \in Workers, TakeUp(w) \/ tx[w].pc = "execute",
           NEW asked \in SUBSET (StepIds \X ApprovalIds), NEW attempt \in 1..MaxRetries,
           NEW pc \in {"execute", "verify"},
           NEW s, s = (IF pc = "execute" THEN "EXECUTING" ELSE "COMMITTED"),
           NEW r, Move(w, r), effects' \in [Tasks -> [StepIds -> 0..MaxEffects]],
           r = [MarkStep(w, s) EXCEPT !.asked = asked, !.pc = pc, !.attempt = attempt],
           pc = "execute" /\ RiskOf(Tool(w)) = "HIGH" => <<tx[w].task, tx[w].pos>> \in approvedOnce
    PROVE  IInv'
<1> DEFINE m == MarkStep(w, s)
<1>1. /\ tx[w] \in Txs /\ LoopInv(tx[w]) /\ tx[w].pc \in Looping
      /\ tx[w].pos \in StepIds /\ stepStatus[tx[w].task][tx[w].pos] # "VERIFIED"
      /\ tx[w].pos <= Len(tx[w].tools)
  BY InHand
<1>2. s \in StepStatuses
  BY DEF StepStatuses
<1>3. /\ m \in Txs
      /\ \A i \in StepIds : m.steps[i] = IF i = tx[w].pos THEN s ELSE tx[w].steps[i]
      /\ m.job = tx[w].job /\ m.task = tx[w].task /\ m.planned = tx[w].planned
      /\ m.tools = tx[w].tools /\ m.pos = tx[w].pos
  BY <1>1, <1>2, MarkStepType
<1>4. r = [m EXCEPT !.asked = asked, !.pc = pc, !.attempt = attempt]
  BY DEF m
<1> HIDE DEF m
<1>5. r \in Txs
  BY <1>3, <1>4 DEF Txs, WorkerPCs
<1>6. /\ r.pc = pc /\ r.job = tx[w].job /\ r.task = tx[w].task /\ r.pos = tx[w].pos
      /\ r.planned = tx[w].planned /\ r.tools = tx[w].tools /\ r.steps = m.steps
  BY <1>3, <1>4 DEF Txs
<1>7. LoopInv(r)
  BY <1>1, <1>3, <1>6 DEF LoopInv
<1>8. \A i \in StepIds : r.steps[i] = tx[w].steps[i] \/ stepStatus[tx[w].task][i] # "VERIFIED"
  BY <1>1, <1>3, <1>6
<1>9. r.pc \in Looping
  BY <1>6 DEF Looping
<1>10. r.pc = "execute" /\ RiskOf(r.tools[r.pos]) = "HIGH" => <<r.task, r.pos>> \in approvedOnce
  BY <1>6 DEF Tool
<1> QED
  BY <1>1, <1>5, <1>6, <1>7, <1>8, <1>9, <1>10, LoopStep

LEMMA BeginStep ==
    ASSUME IInv, NEW w \in Workers, StartStep(w)
    PROVE  IInv'
<1> DEFINE m == MarkStep(w, "EXECUTING")
           a == tx[w].asked
           n == tx[w].attempt
           r == [m EXCEPT !.pc = "execute"]
<1>1. TakeUp(w) /\ Move(w, r) /\ UNCHANGED effects
  BY DEF StartStep
<1>2. /\ tx[w] \in Txs /\ tx[w].pos \in StepIds
      /\ a \in SUBSET (StepIds \X ApprovalIds) /\ n \in 1..MaxRetries
  BY <1>1, InHand DEF Txs
<1>3. m \in Txs /\ m.asked = a /\ m.attempt = n
  BY <1>2, MarkStepType DEF StepStatuses, MarkStep, Txs
<1> HIDE DEF m
<1>4. r = [m EXCEPT !.asked = a, !.pc = "execute", !.attempt = n]
  BY <1>3 DEF Txs
<1>5. RiskOf(Tool(w)) = "HIGH" => <<tx[w].task, tx[w].pos>> \in approvedOnce
  BY <1>1, VerdictIsHuman DEF StartStep
<1> HIDE DEF a, n, r
<1> QED
  BY <1>1, <1>2, <1>4, <1>5, StayStep DEF IInv, TypeOK, m

LEMMA RunStep ==
    ASSUME IInv, NEW w \in Workers, StepSucceeds(w)
    PROVE  IInv'
<1> DEFINE m == MarkStep(w, "COMMITTED")
           a == AskedAfter(w, Tool(w) \in GatewayTools)
           n == tx[w].attempt
           r == [m EXCEPT !.pc = "verify", !.asked = a]
<1>1. tx[w].pc = "execute" /\ Move(w, r)
  BY DEF StepSucceeds
<1>2. tx[w] \in Txs /\ tx[w].pos \in StepIds /\ n \in 1..MaxRetries
  BY <1>1, InHand DEF Txs
<1>3. a \in SUBSET (StepIds \X ApprovalIds)
  BY <1>2, AskedType DEF IInv
<1>4. m \in Txs /\ m.attempt = n
  BY <1>2, MarkStepType DEF StepStatuses, MarkStep, Txs
<1>5. effects' \in [Tasks -> [StepIds -> 0..MaxEffects]]
  <2> DEFINE t == tx[w].task
             e == effects[t][tx[w].pos]
             k == IF e < MaxEffects THEN e + 1 ELSE e
  <2>1. effects \in [Tasks -> [StepIds -> 0..MaxEffects]]
    BY DEF IInv, TypeOK
  <2>2. t \in Tasks
    BY <1>1 DEF IInv, TxInv, ClaimInv, Busy, Looping
  <2>3. e \in 0..MaxEffects
    BY <1>2, <2>1, <2>2
  <2>4. k \in 0..MaxEffects
    BY <2>3, BoundsAssumption
  <2>5. effects' = [effects EXCEPT ![t][tx[w].pos] = k]
    BY <2>1, <2>2, <1>2 DEF StepSucceeds
  <2> HIDE DEF t, e, k
  <2> QED
    BY <1>2, <2>1, <2>2, <2>4, <2>5
<1> HIDE DEF m, a, n
<1>6. r = [m EXCEPT !.asked = a, !.pc = "verify", !.attempt = n]
  BY <1>4 DEF Txs
<1> HIDE DEF r
<1> QED
  BY <1>1, <1>2, <1>3, <1>5, <1>6, StayStep DEF m

LEMMA RetryStep ==
    ASSUME IInv, NEW w \in Workers, StepRetries(w)
    PROVE  IInv'
<1>1. PICK reached \in MayReach(w) :
        Move(w, [tx[w] EXCEPT !.attempt = @ + 1, !.asked = AskedAfter(w, reached)])
  BY DEF StepRetries
<1> DEFINE m == MarkStep(w, "EXECUTING")
           a == AskedAfter(w, reached)
           n == tx[w].attempt + 1
           r == [tx[w] EXCEPT !.attempt = n, !.asked = a]
<1>2. /\ tx[w].pc = "execute" /\ Move(w, r) /\ UNCHANGED effects
      /\ tx[w].attempt < MaxRetries
  BY <1>1 DEF StepRetries
<1>3. tx[w] \in Txs /\ LoopInv(tx[w]) /\ tx[w].pos \in StepIds
  BY <1>2, InHand
<1>4. n \in 1..MaxRetries
  BY <1>2, <1>3 DEF Txs, MaxRetries
<1>5. a \in SUBSET (StepIds \X ApprovalIds)
  BY <1>3, AskedType DEF IInv
<1>6. m = tx[w]
  <2>1. tx[w].steps[tx[w].pos] = "EXECUTING"
    BY <1>2, <1>3 DEF LoopInv
  <2> QED
    BY <1>3, <2>1 DEF Txs, MarkStep
<1> HIDE DEF m, a, n
<1>7. r = [m EXCEPT !.asked = a, !.pc = "execute", !.attempt = n]
  BY <1>2, <1>3, <1>6 DEF Txs
<1>8. RiskOf(Tool(w)) = "HIGH" => <<tx[w].task, tx[w].pos>> \in approvedOnce
  BY <1>2 DEF IInv, TxInv, HandInv, Tool
<1> HIDE DEF r
<1> QED
  BY <1>2, <1>4, <1>5, <1>7, <1>8, StayStep DEF IInv, TypeOK, m

----------------------------------------------------------------------------
(***************************************************************************)
(* The commit of a worker's transaction.                                   *)
(***************************************************************************)

\* What the commit finds in hand, and what it writes.
LEMMA CommitEffect ==
    ASSUME IInv, NEW w \in Workers, CommitWork(w)
    PROVE  /\ tx[w] \in Txs /\ TxInv(tx[w]) /\ tx[w].pc = "commit" /\ tx[w].planned
           /\ tx[w].task \in Tasks /\ Len(tx[w].tools) <= MaxSteps
           /\ tx[w].status \in {"PAUSED", "COMPLETED", "FAILED"}
           /\ \A i \in StepIds : tx[w].steps[i] \in Resting
           /\ jobs' \in Seq(JobRows) /\ DOMAIN jobs' = DOMAIN jobs
           /\ \A k \in DOMAIN jobs : jobs'[k].task = jobs[k].task
           /\ tx' = [tx EXCEPT ![w] = NoTx]
           /\ \A v \in Workers : tx'[v] = IF v = w THEN NoTx ELSE tx[v]
           /\ UNCHANGED <<req, effects, approvedOnce, faults>>
           /\ \A n \in ApprovalIds, i \in StepIds :
                WithAsked(w)[i][n] \in {"PENDING", approvals[tx[w].task][i][n]}
<1>1. tx[w] \in Txs /\ TxInv(tx[w]) /\ tx[w].pc = "commit"
  BY DEF IInv, TypeOK, CommitWork
<1>2. /\ tx[w].planned /\ tx[w].task \in Tasks /\ Len(tx[w].tools) <= MaxSteps
      /\ tx[w].status \in {"PAUSED", "COMPLETED", "FAILED"}
      /\ \A i \in StepIds : tx[w].steps[i] \in Resting
      /\ tx[w].job \in DOMAIN jobs
  BY <1>1 DEF TxInv, LoopInv, HandInv, ClaimInv, Busy, Looping
<1>3. JobResult(tx[w].status) \in JobStatuses
  BY DEF JobResult, JobStatuses
<1>4. /\ jobs' \in Seq(JobRows) /\ DOMAIN jobs' = DOMAIN jobs
      /\ \A k \in DOMAIN jobs : jobs'[k].task = jobs[k].task
  BY <1>2, <1>3, JobUpdate DEF CommitWork, IInv, TypeOK
<1>5. tx' = [tx EXCEPT ![w] = NoTx] /\ UNCHANGED <<req, effects, approvedOnce, faults>>
  BY DEF CommitWork
<1>6. \A v \in Workers : tx'[v] = IF v = w THEN NoTx ELSE tx[v]
  BY <1>5 DEF IInv, TypeOK
<1>7. \A n \in ApprovalIds, i \in StepIds :
        WithAsked(w)[i][n] \in {"PENDING", approvals[tx[w].task][i][n]}
  BY DEF WithAsked
<1> QED
  BY <1>1, <1>2, <1>4, <1>5, <1>6, <1>7

LEMMA CommitStep ==
    ASSUME IInv, NEW w \in Workers, CommitWork(w)
    PROVE  IInv'
<1> DEFINE t == tx[w].task
<1>1. /\ tx[w] \in Txs /\ TxInv(tx[w]) /\ tx[w].pc = "commit" /\ tx[w].planned
      /\ t \in Tasks /\ Len(tx[w].tools) <= MaxSteps
      /\ tx[w].status \in {"PAUSED", "COMPLETED", "FAILED"}
      /\ \A i \in StepIds : tx[w].steps[i] \in Resting
      /\ jobs' \in Seq(JobRows) /\ DOMAIN jobs' = DOMAIN jobs
      /\ \A k \in DOMAIN jobs : jobs'[k].task = jobs[k].task
      /\ tx' = [tx EXCEPT ![w] = NoTx]
      /\ \A v \in Workers : tx'[v] = IF v = w THEN NoTx ELSE tx[v]
      /\ UNCHANGED <<req, effects, approvedOnce, faults>>
      /\ \A n \in ApprovalIds, i \in StepIds :
           WithAsked(w)[i][n] \in {"PENDING", approvals[t][i][n]}
  BY CommitEffect
<1>2. /\ taskStatus' = [taskStatus EXCEPT ![t] = tx[w].status]
      /\ planned'    = [planned EXCEPT ![t] = tx[w].planned]
      /\ tools'      = [tools EXCEPT ![t] = tx[w].tools]
      /\ stepStatus' = [stepStatus EXCEPT ![t] = tx[w].steps]
      /\ approvals'  = [approvals EXCEPT ![t] = WithAsked(w)]
      /\ reply'      = [reply EXCEPT ![t] = ReplyTo(tx[w].status, @)]
  BY DEF CommitWork
<1> HIDE DEF t
<1>3. TypeOK'
  <2>1. WithAsked(w) \in [StepIds -> [ApprovalIds -> Decisions \cup {"NONE"}]]
    <3>1. approvals[t] \in [StepIds -> [ApprovalIds -> Decisions \cup {"NONE"}]]
      BY <1>1 DEF IInv, TypeOK
    <3> QED
      BY <3>1 DEF WithAsked, t, Decisions
  <2>2. ReplyTo(tx[w].status, reply[t]) \in {"none", "accepted", "completed", "failed"}
    BY <1>1 DEF IInv, TypeOK, ReplyTo
  <2>3. /\ taskStatus' \in [Tasks -> TaskStatuses] /\ planned' \in [Tasks -> BOOLEAN]
        /\ tools' \in [Tasks -> Seq(ToolNames)]
        /\ stepStatus' \in [Tasks -> [StepIds -> StepStatuses]]
    BY <1>1, <1>2 DEF IInv, TypeOK, Txs, TaskStatuses
  <2>4. /\ approvals' \in [Tasks -> [StepIds -> [ApprovalIds -> Decisions \cup {"NONE"}]]]
        /\ reply' \in [Tasks -> {"none", "accepted", "completed", "failed"}]
    BY <1>1, <1>2, <2>1, <2>2 DEF IInv, TypeOK
  <2>5. tx' \in [Workers -> Txs]
    BY <1>1, NoTxType DEF IInv, TypeOK
  <2> QED
    BY <1>1, <2>3, <2>4, <2>5 DEF IInv, TypeOK
<1>4. \A v \in Workers \ {w} :
        tx[v].pc \in {"loaded", "plan"} /\ tx[v].task = t => tx[v].planned
  \* otherwise the task, still without a plan, would have two jobs
  <2> SUFFICES ASSUME NEW v \in Workers \ {w},
                      tx[v].pc \in {"loaded", "plan"}, tx[v].task = t, ~tx[v].planned
               PROVE  FALSE
    OBVIOUS
  <2>1. TxInv(tx[v]) /\ TxInv(tx[w])
    BY DEF IInv
  <2>2. /\ tx[v].job \in DOMAIN jobs /\ jobs[tx[v].job].task = t
        /\ tx[w].job \in DOMAIN jobs /\ jobs[tx[w].job].task = t
        /\ ~planned[t]
    BY <1>1, <2>1 DEF TxInv, HandInv, ClaimInv, Busy, Looping, t
  <2>3. tx[v].job = tx[w].job
    BY <1>1, <2>2 DEF IInv, DataInv
  <2> QED
    BY <1>1, <2>3 DEF IInv, JobInv, Busy, Looping
<1>5. \A v \in Workers \ {w} : tx[v].pc \in Driving => tx[v].task # t
  BY <1>1 DEF IInv, LockInv, Driving, t
<1>6. ASSUME NEW v \in Workers
      PROVE  TxInv(tx[v])'
  <2>1. CASE v = w
    BY <1>1, <2>1, BoundsAssumption, EmptySeq
    DEF TxInv, LoopInv, HandInv, ClaimInv, NoTx, NoSteps, Resting, Looping, Busy
  <2>2. CASE v # w
    <3>1. tx'[v] = tx[v] /\ tx[v] \in Txs /\ TxInv(tx[v])
      BY <1>1, <2>2 DEF IInv, TypeOK
    <3>2. LoopInv(tx[v])'
      BY <3>1 DEF TxInv, LoopInv
    <3>3. ClaimInv(tx[v])'
      BY <1>1, <3>1 DEF TxInv, ClaimInv
    <3>4. ASSUME tx[v].task = t
          PROVE  HandInv(tx[v])'
      <4>1. tx[v].pc \notin Driving
        BY <1>5, <2>2, <3>4
      <4>2. tx[v].pc \in {"loaded"} => tx[v].planned
        BY <1>4, <2>2, <3>4
      <4>3. planned'[t]
        BY <1>1, <1>2 DEF IInv, TypeOK
      <4>4. tx[v].planned \in BOOLEAN /\ planned'[t] \in BOOLEAN
        BY <1>3, <1>1, <3>1 DEF TypeOK, Txs
      <4> QED
        BY <3>1, <3>4, <4>1, <4>2, <4>3, <4>4 DEF HandInv, Looping, Driving
    <3>5. ASSUME tx[v].task # t
          PROVE  HandInv(tx[v])'
      <4>1. tx[v].pc \in Busy => /\ planned'[tx[v].task] = planned[tx[v].task]
                                 /\ stepStatus'[tx[v].task] = stepStatus[tx[v].task]
        BY <1>1, <1>2, <3>1, <3>5 DEF TxInv, ClaimInv, IInv, TypeOK
      <4> QED
        BY <1>1, <3>1, <4>1 DEF TxInv, HandInv, Busy, Looping
    <3>6. HandInv(tx[v])'
      BY <3>4, <3>5
    <3> QED
      BY <3>2, <3>3, <3>6 DEF TxInv
  <2> QED
    BY <2>1, <2>2
<1>7. \A h \in Handlers : ReqInv(req[h])'
  BY <1>1, <1>2 DEF IInv, TypeOK, ReqInv
<1>8. DataInv' /\ AtRest'
  <2>1. \A u \in Tasks :
          /\ taskStatus'[u] = IF u = t THEN tx[w].status ELSE taskStatus[u]
          /\ planned'[u] = IF u = t THEN tx[w].planned ELSE planned[u]
          /\ tools'[u] = IF u = t THEN tx[w].tools ELSE tools[u]
          /\ stepStatus'[u] = IF u = t THEN tx[w].steps ELSE stepStatus[u]
          /\ approvals'[u] = IF u = t THEN WithAsked(w) ELSE approvals[u]
    BY <1>1, <1>2 DEF IInv, TypeOK
  <2>2. \A u \in Tasks : ~planned'[u] => u # t /\ ~planned[u]
    BY <1>1, <2>1
  <2>3. \A u \in Tasks : Len(tools'[u]) <= MaxSteps
    BY <1>1, <2>1 DEF IInv, DataInv
  <2>8. \A u \in Tasks : taskStatus'[u] = "NONE" => u # t /\ taskStatus[u] = "NONE"
    BY <1>1, <2>1
  <2>9. \A u \in Tasks : taskStatus'[u] = "NONE" => \A j \in DOMAIN jobs' : jobs'[j].task # u
    BY <1>1, <2>8 DEF IInv, DataInv
  <2>4. \A u \in Tasks : ~planned'[u] =>
          \A j, k \in DOMAIN jobs' : jobs'[j].task = u /\ jobs'[k].task = u => j = k
    BY <1>1, <2>2 DEF IInv, DataInv
  <2>5. \A u \in Tasks : ~planned'[u] =>
          /\ \A i \in StepIds : stepStatus'[u][i] # "VERIFIED"
          /\ \A i \in StepIds, n \in ApprovalIds : approvals'[u][i][n] = "NONE"
    BY <2>1, <2>2 DEF IInv, DataInv
  <2>6. \A u \in Tasks, i \in StepIds, n \in ApprovalIds :
          approvals'[u][i][n] = "APPROVED" => <<u, i>> \in approvedOnce'
    <3> SUFFICES ASSUME NEW u \in Tasks, NEW i \in StepIds, NEW n \in ApprovalIds,
                        approvals'[u][i][n] = "APPROVED"
                 PROVE  <<u, i>> \in approvedOnce'
      OBVIOUS
    <3>1. approvals[u][i][n] = "APPROVED"
      <4>1. u = t => WithAsked(w)[i][n] \in {"PENDING", approvals[u][i][n]}
        BY <1>1
      <4> QED
        BY <2>1, <4>1
    <3>2. <<u, i>> \in approvedOnce
      BY <3>1 DEF IInv, DataInv
    <3> QED
      BY <1>1, <3>2
  <2>7. AtRest'
    <3> SUFFICES ASSUME NEW u \in Tasks
                 PROVE  /\ taskStatus'[u] \notin {"PLANNING", "RUNNING"}
                        /\ \A i \in StepIds : stepStatus'[u][i] # "EXECUTING"
      BY DEF AtRest
    <3>1. CASE u = t
      BY <1>1, <2>1, <3>1 DEF Resting
    <3>2. CASE u # t
      BY <2>1, <3>2 DEF IInv, AtRest
    <3> QED
      BY <3>1, <3>2
  <2> QED
    BY <2>3, <2>4, <2>5, <2>6, <2>7, <2>9 DEF DataInv
<1>9. JobInv' /\ LockInv'
  BY <1>1 DEF IInv, JobInv, LockInv, NoTx, Busy, Looping, Driving
<1> QED
  BY <1>3, <1>6, <1>7, <1>8, <1>9 DEF IInv

----------------------------------------------------------------------------
(***************************************************************************)
(* What happens instead of the commit.                                     *)
(***************************************************************************)

\* A worker drops what it has in hand; the rows, but for the status of its job,
\* are as they were.
LEMMA DropStep ==
    ASSUME IInv, NEW w \in Workers, NEW r \in {NoTx, [NoTx EXCEPT !.pc = "raised", !.job = tx[w].job]},
           r.pc = "raised" => tx[w].pc \in Busy,
           tx' = [tx EXCEPT ![w] = r],
           jobs' \in Seq(JobRows), DOMAIN jobs' = DOMAIN jobs,
           \A k \in DOMAIN jobs : jobs'[k].task = jobs[k].task,
           UNCHANGED <<taskStatus, planned, tools, stepStatus, approvals, reply, req,
                       effects, approvedOnce>>,
           faults' \in 0..MaxFaults
    PROVE  IInv'
<1>1. \A v \in Workers : tx'[v] = IF v = w THEN r ELSE tx[v]
  BY DEF IInv, TypeOK
<1>2. tx[w] \in Txs /\ TxInv(tx[w])
  BY DEF IInv, TypeOK
<1>3. r \in Txs
  BY <1>2, NoTxType DEF Txs, WorkerPCs
<1>4. /\ r.pc \notin Busy /\ r.tools = <<>> /\ r.steps = NoSteps
      /\ r.pc = "raised" => r.job = tx[w].job
  <2>1. CASE r = NoTx
    BY <2>1 DEF NoTx, Busy, Looping
  <2>2. CASE r = [NoTx EXCEPT !.pc = "raised", !.job = tx[w].job]
    BY <2>2 DEF NoTx, Busy, Looping
  <2> QED
    BY <2>1, <2>2
<1>5. TypeOK'
  BY <1>3 DEF IInv, TypeOK
<1>6. TxInv(r)'
  BY <1>2, <1>4, EmptySeq, BoundsAssumption
  DEF TxInv, LoopInv, HandInv, ClaimInv, NoSteps, Resting, Looping, Busy
<1>7. \A v \in Workers : TxInv(tx[v])'
  <2> SUFFICES ASSUME NEW v \in Workers, v # w
               PROVE  TxInv(tx[v])'
    BY <1>1, <1>6 DEF TxInv, LoopInv, HandInv, ClaimInv
  <2>1. tx'[v] = tx[v] /\ TxInv(tx[v])
    BY <1>1 DEF IInv
  <2> QED
    BY <2>1 DEF TxInv, LoopInv, HandInv, ClaimInv
<1>8. \A h \in Handlers : ReqInv(req[h])'
  BY DEF IInv, ReqInv
<1>9. DataInv' /\ AtRest'
  BY DEF IInv, DataInv, AtRest
<1>10. JobInv' /\ LockInv'
  BY <1>1, <1>4 DEF IInv, JobInv, LockInv, Busy, Looping, Driving
<1> QED
  BY <1>5, <1>7, <1>8, <1>9, <1>10 DEF IInv

LEMMA FaultStep ==
    ASSUME IInv, NEW w \in Workers,
           Crash(w) \/ DatabaseError(w) \/ MarkJobFailed(w) \/ HandlerFails(w)
    PROVE  IInv'
<1>1. tx[w] \in Txs /\ TxInv(tx[w]) /\ jobs \in Seq(JobRows) /\ faults \in 0..MaxFaults
  BY DEF IInv, TypeOK
<1>2. CASE Crash(w)
  <2>1. faults' \in 0..MaxFaults
    BY <1>1, <1>2, BoundsAssumption DEF Crash
  <2>2. NoTx.pc # "raised"
    BY DEF NoTx
  <2>3. tx' = [tx EXCEPT ![w] = NoTx] /\ UNCHANGED <<rows, req, effects, approvedOnce>>
    BY <1>2 DEF Crash, Drop
  <2> QED
    BY <1>1, <2>1, <2>2, <2>3, DropStep DEF rows
<1>3. CASE DatabaseError(w)
  <2> DEFINE r == [NoTx EXCEPT !.pc = "raised", !.job = tx[w].job]
  <2>1. tx[w].pc \in Busy
    BY <1>1, <1>3 DEF DatabaseError, Txs, WorkerPCs, Busy, Looping
  <2>2. /\ tx' = [tx EXCEPT ![w] = r] /\ faults' \in 0..MaxFaults
        /\ UNCHANGED <<rows, req, effects, approvedOnce>>
    BY <1>1, <1>3, BoundsAssumption DEF DatabaseError, Drop
  <2> QED
    BY <1>1, <2>1, <2>2, DropStep DEF rows
<1>4. CASE MarkJobFailed(w)
  <2>1. tx[w].job \in DOMAIN jobs
    BY <1>1, <1>4 DEF MarkJobFailed, TxInv, ClaimInv
  <2>2. "failed" \in JobStatuses
    BY DEF JobStatuses
  <2>3. /\ jobs' \in Seq(JobRows) /\ DOMAIN jobs' = DOMAIN jobs
        /\ \A k \in DOMAIN jobs : jobs'[k].task = jobs[k].task
    BY <1>1, <1>4, <2>1, <2>2, JobUpdate DEF MarkJobFailed
  <2> QED
    BY <1>1, <1>4, <2>3, DropStep DEF MarkJobFailed, NoTx
<1>5. CASE HandlerFails(w)
  BY <1>1, <1>5, DropStep DEF HandlerFails, Drop, rows, NoTx
<1> QED
  BY <1>2, <1>3, <1>4, <1>5

----------------------------------------------------------------------------
(***************************************************************************)
(* The requests.                                                           *)
(***************************************************************************)

\* A request that only moves on keeps IInv.
LEMMA RespondStep ==
    ASSUME IInv, NEW h \in Handlers, NEW r \in Requests, ReqInv(r),
           req' = [req EXCEPT ![h] = r],
           UNCHANGED <<rows, tx, effects, approvedOnce>>, faults' \in 0..MaxFaults
    PROVE  IInv'
<1>1. \A g \in Handlers : req'[g] = IF g = h THEN r ELSE req[g]
  BY DEF IInv, TypeOK
<1>2. TypeOK'
  BY DEF IInv, TypeOK, rows
<1>3. \A g \in Handlers : ReqInv(req[g])'
  BY <1>1 DEF IInv, ReqInv, rows
<1>4. \A w \in Workers : TxInv(tx[w])'
  BY DEF IInv, TxInv, LoopInv, HandInv, ClaimInv, rows
<1>5. DataInv' /\ AtRest'
  BY DEF IInv, DataInv, AtRest, rows
<1>6. JobInv' /\ LockInv'
  BY DEF IInv, JobInv, LockInv
<1> QED
  BY <1>2, <1>3, <1>4, <1>5, <1>6 DEF IInv

LEMMA RequestStep ==
    ASSUME IInv, NEW h \in Handlers,
           CheckPending(h) \/ FlushDecision(h) \/ ReadTask(h) \/ RequeueTask(h) \/ AbortRequest(h)
    PROVE  IInv'
<1>1. req[h] \in Requests /\ ReqInv(req[h]) /\ faults \in 0..MaxFaults
  BY DEF IInv, TypeOK
<1>2. CASE CheckPending(h)
  <2>1. PICK t \in Tasks, i \in StepIds, n \in ApprovalIds, d \in {"APPROVED", "REJECTED"} :
          /\ Decidable(approvals[t][i][n])
          /\ Respond(h, [pc |-> "checked", task |-> t, step |-> i, row |-> n, decision |-> d])
    BY <1>2 DEF CheckPending
  <2> DEFINE r == [pc |-> "checked", task |-> t, step |-> i, row |-> n, decision |-> d]
  <2>2. r \in Requests
    BY DEF Requests, RequestPCs, Decisions
  <2>3. planned[t]
    <3>1. approvals[t][i][n] # "NONE"
      BY <2>1 DEF Decidable
    <3> QED
      BY <3>1 DEF IInv, DataInv
  <2>4. ReqInv(r)
    BY <2>3 DEF ReqInv
  <2> QED
    BY <1>1, <2>1, <2>2, <2>4, RespondStep DEF Respond
<1>3. CASE FlushDecision(h)
  <2> DEFINE r == [req[h] EXCEPT !.pc = "flushed"]
  <2>1. r \in Requests /\ ReqInv(r)
    BY <1>1, <1>3 DEF FlushDecision, Requests, RequestPCs, ReqInv
  <2>2. Respond(h, r)
    BY <1>3 DEF FlushDecision
  <2> QED
    BY <1>1, <2>1, <2>2, RespondStep DEF Respond
<1>4. CASE ReadTask(h)
  <2> DEFINE pc == IF Wakes(req[h].task) THEN "requeue" ELSE "commit"
             r  == [req[h] EXCEPT !.pc = pc]
  <2>1. pc \in {"requeue", "commit"} /\ req[h].pc = "flushed" /\ Respond(h, r)
    BY <1>4 DEF ReadTask
  <2> HIDE DEF pc
  <2>2. r \in Requests /\ ReqInv(r)
    BY <1>1, <2>1 DEF Requests, RequestPCs, ReqInv
  <2> QED
    BY <1>1, <2>1, <2>2, RespondStep DEF Respond
<1>5. CASE RequeueTask(h)
  <2> DEFINE r == [req[h] EXCEPT !.pc = "requeued"]
  <2>1. r \in Requests /\ ReqInv(r)
    BY <1>1, <1>5 DEF RequeueTask, Requests, RequestPCs, ReqInv
  <2>2. Respond(h, r)
    BY <1>5 DEF RequeueTask
  <2> QED
    BY <1>1, <2>1, <2>2, RespondStep DEF Respond
<1>6. CASE AbortRequest(h)
  <2>1. NoReq \in Requests /\ ReqInv(NoReq)
    BY NoTxType DEF ReqInv, NoReq
  <2>2. faults' \in 0..MaxFaults
    BY <1>1, <1>6, BoundsAssumption DEF AbortRequest
  <2> QED
    BY <1>6, <2>1, <2>2, RespondStep DEF AbortRequest
<1> QED
  BY <1>2, <1>3, <1>4, <1>5, <1>6

\* A new job for a task that has a plan, or no job yet, keeps what JobInv and the
\* transactions need of the queue.
LEMMA AppendFacts ==
    ASSUME IInv, NEW t \in Tasks, jobs' = jobs \o <<[task |-> t, status |-> "pending"]>>
    PROVE  /\ jobs' \in Seq(JobRows)
           /\ \A k \in DOMAIN jobs : k \in DOMAIN jobs' /\ jobs'[k] = jobs[k]
           /\ \A k \in DOMAIN jobs' : jobs'[k].task # t => k \in DOMAIN jobs
           /\ \A k \in DOMAIN jobs' : k \notin DOMAIN jobs => k = Len(jobs) + 1
<1>1. jobs \in Seq(JobRows)
  BY DEF IInv, TypeOK
<1> QED
  BY <1>1, JobAppend

LEMMA CreateStep ==
    ASSUME IInv, NEW t \in Tasks, CreateTask(t)
    PROVE  IInv'
<1>1. /\ taskStatus[t] = "NONE" /\ taskStatus' = [taskStatus EXCEPT ![t] = "QUEUED"]
      /\ jobs' = jobs \o <<[task |-> t, status |-> "pending"]>>
      /\ reply' = [reply EXCEPT ![t] = "accepted"]
      /\ UNCHANGED <<planned, tools, stepStatus, approvals, tx, req, effects,
                     approvedOnce, faults>>
  BY DEF CreateTask, NewJobs
<1>2. /\ jobs' \in Seq(JobRows)
      /\ \A k \in DOMAIN jobs : k \in DOMAIN jobs' /\ jobs'[k] = jobs[k]
      /\ \A k \in DOMAIN jobs' : jobs'[k].task # t => k \in DOMAIN jobs
      /\ \A k \in DOMAIN jobs' : k \notin DOMAIN jobs => k = Len(jobs) + 1
  BY <1>1, AppendFacts
<1>3. \A k \in DOMAIN jobs : jobs[k].task # t
  BY <1>1 DEF IInv, DataInv
<1>4. TypeOK'
  BY <1>1, <1>2 DEF IInv, TypeOK, TaskStatuses
<1>5. \A w \in Workers : TxInv(tx[w])'
  BY <1>1, <1>2 DEF IInv, TxInv, LoopInv, HandInv, ClaimInv
<1>6. \A h \in Handlers : ReqInv(req[h])'
  BY <1>1 DEF IInv, ReqInv
<1>7. \A u \in Tasks : taskStatus'[u] = IF u = t THEN "QUEUED" ELSE taskStatus[u]
  BY <1>1 DEF IInv, TypeOK
<1>8. DataInv'
  <2>1. \A u \in Tasks : taskStatus'[u] = "NONE" => \A j \in DOMAIN jobs' : jobs'[j].task # u
    BY <1>2, <1>7 DEF IInv, DataInv
  <2>2. \A u \in Tasks : ~planned[u] =>
          \A j, k \in DOMAIN jobs' : jobs'[j].task = u /\ jobs'[k].task = u => j = k
    BY <1>2, <1>3 DEF IInv, DataInv
  <2> QED
    BY <1>1, <2>1, <2>2 DEF IInv, DataInv
<1>9. JobInv' /\ LockInv' /\ AtRest'
  BY <1>1, <1>7 DEF IInv, JobInv, LockInv, AtRest
<1> QED
  BY <1>4, <1>5, <1>6, <1>8, <1>9 DEF IInv

LEMMA DecideStep ==
    ASSUME IInv, NEW h \in Handlers, CommitDecision(h)
    PROVE  IInv'
<1> DEFINE t == req[h].task
           i == req[h].step
           n == req[h].row
           d == req[h].decision
           won == IF d = "APPROVED" THEN {<<t, i>>} ELSE {}
<1>1. /\ req[h] \in Requests /\ t \in Tasks /\ i \in StepIds /\ n \in ApprovalIds
      /\ planned[t] /\ d \in Decisions /\ req[h].pc \in {"requeued", "commit"}
  BY DEF IInv, TypeOK, ReqInv, CommitDecision, Requests
<1>2. /\ approvals' = [approvals EXCEPT ![t][i][n] = d]
      /\ approvedOnce' = approvedOnce \cup won
      /\ req' = [req EXCEPT ![h] = NoReq]
      /\ UNCHANGED <<planned, tools, stepStatus, reply, tx, effects, faults>>
      /\ \/ /\ taskStatus' = [taskStatus EXCEPT ![t] = "QUEUED"]
            /\ jobs' = jobs \o <<[task |-> t, status |-> "pending"]>>
         \/ UNCHANGED <<taskStatus, jobs>>
  BY DEF CommitDecision, ResumeJobs
<1>3. won \subseteq Tasks \X StepIds /\ (d = "APPROVED" => <<t, i>> \in won)
  BY <1>1
<1> HIDE DEF t, i, n, d, won
<1>4. /\ jobs' \in Seq(JobRows)
      /\ \A k \in DOMAIN jobs : k \in DOMAIN jobs' /\ jobs'[k] = jobs[k]
      /\ \A k \in DOMAIN jobs' : jobs'[k].task # t => k \in DOMAIN jobs
  BY <1>1, <1>2, AppendFacts DEF IInv, TypeOK
<1>5. /\ taskStatus' \in [Tasks -> TaskStatuses]
      /\ \A u \in Tasks : taskStatus'[u] \in {taskStatus[u], "QUEUED"}
      /\ \A u \in Tasks : taskStatus'[u] = "NONE" => taskStatus[u] = "NONE"
      /\ \A u \in Tasks : u # t => taskStatus'[u] = taskStatus[u]
      /\ taskStatus'[t] = "NONE" => jobs' = jobs
  BY <1>1, <1>2 DEF IInv, TypeOK, TaskStatuses
<1>6. /\ approvals' \in [Tasks -> [StepIds -> [ApprovalIds -> Decisions \cup {"NONE"}]]]
      /\ \A u \in Tasks, k \in StepIds, m \in ApprovalIds :
           approvals'[u][k][m] = IF u = t /\ k = i /\ m = n THEN d ELSE approvals[u][k][m]
  BY <1>1, <1>2 DEF IInv, TypeOK
<1>7. TypeOK'
  BY <1>1, <1>2, <1>3, <1>4, <1>5, <1>6, NoTxType DEF IInv, TypeOK
<1>8. \A w \in Workers : TxInv(tx[w])'
  BY <1>2, <1>4 DEF IInv, TxInv, LoopInv, HandInv, ClaimInv
<1>9. \A g \in Handlers : ReqInv(req[g])'
  BY <1>2 DEF IInv, TypeOK, ReqInv, NoReq
<1>10. DataInv'
  <2>1. \A u \in Tasks : taskStatus'[u] = "NONE" => \A j \in DOMAIN jobs' : jobs'[j].task # u
    BY <1>4, <1>5 DEF IInv, DataInv
  <2>2. \A u \in Tasks : ~planned[u] =>
          \A j, k \in DOMAIN jobs' : jobs'[j].task = u /\ jobs'[k].task = u => j = k
    BY <1>1, <1>4 DEF IInv, DataInv
  <2>3. \A u \in Tasks : ~planned[u] =>
          \A k \in StepIds, m \in ApprovalIds : approvals'[u][k][m] = "NONE"
    <3> SUFFICES ASSUME NEW u \in Tasks, ~planned[u], NEW k \in StepIds, NEW m \in ApprovalIds
                 PROVE  approvals'[u][k][m] = "NONE"
      OBVIOUS
    <3>1. approvals[u][k][m] = "NONE" /\ u # t
      BY <1>1 DEF IInv, DataInv
    <3> QED
      BY <1>6, <3>1
  <2>4. \A u \in Tasks, k \in StepIds, m \in ApprovalIds :
          approvals'[u][k][m] = "APPROVED" => <<u, k>> \in approvedOnce'
    <3> SUFFICES ASSUME NEW u \in Tasks, NEW k \in StepIds, NEW m \in ApprovalIds,
                        approvals'[u][k][m] = "APPROVED"
                 PROVE  <<u, k>> \in approvedOnce'
      OBVIOUS
    <3>1. CASE u = t /\ k = i /\ m = n
      BY <1>2, <1>3, <1>6, <3>1
    <3>2. CASE ~(u = t /\ k = i /\ m = n)
      <4>1. approvals[u][k][m] = "APPROVED"
        BY <1>6, <3>2
      <4> QED
        BY <1>2, <4>1 DEF IInv, DataInv
    <3> QED
      BY <3>1, <3>2
  <2> QED
    BY <1>2, <2>1, <2>2, <2>3, <2>4 DEF IInv, DataInv
<1>11. JobInv' /\ LockInv'
  BY <1>2 DEF IInv, JobInv, LockInv
<1>12. AtRest'
  BY <1>2, <1>5 DEF IInv, AtRest
<1> QED
  BY <1>7, <1>8, <1>9, <1>10, <1>11, <1>12 DEF IInv

----------------------------------------------------------------------------
(***************************************************************************)
(* The theorems.                                                           *)
(***************************************************************************)

LEMMA InitIInv == Init => IInv
<1> SUFFICES ASSUME Init
             PROVE  IInv
  OBVIOUS
<1>1. <<>> \in Seq(JobRows) /\ <<>> \in Seq(ToolNames) /\ Len(<<>>) = 0
  BY EmptySeq
<1>2. NoSteps \in [StepIds -> StepStatuses] /\ NoTx \in Txs /\ NoReq \in Requests
  BY NoTxType DEF NoSteps, StepStatuses
<1>3. TypeOK
  BY <1>1, <1>2, BoundsAssumption DEF Init, TypeOK, TaskStatuses, Decisions
<1>4. TxInv(NoTx)
  BY <1>1, BoundsAssumption
  DEF TxInv, LoopInv, HandInv, ClaimInv, NoTx, NoSteps, Resting, Looping, Busy
<1>5. DataInv
  BY <1>1, BoundsAssumption DEF Init, DataInv, NoSteps
<1>6. JobInv /\ LockInv /\ AtRest
  BY DEF Init, JobInv, LockInv, NoTx, Busy, Looping, Driving, AtRest, NoSteps
<1> QED
  BY <1>3, <1>4, <1>5, <1>6 DEF Init, IInv, ReqInv, NoReq

LEMMA NextIInv == IInv /\ [Next]_vars => IInv'
<1> SUFFICES ASSUME IInv, [Next]_vars
             PROVE  IInv'
  OBVIOUS
<1>1. ASSUME NEW t \in Tasks, CreateTask(t)
      PROVE  IInv'
  BY <1>1, CreateStep
<1>2. ASSUME NEW w \in Workers, ClaimJob(w) \/ LoadTask(w) \/ LockTask(w)
      PROVE  IInv'
  BY <1>2, ClaimStep, LoadStep, LockStep
<1>3. ASSUME NEW w \in Workers, PlanTask(w)
      PROVE  IInv'
  BY <1>3, FreshPlanStep, ResumeStep DEF PlanTask
<1>4. ASSUME NEW w \in Workers, DoStep(w) \/ CompleteTask(w)
      PROVE  IInv'
  BY <1>4, SkipStep, PauseStep, AnswerStep, RaiseStep, BeginStep, RunStep, RetryStep DEF DoStep
<1>5. ASSUME NEW w \in Workers, CommitWork(w)
      PROVE  IInv'
  BY <1>5, CommitStep
<1>6. ASSUME NEW w \in Workers,
             MarkJobFailed(w) \/ HandlerFails(w) \/ Crash(w) \/ DatabaseError(w)
      PROVE  IInv'
  BY <1>6, FaultStep
<1>7. ASSUME NEW h \in Handlers, CheckPending(h) \/ Answer(h) \/ AbortRequest(h)
      PROVE  IInv'
  BY <1>7, RequestStep, DecideStep DEF Answer
<1>8. CASE UNCHANGED vars
  BY <1>8 DEF vars, rows, IInv, TypeOK, TxInv, LoopInv, HandInv, ClaimInv, ReqInv,
              DataInv, JobInv, LockInv, AtRest
<1> QED
  BY <1>1, <1>2, <1>3, <1>4, <1>5, <1>6, <1>7, <1>8 DEF Next, Work

\* IInv is an invariant of the worker, whatever fails and however requests race.
THEOREM InvariantHolds == Spec => []IInv
BY InitIInv, NextIInv, PTL DEF Spec

\* Rows, transactions and counters keep their types; the loop never indexes past
\* the steps of the plan.
THEOREM TypeCorrect == Spec => []TypeOK
<1>1. IInv => TypeOK
  BY DEF IInv
<1> QED
  BY <1>1, InvariantHolds, PTL

\* A HIGH tool is called only after a human approved that step of that task.
THEOREM HumanApprovesHighRisk == Spec => []HighRiskWaitsForHuman
<1>1. IInv => HighRiskWaitsForHuman
  BY DEF IInv, TxInv, HandInv, HighRiskWaitsForHuman, Tool
<1> QED
  BY <1>1, InvariantHolds, PTL

\* A step VERIFIED in the database is never executed again.
THEOREM VerifiedRunsNoMore == Spec => []VerifiedNotReexecuted
<1>1. IInv => VerifiedNotReexecuted
  <2> SUFFICES ASSUME IInv, NEW w \in Workers, tx[w].pc = "execute"
               PROVE  stepStatus[tx[w].task][tx[w].pos] # "VERIFIED"
    BY DEF VerifiedNotReexecuted
  <2> QED
    BY InHand
<1> QED
  BY <1>1, InvariantHolds, PTL

\* The plan read before the task's row is locked is current once it is locked.
THEOREM PlanIsCurrent == Spec => []LoadedPlanIsCurrent
<1>1. IInv => LoadedPlanIsCurrent
  BY DEF IInv, TxInv, HandInv, LoadedPlanIsCurrent
<1> QED
  BY <1>1, InvariantHolds, PTL

\* A step that is VERIFIED in the database stays so: no worker commits a status it
\* read before another worker's commit.
THEOREM VerifiedStays == Spec => VerifiedIsStable
<1> DEFINE Stable == \A t \in Tasks, i \in StepIds :
                       stepStatus[t][i] = "VERIFIED" => stepStatus'[t][i] = "VERIFIED"
<1>1. IInv /\ [Next]_vars => [Stable]_vars
  <2> SUFFICES ASSUME IInv, Next
               PROVE  Stable
    OBVIOUS
  <2>1. ASSUME NEW w \in Workers, CommitWork(w)
        PROVE  Stable
    <3>1. TxInv(tx[w]) /\ tx[w].pc = "commit" /\ tx[w].task \in Tasks
      BY <2>1, CommitEffect
    <3>2. \A t \in Tasks : stepStatus'[t] = IF t = tx[w].task THEN tx[w].steps
                                            ELSE stepStatus[t]
      BY <2>1 DEF CommitWork, IInv, TypeOK
    <3> QED
      BY <3>1, <3>2 DEF TxInv, HandInv, Looping
  <2>2. CASE UNCHANGED stepStatus
    BY <2>2
  <2>3. (\E w \in Workers : CommitWork(w)) \/ UNCHANGED stepStatus
    BY DEF Next, Work, PlanTask, DoStep, Answer, CreateTask, ClaimJob, LoadTask, LockTask,
           DraftPlan, RejectPlan, MalformedPlan, ResumePlan, ReplayStep, AwaitDecision,
           AskApproval, AmbiguousApproval, DenyStep, StartStep, StepSucceeds, StepRetries,
           StepFails, VerifyStep, VerifyRaises, CompleteTask, MarkJobFailed, HandlerFails, Crash,
           DatabaseError, CheckPending, FlushDecision, ReadTask, RequeueTask,
           CommitDecision, AbortRequest, Move, Drop, Respond, rows
  <2> QED
    BY <2>1, <2>2, <2>3
<1> QED
  BY <1>1, InvariantHolds, PTL DEF Spec, VerifiedIsStable

----------------------------------------------------------------------------
(***************************************************************************)
(* How far a task has come.                                                *)
(*                                                                         *)
(* ProgressInv says what a transaction in the loop has behind it: every    *)
(* step before the one it is at was tried, no row of a step it found has   *)
(* gone, and the approvals it asks for are new ones.  RowInv says what the *)
(* commit of such a transaction leaves in the database.                    *)
(***************************************************************************)

\* The plan and the rows of its steps belong together.
Fits(plan, steps) == \A i \in StepIds : steps[i] = "NONE" <=> i > Len(plan)

\* What a step behind the one in hand has come to.
Tried == Settled \cup {"COMMITTED"}

\* The first step that was not tried awaits a human.
Awaits(steps) ==
    \E i \in StepIds : /\ steps[i] = "AUTHORIZED"
                       /\ \A j \in StepIds : j < i => steps[j] \in Tried

ProgressInv(r) ==
    /\ Fits(r.tools, r.steps)
    /\ r.pc \notin Looping => r.pos = 1 /\ r.asked = {}
    /\ r.pc \in {"step", "execute", "verify"} =>
         \A i \in StepIds : i < r.pos => r.steps[i] \in Tried
    /\ r.pc = "commit" /\ r.status = "COMPLETED" =>
         \A i \in StepIds : i <= Len(r.tools) => r.steps[i] \in Tried
    /\ r.pc = "commit" /\ r.status = "PAUSED" => Awaits(r.steps)
    /\ r.pc \in Looping =>
         \A i \in StepIds : stepStatus[r.task][i] # "NONE" => r.steps[i] # "NONE"
    /\ r.pc \in Looping =>
         \A i \in StepIds, n \in ApprovalIds :
            <<i, n>> \in r.asked => approvals[r.task][i][n] = "NONE"

RowInv ==
    /\ \A t \in Tasks : Fits(tools[t], stepStatus[t])
    /\ \A t \in Tasks : ~planned[t] => tools[t] = <<>>
    /\ \A h \in Handlers : req[h].pc # "idle" =>
         approvals[req[h].task][req[h].step][req[h].row] # "NONE"
    /\ CompletedIsTried /\ ReplyAgrees /\ QueuedHasJob

PInv == IInv /\ RowInv /\ \A w \in Workers : ProgressInv(tx[w])

\* A step of a worker that leaves the rows alone keeps PInv when what it has then
\* in hand satisfies ProgressInv.
LEMMA MoveKeeps ==
    ASSUME PInv, IInv', NEW w \in Workers, NEW r, Move(w, r), ProgressInv(r)
    PROVE  PInv'
<1>1. tx' = [tx EXCEPT ![w] = r] /\ UNCHANGED <<rows, req>>
  BY DEF Move
<1>2. \A v \in Workers : tx'[v] = IF v = w THEN r ELSE tx[v]
  BY <1>1 DEF PInv, IInv, TypeOK
<1>3. RowInv'
  BY <1>1 DEF PInv, RowInv, rows, CompletedIsTried, ReplyAgrees, QueuedHasJob
<1>4. \A v \in Workers : ProgressInv(tx[v])'
  BY <1>1, <1>2 DEF PInv, ProgressInv, rows
<1> QED
  BY <1>3, <1>4 DEF PInv

\* Before the loop nothing is behind the worker.
LEMMA NothingBehind ==
    ASSUME PInv, IInv', NEW w \in Workers, ClaimJob(w) \/ LoadTask(w) \/ LockTask(w)
    PROVE  PInv'
<1>1. tx[w] \in Txs /\ ProgressInv(tx[w])
  BY DEF PInv, IInv, TypeOK
<1>2. CASE ClaimJob(w)
  <2>1. PICK j \in DOMAIN jobs :
          Move(w, [NoTx EXCEPT !.pc = "claimed", !.job = j, !.task = jobs[j].task])
    BY <1>2 DEF ClaimJob
  <2> DEFINE r == [NoTx EXCEPT !.pc = "claimed", !.job = j, !.task = jobs[j].task]
  <2>2. /\ r.pc = "claimed" /\ r.pos = 1 /\ r.asked = {}
        /\ r.tools = <<>> /\ r.steps = NoSteps
    BY DEF NoTx
  <2> HIDE DEF r
  <2>3. ProgressInv(r)
    BY <2>2, EmptySeq, BoundsAssumption DEF ProgressInv, Fits, NoSteps, Looping, StepIds
  <2> QED
    BY <2>1, <2>3, MoveKeeps DEF r
<1>3. CASE LoadTask(w)
  <2> DEFINE r == [tx[w] EXCEPT !.pc = "loaded", !.planned = planned[tx[w].task]]
  <2>1. ProgressInv(r)
    BY <1>1, <1>3 DEF LoadTask, Txs, ProgressInv, Looping
  <2> QED
    BY <1>3, <2>1, MoveKeeps DEF LoadTask
<1>4. CASE LockTask(w)
  <2> DEFINE r == [tx[w] EXCEPT !.pc = "plan", !.status = "PLANNING"]
  <2>1. ProgressInv(r)
    BY <1>1, <1>4 DEF LockTask, Txs, ProgressInv, Looping
  <2> QED
    BY <1>4, <2>1, MoveKeeps DEF LockTask
<1> QED
  BY <1>2, <1>3, <1>4

\* A new plan's steps are all still to do; so are those of a plan cut short.
LEMMA FreshPlanFits ==
    ASSUME NEW p \in Plans, NEW k \in 0..Len(p)
    PROVE  Fits(SubSeq(p, 1, k), NewSteps(p, k)) /\ Fits(p, NewSteps(p, Len(p)))
<1>1. Len(SubSeq(p, 1, k)) = k /\ Len(p) \in Nat
  BY PlanType, PlansAssumption, LenProperties
<1> QED
  BY <1>1, BoundsAssumption DEF Fits, NewSteps, StepIds

LEMMA PlanKeeps ==
    ASSUME PInv, IInv', NEW w \in Workers, PlanTask(w)
    PROVE  PInv'
<1> DEFINE t == tx[w].task
<1>1. tx[w] \in Txs /\ ProgressInv(tx[w]) /\ TxInv(tx[w]) /\ tx[w].pc = "plan"
  BY DEF PInv, IInv, TypeOK, PlanTask, DraftPlan, RejectPlan, MalformedPlan, ResumePlan
<1>2. t \in Tasks /\ tx[w].pos = 1 /\ tx[w].asked = {} /\ Fits(tx[w].tools, tx[w].steps)
  BY <1>1 DEF TxInv, ClaimInv, Busy, ProgressInv, Looping
<1>3. ASSUME ~tx[w].planned
      PROVE  \A i \in StepIds : stepStatus[t][i] = "NONE"
  <2>1. tools[t] = <<>> /\ Fits(tools[t], stepStatus[t])
    BY <1>1, <1>2, <1>3 DEF TxInv, HandInv, PInv, RowInv
  <2> QED
    BY <2>1, EmptySeq, BoundsAssumption DEF Fits, StepIds
<1>4. CASE DraftPlan(w)
  <2>1. PICK p \in Plans :
          Move(w, [tx[w] EXCEPT !.pc = "step", !.status = "RUNNING", !.planned = TRUE,
                                !.tools = p, !.steps = NewSteps(p, Len(p))])
    BY <1>4 DEF DraftPlan
  <2> DEFINE r == [tx[w] EXCEPT !.pc = "step", !.status = "RUNNING", !.planned = TRUE,
                                !.tools = p, !.steps = NewSteps(p, Len(p))]
  <2>2. Fits(p, NewSteps(p, Len(p)))
    BY FreshPlanFits, PlansAssumption, LenProperties
  <2>3. \A i \in StepIds : stepStatus[t][i] = "NONE"
    BY <1>3, <1>4 DEF DraftPlan
  <2>4. /\ r.pc = "step" /\ r.tools = p /\ r.steps = NewSteps(p, Len(p)) /\ r.pos = 1
        /\ r.asked = {} /\ r.task = t
    BY <1>1, <1>2 DEF Txs
  <2> HIDE DEF r
  <2>5. ProgressInv(r)
    BY <2>2, <2>3, <2>4, BoundsAssumption DEF ProgressInv, Looping, StepIds
  <2> QED
    BY <2>1, <2>5, MoveKeeps DEF r
<1>5. CASE RejectPlan(w)
  <2> DEFINE r == [tx[w] EXCEPT !.pc = "commit", !.status = "FAILED", !.planned = TRUE]
  <2>1. \A i \in StepIds : stepStatus[t][i] = "NONE"
    BY <1>3, <1>5 DEF RejectPlan
  <2>2. /\ r.pc = "commit" /\ r.tools = tx[w].tools /\ r.steps = tx[w].steps
        /\ r.asked = {} /\ r.task = t /\ r.status = "FAILED"
    BY <1>1, <1>2 DEF Txs
  <2>3. Move(w, r)
    BY <1>5 DEF RejectPlan
  <2> HIDE DEF r
  <2>4. ProgressInv(r)
    BY <1>2, <2>1, <2>2 DEF ProgressInv, Looping
  <2> QED
    BY <2>3, <2>4, MoveKeeps
<1>6. CASE MalformedPlan(w)
  <2>a. PICK p \in Plans : \E k \in 0..(Len(p) - 1) :
          Move(w, [tx[w] EXCEPT !.pc = "commit", !.status = "FAILED", !.planned = TRUE,
                                !.tools = SubSeq(p, 1, k), !.steps = NewSteps(p, k)])
    BY <1>6 DEF MalformedPlan
  <2>1. PICK k \in 0..(Len(p) - 1) :
          Move(w, [tx[w] EXCEPT !.pc = "commit", !.status = "FAILED", !.planned = TRUE,
                                !.tools = SubSeq(p, 1, k), !.steps = NewSteps(p, k)])
    BY <2>a
  <2> DEFINE r == [tx[w] EXCEPT !.pc = "commit", !.status = "FAILED", !.planned = TRUE,
                                !.tools = SubSeq(p, 1, k), !.steps = NewSteps(p, k)]
  <2>2. k \in 0..Len(p)
    BY PlansAssumption, LenProperties
  <2>3. Fits(SubSeq(p, 1, k), NewSteps(p, k))
    BY <2>2, FreshPlanFits
  <2>4. \A i \in StepIds : stepStatus[t][i] = "NONE"
    BY <1>3, <1>6 DEF MalformedPlan
  <2>5. /\ r.pc = "commit" /\ r.tools = SubSeq(p, 1, k) /\ r.steps = NewSteps(p, k)
        /\ r.asked = {} /\ r.task = t /\ r.status = "FAILED"
    BY <1>1, <1>2 DEF Txs
  <2> HIDE DEF r
  <2>6. ProgressInv(r)
    BY <2>3, <2>4, <2>5 DEF ProgressInv, Looping
  <2> QED
    BY <2>1, <2>6, MoveKeeps DEF r
<1>7. CASE ResumePlan(w)
  <2> DEFINE r == [tx[w] EXCEPT !.pc = "step", !.status = "RUNNING",
                                !.tools = tools[t], !.steps = stepStatus[t]]
  <2>1. Fits(tools[t], stepStatus[t])
    BY <1>2 DEF PInv, RowInv
  <2>2. /\ r.pc = "step" /\ r.tools = tools[t] /\ r.steps = stepStatus[t] /\ r.pos = 1
        /\ r.asked = {} /\ r.task = t
    BY <1>1, <1>2 DEF Txs
  <2>3. Move(w, r)
    BY <1>7 DEF ResumePlan
  <2> HIDE DEF r
  <2>4. ProgressInv(r)
    BY <2>1, <2>2, BoundsAssumption DEF ProgressInv, Looping, StepIds
  <2> QED
    BY <2>3, <2>4, MoveKeeps
<1> QED
  BY <1>4, <1>5, <1>6, <1>7 DEF PlanTask

\* The rows authorize adds are new ones.
LEMMA AskedIsNew ==
    ASSUME NEW w \in Workers, NEW reached, tx[w].pos \in StepIds
    PROVE  \A a \in {Asked(w, tx[w].pos), AskedAfter(w, reached)} :
             \A i \in StepIds, n \in ApprovalIds :
                <<i, n>> \in a => <<i, n>> \in tx[w].asked \/ approvals[tx[w].task][i][n] = "NONE"
<1>1. \A i \in StepIds, n \in ApprovalIds : <<i, n>> \in Asked(w, tx[w].pos) =>
        <<i, n>> \in tx[w].asked \/ approvals[tx[w].task][i][n] = "NONE"
  BY DEF Asked, ApprovalRows
<1> QED
  BY <1>1 DEF AskedAfter

\* A step of the loop that settles the step in hand and goes on, stays at it, or
\* stops there, gives it a status that is not NONE and asks for new rows only.
LEMMA InLoopKeeps ==
    ASSUME PInv, IInv', NEW w \in Workers, NEW r \in Txs, Move(w, r),
           TakeUp(w) \/ tx[w].pc \in {"execute", "verify"},
           r.task = tx[w].task, r.tools = tx[w].tools, NEW s, s # "NONE",
           \A i \in StepIds : r.steps[i] = IF i = tx[w].pos THEN s ELSE tx[w].steps[i],
           \A i \in StepIds, n \in ApprovalIds : <<i, n>> \in r.asked =>
             <<i, n>> \in tx[w].asked \/ approvals[tx[w].task][i][n] = "NONE",
           \/ r.pc = "step" /\ r.pos = tx[w].pos + 1 /\ s \in Settled
           \/ r.pc \in {"execute", "verify"} /\ r.pos = tx[w].pos
           \/ r.pc = "commit" /\ r.status = "PAUSED" /\ s = "AUTHORIZED"
           \/ r.pc = "commit" /\ r.status = "FAILED"
    PROVE  PInv'
<1>1. IInv /\ ProgressInv(tx[w]) /\ tx[w] \in Txs /\ tx[w].pc \in {"step", "execute", "verify"}
  BY DEF PInv, IInv, TypeOK, TakeUp, AtStep
<1>2. tx[w].pos \in StepIds /\ tx[w].pos \in 1..Len(tx[w].tools) /\ Len(tx[w].tools) \in Nat
  BY <1>1, InHand, LenProperties DEF Txs
<1>3. Fits(r.tools, r.steps)
  BY <1>1, <1>2 DEF ProgressInv, Fits
<1>4. \A i \in StepIds : i < tx[w].pos => tx[w].steps[i] \in Tried
  BY <1>1 DEF ProgressInv
<1>5. r.pc \in {"step", "execute", "verify"} => \A i \in StepIds : i < r.pos => r.steps[i] \in Tried
  BY <1>2, <1>4, BoundsAssumption DEF StepIds, Tried
<1>6. r.pc = "commit" /\ r.status = "PAUSED" => Awaits(r.steps)
  BY <1>2, <1>4, BoundsAssumption DEF Awaits, StepIds
<1>7. r.pc \in Looping /\ tx[w].pc \in Looping
  BY <1>1 DEF Looping
<1>8. \A i \in StepIds : stepStatus[r.task][i] # "NONE" => r.steps[i] # "NONE"
  BY <1>1, <1>7 DEF ProgressInv
<1>9. \A i \in StepIds, n \in ApprovalIds :
        <<i, n>> \in r.asked => approvals[r.task][i][n] = "NONE"
  BY <1>1, <1>7 DEF ProgressInv
<1>10. ProgressInv(r)
  BY <1>3, <1>5, <1>6, <1>7, <1>8, <1>9 DEF ProgressInv
<1> QED
  BY <1>10, MoveKeeps

\* A step skipped was VERIFIED, or COMMITTED; the loop ends when every step is behind it.
LEMMA SkipKeeps ==
    ASSUME PInv, IInv', NEW w \in Workers, ReplayStep(w) \/ CompleteTask(w)
    PROVE  PInv'
<1>1. /\ tx[w] \in Txs /\ ProgressInv(tx[w]) /\ LoopInv(tx[w]) /\ tx[w].pc = "step"
      /\ tx[w].pos \in Nat \ {0} /\ Len(tx[w].tools) \in Nat
  BY LenProperties
  DEF PInv, IInv, TxInv, TypeOK, Txs, ReplayStep, CompleteTask, AtStep
<1>2. CASE ReplayStep(w)
  <2> DEFINE r == NextStep(tx[w])
  <2>1. /\ r.pc = "step" /\ r.task = tx[w].task /\ r.tools = tx[w].tools
        /\ r.steps = tx[w].steps /\ r.pos = tx[w].pos + 1 /\ r.asked = tx[w].asked
    BY <1>1, NextStepType DEF NextStep, Txs
  <2>2. Move(w, r)
    BY <1>2 DEF ReplayStep
  <2> HIDE DEF r
  <2>3. tx[w].pos \in StepIds
    BY <1>1, <1>2, BoundsAssumption DEF ReplayStep, AtStep, LoopInv, StepIds
  <2>4. tx[w].steps[tx[w].pos] \in Tried
    BY <1>1, <1>2, <2>3 DEF ReplayStep, Skipped, Tried, Settled
  <2>5. \A i \in StepIds : i < r.pos => r.steps[i] \in Tried
    BY <1>1, <2>1, <2>4, BoundsAssumption DEF ProgressInv, StepIds
  <2>6. ProgressInv(r)
    BY <1>1, <2>1, <2>5 DEF ProgressInv, Looping
  <2> QED
    BY <2>2, <2>6, MoveKeeps
<1>3. CASE CompleteTask(w)
  <2> DEFINE r == [tx[w] EXCEPT !.pc = "commit", !.status = "COMPLETED"]
  <2>1. /\ r.pc = "commit" /\ r.status = "COMPLETED" /\ r.task = tx[w].task
        /\ r.tools = tx[w].tools /\ r.steps = tx[w].steps /\ r.asked = tx[w].asked
    BY <1>1 DEF Txs
  <2>2. Move(w, r) /\ tx[w].pos > Len(tx[w].tools)
    BY <1>3 DEF CompleteTask, StepsDone
  <2> HIDE DEF r
  <2>3. \A i \in StepIds : i <= Len(r.tools) => r.steps[i] \in Tried
    BY <1>1, <2>1, <2>2, BoundsAssumption DEF ProgressInv, StepIds
  <2>4. ProgressInv(r)
    BY <1>1, <2>1, <2>3 DEF ProgressInv, Looping
  <2> QED
    BY <2>2, <2>4, MoveKeeps
<1> QED
  BY <1>2, <1>3

----------------------------------------------------------------------------
(***************************************************************************)
(* What a step of the loop makes of the transaction.                       *)
(***************************************************************************)

\* The same work goes on: the job, the task and its plan.
SameWork(w, r) == /\ r \in Txs /\ Move(w, r)
                  /\ r.job = tx[w].job /\ r.task = tx[w].task /\ r.tools = tx[w].tools

Marks(w, r, s) == \A i \in StepIds : r.steps[i] = IF i = tx[w].pos THEN s ELSE tx[w].steps[i]

\* Only an attempt to run the tool may ask for one more approval than was asked for.
Asks(w, r) == \/ r.asked = tx[w].asked
              \/ /\ tx[w].pc = "execute"
                 /\ \E reached : r.asked = AskedAfter(w, reached)

\* The task pauses, or fails, at the step in hand.
LEMMA PauseShape ==
    ASSUME IInv, NEW w \in Workers,
           AwaitDecision(w) \/ AskApproval(w) \/ AmbiguousApproval(w)
    PROVE  \E r : /\ SameWork(w, r) /\ Marks(w, r, "AUTHORIZED") /\ r.pc = "commit"
                  /\ \/ r.status = "PAUSED" /\ AwaitDecision(w) /\ r.asked = tx[w].asked
                     \/ r.status = "PAUSED" /\ AskApproval(w) /\ r.asked = Asked(w, tx[w].pos)
                     \/ r.status = "FAILED" /\ r.asked = tx[w].asked
<1> DEFINE m == MarkStep(w, "AUTHORIZED")
           new == Asked(w, tx[w].pos)
<1>1. TakeUp(w) /\ tx[w] \in Txs /\ tx[w].pos \in StepIds
  BY TakenUp DEF AwaitDecision, AskApproval, AmbiguousApproval, IInv, TypeOK
<1>2. /\ m \in Txs /\ m.asked = tx[w].asked /\ m.job = tx[w].job /\ m.task = tx[w].task
      /\ m.tools = tx[w].tools /\ Marks(w, m, "AUTHORIZED")
  BY <1>1, MarkStepType DEF StepStatuses, Marks
<1>3. new \in SUBSET (StepIds \X ApprovalIds)
  BY <1>1, AskedType DEF IInv
<1>4. PICK r : /\ Move(w, r)
               /\ \/ AwaitDecision(w) /\ r = PauseTask(m)
                  \/ AskApproval(w) /\ r = PauseTask([m EXCEPT !.asked = new])
                  \/ r = FailTask(m)
  BY DEF AwaitDecision, AskApproval, AmbiguousApproval
<1> HIDE DEF m, new
<1> DEFINE k == [m EXCEPT !.asked = new]
<1>5. /\ k \in Txs /\ k.job = m.job /\ k.task = m.task /\ k.tools = m.tools /\ k.steps = m.steps
      /\ k.asked = new
  BY <1>2, <1>3 DEF Txs
<1>6. ASSUME NEW q \in Txs, NEW status \in {"PAUSED", "FAILED"},
             r = [q EXCEPT !.pc = "commit", !.status = status]
      PROVE  /\ r \in Txs /\ r.pc = "commit" /\ r.status = status
             /\ r.job = q.job /\ r.task = q.task /\ r.tools = q.tools /\ r.steps = q.steps
             /\ r.asked = q.asked
  BY <1>6 DEF Txs, WorkerPCs, TaskStatuses
<1>7. CASE AwaitDecision(w) /\ r = PauseTask(m)
  <2>1. /\ r \in Txs /\ r.pc = "commit" /\ r.status = "PAUSED"
        /\ r.job = m.job /\ r.task = m.task /\ r.tools = m.tools /\ r.steps = m.steps
        /\ r.asked = m.asked
    BY <1>2, <1>6, <1>7 DEF PauseTask
  <2> QED
    BY <1>2, <1>4, <1>7, <2>1 DEF SameWork, Marks
<1>8. CASE AskApproval(w) /\ r = PauseTask(k)
  <2> HIDE DEF k
  <2>1. /\ r \in Txs /\ r.pc = "commit" /\ r.status = "PAUSED"
        /\ r.job = k.job /\ r.task = k.task /\ r.tools = k.tools /\ r.steps = k.steps
        /\ r.asked = k.asked
    BY <1>5, <1>6, <1>8 DEF PauseTask
  <2> QED
    BY <1>2, <1>4, <1>5, <1>8, <2>1 DEF SameWork, Marks, new
<1>9. CASE r = FailTask(m)
  <2>1. /\ r \in Txs /\ r.pc = "commit" /\ r.status = "FAILED"
        /\ r.job = m.job /\ r.task = m.task /\ r.tools = m.tools /\ r.steps = m.steps
        /\ r.asked = m.asked
    BY <1>2, <1>6, <1>9 DEF FailTask
  <2> QED
    BY <1>2, <1>4, <2>1 DEF SameWork, Marks
<1> QED
  BY <1>4, <1>7, <1>8, <1>9

\* The step in hand is settled, and the task goes on.
LEMMA SettleShape ==
    ASSUME IInv, NEW w \in Workers, DenyStep(w) \/ StepFails(w) \/ VerifyStep(w)
    PROVE  /\ TakeUp(w) \/ tx[w].pc \in {"execute", "verify"}
           /\ \E r, s : /\ s \in Settled /\ SameWork(w, r) /\ Marks(w, r, s) /\ Asks(w, r)
                        /\ r.pc = "step" /\ r.pos = tx[w].pos + 1
<1>1. TakeUp(w) \/ tx[w].pc \in {"execute", "verify"}
  BY DEF DenyStep, StepFails, VerifyStep
<1>2. tx[w] \in Txs /\ tx[w].pos \in StepIds
  BY <1>1, InHand
<1>a. PICK s \in Settled : \E asked :
        \/ asked = tx[w].asked /\ Move(w, NextStep(MarkStep(w, s)))
        \/ /\ tx[w].pc = "execute" /\ \E reached : asked = AskedAfter(w, reached)
           /\ Move(w, NextStep([MarkStep(w, s) EXCEPT !.asked = asked]))
  BY DEF DenyStep, StepFails, VerifyStep, VerifyOutcomes, Settled
<1>3. PICK asked :
        \/ asked = tx[w].asked /\ Move(w, NextStep(MarkStep(w, s)))
        \/ /\ tx[w].pc = "execute" /\ \E reached : asked = AskedAfter(w, reached)
           /\ Move(w, NextStep([MarkStep(w, s) EXCEPT !.asked = asked]))
  BY <1>a
<1> DEFINE m == MarkStep(w, s)
<1>4. /\ m \in Txs /\ m.asked = tx[w].asked /\ m.job = tx[w].job /\ m.task = tx[w].task
      /\ m.tools = tx[w].tools /\ m.pos = tx[w].pos /\ Marks(w, m, s)
  BY <1>2, MarkStepType DEF Settled, StepStatuses, Marks
<1> HIDE DEF m
<1>5. asked \in SUBSET (StepIds \X ApprovalIds)
  BY <1>2, <1>3, AskedType DEF IInv, Txs
<1>6. PICK a : a \in {m, [m EXCEPT !.asked = asked]} /\ Move(w, NextStep(a)) /\ a.asked = asked
  BY <1>3, <1>4 DEF m, Txs
<1>7. /\ a \in Txs /\ a.job = m.job /\ a.task = m.task /\ a.tools = m.tools /\ a.pos = m.pos
      /\ a.steps = m.steps
  BY <1>4, <1>5, <1>6 DEF Txs
<1> DEFINE r == NextStep(a)
<1>n. PICK next : next = a.pos + 1 /\ next \in Nat \ {0}
  BY <1>7 DEF Txs
<1>s. r = [a EXCEPT !.pc = "step", !.pos = next, !.attempt = 1] /\ 1 \in 1..MaxRetries
  BY <1>7, <1>n DEF NextStep, Txs, MaxRetries
<1>8. /\ r \in Txs /\ r.pc = "step" /\ r.job = m.job /\ r.task = m.task /\ r.tools = m.tools
      /\ r.steps = m.steps /\ r.pos = tx[w].pos + 1 /\ r.asked = asked
  <2> HIDE DEF r
  <2>1. r \in Txs /\ r.pc = "step" /\ r.pos = next /\ r.asked = a.asked
    BY <1>7, <1>n, <1>s DEF Txs, WorkerPCs
  <2>2. r.job = a.job /\ r.task = a.task /\ r.tools = a.tools /\ r.steps = a.steps
    BY <1>7, <1>s DEF Txs
  <2> QED
    BY <1>4, <1>6, <1>7, <1>n, <2>1, <2>2
<1>m. Move(w, r)
  BY <1>6
<1> HIDE DEF r
<1>9. SameWork(w, r) /\ Marks(w, r, s) /\ Asks(w, r)
  BY <1>3, <1>4, <1>8, <1>m DEF SameWork, Marks, Asks
<1> QED
  BY <1>1, <1>8, <1>9

\* The step in hand is begun, tried again, or run to its end.
LEMMA RunShape ==
    ASSUME IInv, NEW w \in Workers, StartStep(w) \/ StepSucceeds(w) \/ StepRetries(w)
    PROVE  /\ TakeUp(w) \/ tx[w].pc \in {"execute", "verify"}
           /\ \E r, s : /\ SameWork(w, r) /\ Marks(w, r, s) /\ Asks(w, r)
                        /\ r.pc \in {"execute", "verify"} /\ r.pos = tx[w].pos
                        /\ \/ s = "EXECUTING"
                           \/ s = "COMMITTED" /\ StepSucceeds(w) /\ r.pc = "verify"
<1>1. TakeUp(w) \/ tx[w].pc \in {"execute", "verify"}
  BY DEF StartStep, StepSucceeds, StepRetries
<1>2. tx[w] \in Txs /\ tx[w].pos \in StepIds /\ LoopInv(tx[w])
  BY <1>1, InHand
<1>3. \A reached : AskedAfter(w, reached) \in SUBSET (StepIds \X ApprovalIds)
  BY <1>2, AskedType DEF IInv
<1>4. CASE StartStep(w)
  <2> DEFINE m == MarkStep(w, "EXECUTING")
  <2>1. /\ m \in Txs /\ m.asked = tx[w].asked /\ m.job = tx[w].job /\ m.task = tx[w].task
        /\ m.tools = tx[w].tools /\ m.pos = tx[w].pos /\ Marks(w, m, "EXECUTING")
    BY <1>2, MarkStepType DEF StepStatuses, Marks
  <2>2. PICK r : r = [m EXCEPT !.pc = "execute"] /\ Move(w, r)
    BY <1>4 DEF StartStep
  <2> HIDE DEF m
  <2>3. /\ r \in Txs /\ r.pc = "execute" /\ r.asked = m.asked /\ r.job = m.job
        /\ r.task = m.task /\ r.tools = m.tools /\ r.pos = m.pos /\ r.steps = m.steps
    BY <2>1, <2>2 DEF Txs, WorkerPCs
  <2>4. SameWork(w, r) /\ Marks(w, r, "EXECUTING") /\ Asks(w, r)
    BY <2>1, <2>2, <2>3 DEF SameWork, Marks, Asks
  <2> QED
    BY <1>1, <2>1, <2>3, <2>4
<1>5. CASE StepSucceeds(w)
  <2> DEFINE m == MarkStep(w, "COMMITTED")
             a == AskedAfter(w, Tool(w) \in GatewayTools)
  <2>1. /\ m \in Txs /\ m.job = tx[w].job /\ m.task = tx[w].task
        /\ m.tools = tx[w].tools /\ m.pos = tx[w].pos /\ Marks(w, m, "COMMITTED")
    BY <1>2, MarkStepType DEF StepStatuses, Marks
  <2>2. PICK r : r = [m EXCEPT !.pc = "verify", !.asked = a] /\ Move(w, r)
    BY <1>5 DEF StepSucceeds
  <2>3. a \in SUBSET (StepIds \X ApprovalIds) /\ \E reached : a = AskedAfter(w, reached)
    BY <1>3
  <2> HIDE DEF m, a
  <2>4. /\ r \in Txs /\ r.pc = "verify" /\ r.asked = a /\ r.job = m.job
        /\ r.task = m.task /\ r.tools = m.tools /\ r.pos = m.pos /\ r.steps = m.steps
    BY <2>1, <2>2, <2>3 DEF Txs, WorkerPCs
  <2>5. SameWork(w, r) /\ Marks(w, r, "COMMITTED") /\ Asks(w, r)
    BY <1>5, <2>1, <2>2, <2>3, <2>4 DEF SameWork, Marks, Asks, StepSucceeds
  <2> QED
    BY <1>1, <1>5, <2>1, <2>4, <2>5
<1>6. CASE StepRetries(w)
  <2>1. PICK reached \in MayReach(w) :
          Move(w, [tx[w] EXCEPT !.attempt = @ + 1, !.asked = AskedAfter(w, reached)])
    BY <1>6 DEF StepRetries
  <2> DEFINE a == AskedAfter(w, reached)
             n == tx[w].attempt + 1
  <2>2. PICK r : r = [tx[w] EXCEPT !.attempt = n, !.asked = a] /\ Move(w, r)
    BY <2>1
  <2>3. /\ a \in SUBSET (StepIds \X ApprovalIds) /\ \E q : a = AskedAfter(w, q)
        /\ tx[w].pc = "execute"
    BY <1>3, <1>6 DEF StepRetries
  <2>l. tx[w].attempt \in 1..MaxRetries /\ tx[w].attempt < MaxRetries
    BY <1>2, <1>6 DEF StepRetries, Txs
  <2>n. n \in 1..MaxRetries
    BY <2>l DEF MaxRetries
  <2>4. tx[w].steps[tx[w].pos] = "EXECUTING"
    BY <1>2, <2>3 DEF LoopInv
  <2> HIDE DEF a, n
  <2>5. /\ r \in Txs /\ r.pc = "execute" /\ r.asked = a /\ r.job = tx[w].job
        /\ r.task = tx[w].task /\ r.tools = tx[w].tools /\ r.pos = tx[w].pos
        /\ r.steps = tx[w].steps
    BY <1>2, <2>2, <2>3, <2>n DEF Txs
  <2>6. SameWork(w, r) /\ Marks(w, r, "EXECUTING") /\ Asks(w, r)
    BY <2>2, <2>3, <2>4, <2>5 DEF SameWork, Marks, Asks
  <2> QED
    BY <1>1, <2>5, <2>6
<1> QED
  BY <1>4, <1>5, <1>6

\* Each of them keeps PInv.
LEMMA LoopKeeps ==
    ASSUME PInv, IInv', NEW w \in Workers, DoStep(w), ~ReplayStep(w)
    PROVE  PInv'
<1>1. IInv /\ tx[w] \in Txs
  BY DEF PInv, IInv, TypeOK
<1>2. ASSUME tx[w].pos \in StepIds, NEW r, Asks(w, r)
      PROVE  \A i \in StepIds, n \in ApprovalIds : <<i, n>> \in r.asked =>
               <<i, n>> \in tx[w].asked \/ approvals[tx[w].task][i][n] = "NONE"
  BY <1>2, AskedIsNew DEF Asks
<1>3. CASE AwaitDecision(w) \/ AskApproval(w) \/ AmbiguousApproval(w)
  <2>1. TakeUp(w) /\ tx[w].pos \in StepIds
    BY <1>1, <1>3, TakenUp DEF AwaitDecision, AskApproval, AmbiguousApproval
  <2>2. PICK r : /\ SameWork(w, r) /\ Marks(w, r, "AUTHORIZED") /\ r.pc = "commit"
                 /\ r.status \in {"PAUSED", "FAILED"}
                 /\ r.asked = tx[w].asked \/ r.asked = Asked(w, tx[w].pos)
    BY <1>1, <1>3, PauseShape
  <2>3. \A i \in StepIds, n \in ApprovalIds : <<i, n>> \in r.asked =>
          <<i, n>> \in tx[w].asked \/ approvals[tx[w].task][i][n] = "NONE"
    BY <2>1, <2>2, AskedIsNew
  <2> QED
    BY <2>1, <2>2, <2>3, InLoopKeeps DEF SameWork, Marks
<1>4. CASE DenyStep(w) \/ StepFails(w) \/ VerifyStep(w)
  <2>1. PICK r, s : /\ s \in Settled /\ SameWork(w, r) /\ Marks(w, r, s) /\ Asks(w, r)
                    /\ r.pc = "step" /\ r.pos = tx[w].pos + 1
    BY <1>1, <1>4, SettleShape
  <2>2. TakeUp(w) \/ tx[w].pc \in {"execute", "verify"}
    BY <1>1, <1>4, SettleShape
  <2>3. tx[w].pos \in StepIds /\ s # "NONE"
    BY <1>1, <2>1, <2>2, InHand DEF Settled
  <2>4. \A i \in StepIds, n \in ApprovalIds : <<i, n>> \in r.asked =>
          <<i, n>> \in tx[w].asked \/ approvals[tx[w].task][i][n] = "NONE"
    BY <1>2, <2>1, <2>3
  <2> QED
    BY <2>1, <2>2, <2>3, <2>4, InLoopKeeps DEF SameWork, Marks
<1>5. CASE StartStep(w) \/ StepSucceeds(w) \/ StepRetries(w)
  <2>1. PICK r, s : /\ s # "NONE" /\ SameWork(w, r) /\ Marks(w, r, s) /\ Asks(w, r)
                    /\ r.pc \in {"execute", "verify"} /\ r.pos = tx[w].pos
    BY <1>1, <1>5, RunShape
  <2>2. TakeUp(w) \/ tx[w].pc \in {"execute", "verify"}
    BY <1>1, <1>5, RunShape
  <2>3. tx[w].pos \in StepIds
    BY <1>1, <2>2, InHand
  <2>4. \A i \in StepIds, n \in ApprovalIds : <<i, n>> \in r.asked =>
          <<i, n>> \in tx[w].asked \/ approvals[tx[w].task][i][n] = "NONE"
    BY <1>2, <2>1, <2>3
  <2> QED
    BY <2>1, <2>2, <2>3, <2>4, InLoopKeeps DEF SameWork, Marks
<1>6. CASE VerifyRaises(w)
  <2>1. tx[w].pc = "verify" /\ tx[w].steps[tx[w].pos] = "COMMITTED"
    BY <1>1, <1>6 DEF VerifyRaises, IInv, TxInv, LoopInv
  <2>2. PICK r \in Txs :
             /\ Move(w, r) /\ r.pc = "commit" /\ r.status = "FAILED" /\ r.job = tx[w].job
             /\ r.task = tx[w].task /\ r.planned = tx[w].planned /\ r.tools = tx[w].tools
             /\ r.steps = tx[w].steps /\ r.asked = tx[w].asked
    BY <1>1, <1>6, RaiseHand
  <2>3. \A i \in StepIds : r.steps[i] = IF i = tx[w].pos THEN "COMMITTED" ELSE tx[w].steps[i]
    BY <2>1, <2>2
  <2> QED
    BY <2>1, <2>2, <2>3, InLoopKeeps
<1> QED
  BY <1>3, <1>4, <1>5, <1>6 DEF DoStep

\* A transaction that has nothing in hand.
LEMMA EmptyHand ==
    ASSUME NEW w \in Workers,
           NEW r \in {NoTx, [NoTx EXCEPT !.pc = "raised", !.job = tx[w].job]}
    PROVE  ProgressInv(r) /\ ProgressInv(r)'
<1>1. /\ r.pc \notin Looping /\ r.pos = 1 /\ r.asked = {}
      /\ r.tools = <<>> /\ r.steps = NoSteps
  <2>1. CASE r = NoTx
    BY <2>1 DEF NoTx, Looping
  <2>2. CASE r = [NoTx EXCEPT !.pc = "raised", !.job = tx[w].job]
    BY <2>2 DEF NoTx, Looping
  <2> QED
    BY <2>1, <2>2
<1> QED
  BY <1>1, EmptySeq, BoundsAssumption DEF ProgressInv, Fits, NoSteps, StepIds, Looping

\* The commit publishes a plan whose steps are done as far as the status says.
LEMMA CommitKeeps ==
    ASSUME PInv, IInv', NEW w \in Workers, CommitWork(w)
    PROVE  PInv'
<1> DEFINE t == tx[w].task
           j == tx[w].job
<1>1. /\ tx[w] \in Txs /\ TxInv(tx[w]) /\ tx[w].pc = "commit" /\ tx[w].planned
      /\ t \in Tasks /\ Len(tx[w].tools) <= MaxSteps
      /\ tx[w].status \in {"PAUSED", "COMPLETED", "FAILED"}
      /\ DOMAIN jobs' = DOMAIN jobs
      /\ \A k \in DOMAIN jobs : jobs'[k].task = jobs[k].task
      /\ \A v \in Workers : tx'[v] = IF v = w THEN NoTx ELSE tx[v]
      /\ UNCHANGED req
      /\ \A n \in ApprovalIds, i \in StepIds :
           WithAsked(w)[i][n] \in {"PENDING", approvals[t][i][n]}
  BY CommitEffect DEF PInv
<1>2. ProgressInv(tx[w])
  BY DEF PInv
<1>3. /\ \A u \in Tasks :
          /\ taskStatus'[u] = IF u = t THEN tx[w].status ELSE taskStatus[u]
          /\ planned'[u] = IF u = t THEN tx[w].planned ELSE planned[u]
          /\ tools'[u] = IF u = t THEN tx[w].tools ELSE tools[u]
          /\ stepStatus'[u] = IF u = t THEN tx[w].steps ELSE stepStatus[u]
          /\ approvals'[u] = IF u = t THEN WithAsked(w) ELSE approvals[u]
          /\ reply'[u] = IF u = t THEN ReplyTo(tx[w].status, reply[u]) ELSE reply[u]
  BY <1>1 DEF CommitWork, PInv, IInv, TypeOK
<1>4. /\ j \in DOMAIN jobs /\ jobs[j].task = t
      /\ \A k \in DOMAIN jobs : k # j => jobs'[k] = jobs[k]
  BY <1>1 DEF CommitWork, TxInv, ClaimInv, Busy, Looping
<1>5. tx[w].tools \in Seq(ToolNames) /\ Len(tx[w].tools) \in Nat
      /\ DOMAIN tx[w].tools = 1..Len(tx[w].tools)
  BY <1>1, LenProperties DEF Txs
<1> HIDE DEF t, j
<1>6. \A u \in Tasks : Fits(tools'[u], stepStatus'[u])
  BY <1>2, <1>3 DEF PInv, RowInv, ProgressInv
<1>7. \A u \in Tasks : ~planned'[u] => tools'[u] = <<>>
  BY <1>1, <1>3 DEF PInv, RowInv
<1>8. \A h \in Handlers : req'[h].pc # "idle" =>
        approvals'[req'[h].task][req'[h].step][req'[h].row] # "NONE"
  <2> SUFFICES ASSUME NEW h \in Handlers, req[h].pc # "idle"
               PROVE  approvals'[req[h].task][req[h].step][req[h].row] # "NONE"
    BY <1>1
  <2>1. /\ approvals[req[h].task][req[h].step][req[h].row] # "NONE"
        /\ req[h].task \in Tasks /\ req[h].step \in StepIds /\ req[h].row \in ApprovalIds
    BY DEF PInv, RowInv, IInv, ReqInv
  <2>2. WithAsked(w)[req[h].step][req[h].row] \in {"PENDING", approvals[t][req[h].step][req[h].row]}
    BY <1>1, <2>1
  <2> QED
    BY <1>3, <2>1, <2>2
<1>9. CompletedIsTried'
  <2> SUFFICES ASSUME NEW u \in Tasks, taskStatus'[u] = "COMPLETED", NEW i \in DOMAIN tools'[u]
               PROVE  stepStatus'[u][i] \in Tried
    BY DEF CompletedIsTried, Tried
  <2>1. CASE u = t
    <3>1. i \in 1..Len(tx[w].tools) /\ tx[w].status = "COMPLETED"
      BY <1>3, <1>5, <2>1
    <3>2. i \in StepIds /\ i <= Len(tx[w].tools)
      BY <1>1, <1>5, <3>1, BoundsAssumption DEF StepIds
    <3> QED
      BY <1>1, <1>2, <1>3, <2>1, <3>1, <3>2 DEF ProgressInv
  <2>2. CASE u # t
    BY <1>3, <2>2 DEF PInv, RowInv, CompletedIsTried, Tried
  <2> QED
    BY <2>1, <2>2
<1>10. ReplyAgrees'
  BY <1>1, <1>3 DEF PInv, RowInv, ReplyAgrees, ReplyTo
<1>11. QueuedHasJob'
  <2> SUFFICES ASSUME NEW u \in Tasks, taskStatus'[u] = "QUEUED"
               PROVE  \E k \in DOMAIN jobs' :
                        jobs'[k].task = u /\ jobs'[k].status \in {"pending", "failed"}
    BY DEF QueuedHasJob
  <2>1. u # t /\ taskStatus[u] = "QUEUED"
    BY <1>1, <1>3
  <2>2. PICK k \in DOMAIN jobs : jobs[k].task = u /\ jobs[k].status \in {"pending", "failed"}
    BY <2>1 DEF PInv, RowInv, QueuedHasJob
  <2>3. k # j
    BY <1>4, <2>1, <2>2
  <2> QED
    BY <1>1, <1>4, <2>2, <2>3
<1>12. ASSUME NEW v \in Workers
       PROVE  ProgressInv(tx[v])'
  <2>1. CASE v = w
    BY <1>1, <2>1, EmptyHand DEF ProgressInv
  <2>2. CASE v # w
    <3>1. tx'[v] = tx[v] /\ ProgressInv(tx[v]) /\ ClaimInv(tx[v])
      BY <1>1, <2>2 DEF PInv, IInv, TxInv
    <3>2. tx[v].pc \in Looping => tx[v].task # t /\ tx[v].task \in Tasks
      BY <1>1, <2>2, <3>1 DEF PInv, IInv, LockInv, ClaimInv, Busy, Looping, Driving, t
    <3>3. tx[v].pc \in Looping => /\ stepStatus'[tx[v].task] = stepStatus[tx[v].task]
                                  /\ approvals'[tx[v].task] = approvals[tx[v].task]
      BY <1>3, <3>2
    <3> QED
      BY <3>1, <3>3 DEF ProgressInv
  <2> QED
    BY <2>1, <2>2
<1> QED
  BY <1>6, <1>7, <1>8, <1>9, <1>10, <1>11, <1>12 DEF PInv, RowInv

\* Dropping the transaction, or failing its job.
LEMMA FaultKeeps ==
    ASSUME PInv, IInv', NEW w \in Workers,
           Crash(w) \/ DatabaseError(w) \/ MarkJobFailed(w) \/ HandlerFails(w)
    PROVE  PInv'
<1>1. PICK r \in {NoTx, [NoTx EXCEPT !.pc = "raised", !.job = tx[w].job]} :
        tx' = [tx EXCEPT ![w] = r]
  BY DEF Crash, DatabaseError, MarkJobFailed, HandlerFails, Drop
<1>2. /\ UNCHANGED <<taskStatus, planned, tools, stepStatus, approvals, reply, req>>
      /\ \A v \in Workers : tx'[v] = IF v = w THEN r ELSE tx[v]
  BY <1>1 DEF Crash, DatabaseError, MarkJobFailed, HandlerFails, Drop, rows,
              PInv, IInv, TypeOK
<1>3. \A v \in Workers : ProgressInv(tx[v])'
  <2> SUFFICES ASSUME NEW v \in Workers
               PROVE  ProgressInv(tx[v])'
    OBVIOUS
  <2>1. CASE v = w
    <3>1. ProgressInv(r)'
      BY EmptyHand
    <3>2. tx'[v] = r
      BY <1>2, <2>1
    <3> HIDE <1>1
    <3> QED
      BY <3>1, <3>2 DEF ProgressInv
  <2>2. CASE v # w
    BY <1>2, <2>2 DEF PInv, ProgressInv
  <2> QED
    BY <2>1, <2>2
<1>4. QueuedHasJob'
  <2>1. CASE jobs' = jobs
    BY <1>2, <2>1 DEF PInv, RowInv, QueuedHasJob
  <2>2. CASE MarkJobFailed(w)
    <3>1. tx[w].job \in DOMAIN jobs /\ jobs \in Seq(JobRows)
      BY <2>2 DEF PInv, IInv, TypeOK, TxInv, ClaimInv, MarkJobFailed
    <3>2. /\ DOMAIN jobs' = DOMAIN jobs
          /\ \A k \in DOMAIN jobs : jobs'[k].task = jobs[k].task
      BY <2>2, <3>1, JobUpdate DEF MarkJobFailed, JobStatuses
    <3>3. \A k \in DOMAIN jobs : jobs'[k].status \in {jobs[k].status, "failed"}
      <4> SUFFICES ASSUME NEW k \in DOMAIN jobs
                   PROVE  jobs'[k].status \in {jobs[k].status, "failed"}
        OBVIOUS
      <4>1. jobs[k] \in JobRows
        BY <3>1, ElementOfSeq, LenProperties
      <4> QED
        BY <2>2, <3>1, <4>1 DEF MarkJobFailed, JobRows
    <3> QED
      BY <1>2, <3>2, <3>3 DEF PInv, RowInv, QueuedHasJob
  <2> QED
    BY <2>1, <2>2 DEF Crash, DatabaseError, HandlerFails, Drop, rows
<1>5. RowInv'
  BY <1>2, <1>4 DEF PInv, RowInv, CompletedIsTried, ReplyAgrees
<1> QED
  BY <1>3, <1>5 DEF PInv

\* A request that has not decided yet.
LEMMA RequestKeeps ==
    ASSUME PInv, IInv', NEW h \in Handlers,
           CheckPending(h) \/ FlushDecision(h) \/ ReadTask(h) \/ RequeueTask(h) \/ AbortRequest(h)
    PROVE  PInv'
<1>1. UNCHANGED <<rows, tx>>
  BY DEF CheckPending, FlushDecision, ReadTask, RequeueTask, AbortRequest, Respond
<1>2. req \in [Handlers -> Requests] /\ req' = [req EXCEPT ![h] = req'[h]]
  BY DEF CheckPending, FlushDecision, ReadTask, RequeueTask, AbortRequest, Respond,
         PInv, IInv, TypeOK
<1>3. \A g \in Handlers : g # h => req'[g] = req[g]
  BY <1>2
<1>4. req'[h].pc # "idle" => approvals[req'[h].task][req'[h].step][req'[h].row] # "NONE"
  <2>1. CASE CheckPending(h)
    BY <1>2, <2>1 DEF CheckPending, Respond, Decidable
  <2>2. CASE AbortRequest(h)
    BY <1>2, <2>2 DEF AbortRequest, NoReq
  <2>3. CASE FlushDecision(h) \/ ReadTask(h) \/ RequeueTask(h)
    <3>1. /\ req'[h].task = req[h].task /\ req'[h].step = req[h].step
          /\ req'[h].row = req[h].row /\ req[h].pc # "idle"
      BY <1>2, <2>3 DEF FlushDecision, ReadTask, RequeueTask, Respond, Requests
    <3> QED
      BY <3>1 DEF PInv, RowInv
  <2> QED
    BY <2>1, <2>2, <2>3
<1>5. RowInv'
  BY <1>1, <1>3, <1>4 DEF rows, PInv, RowInv, CompletedIsTried, ReplyAgrees, QueuedHasJob
<1>6. \A w \in Workers : ProgressInv(tx[w])'
  BY <1>1 DEF PInv, ProgressInv, rows
<1> QED
  BY <1>5, <1>6 DEF PInv

\* A new task has no plan, no step and one job.
LEMMA CreateKeeps ==
    ASSUME PInv, IInv', NEW t \in Tasks, CreateTask(t)
    PROVE  PInv'
<1>1. /\ jobs' = jobs \o <<[task |-> t, status |-> "pending"]>>
      /\ UNCHANGED <<planned, tools, stepStatus, approvals, tx, req>>
      /\ \A u \in Tasks : /\ taskStatus'[u] = IF u = t THEN "QUEUED" ELSE taskStatus[u]
                          /\ u # t => reply'[u] = reply[u]
  BY DEF CreateTask, NewJobs, PInv, IInv, TypeOK
<1>2. /\ \A k \in DOMAIN jobs : k \in DOMAIN jobs' /\ jobs'[k] = jobs[k]
      /\ Len(jobs) + 1 \in DOMAIN jobs'
      /\ jobs'[Len(jobs) + 1] = [task |-> t, status |-> "pending"]
  BY <1>1, JobAppend DEF PInv, IInv, TypeOK
<1>3. QueuedHasJob'
  BY <1>1, <1>2 DEF PInv, RowInv, QueuedHasJob
<1>4. RowInv'
  BY <1>1, <1>3 DEF PInv, RowInv, CompletedIsTried, ReplyAgrees
<1>5. \A w \in Workers : ProgressInv(tx[w])'
  BY <1>1 DEF PInv, ProgressInv
<1> QED
  BY <1>4, <1>5 DEF PInv

\* A decision is written to a row there is, so it is none a worker is about to add.
LEMMA DecideKeeps ==
    ASSUME PInv, IInv', NEW h \in Handlers, CommitDecision(h)
    PROVE  PInv'
<1> DEFINE t == req[h].task
           i == req[h].step
           n == req[h].row
           d == req[h].decision
<1>1. /\ t \in Tasks /\ i \in StepIds /\ n \in ApprovalIds
      /\ approvals[t][i][n] # "NONE" /\ d # "NONE"
  BY DEF PInv, RowInv, IInv, TypeOK, ReqInv, CommitDecision, Requests, Decisions
<1>2. /\ UNCHANGED <<planned, tools, stepStatus, reply, tx>>
      /\ \A g \in Handlers : req'[g] = IF g = h THEN NoReq ELSE req[g]
      /\ \A u \in Tasks, k \in StepIds, m \in ApprovalIds :
           approvals'[u][k][m] = IF u = t /\ k = i /\ m = n THEN d ELSE approvals[u][k][m]
      /\ \/ /\ \A u \in Tasks : taskStatus'[u] = IF u = t THEN "QUEUED" ELSE taskStatus[u]
            /\ jobs' = jobs \o <<[task |-> t, status |-> "pending"]>>
         \/ UNCHANGED <<taskStatus, jobs>>
  BY <1>1 DEF CommitDecision, ResumeJobs, PInv, IInv, TypeOK
<1> HIDE DEF t, i, n, d
<1>3. QueuedHasJob'
  <2>1. CASE UNCHANGED <<taskStatus, jobs>>
    BY <2>1 DEF PInv, RowInv, QueuedHasJob
  <2>2. CASE /\ \A u \in Tasks : taskStatus'[u] = IF u = t THEN "QUEUED" ELSE taskStatus[u]
             /\ jobs' = jobs \o <<[task |-> t, status |-> "pending"]>>
    <3>1. /\ \A k \in DOMAIN jobs : k \in DOMAIN jobs' /\ jobs'[k] = jobs[k]
          /\ Len(jobs) + 1 \in DOMAIN jobs'
          /\ jobs'[Len(jobs) + 1] = [task |-> t, status |-> "pending"]
      BY <1>1, <2>2, JobAppend DEF PInv, IInv, TypeOK
    <3> QED
      BY <2>2, <3>1 DEF PInv, RowInv, QueuedHasJob
  <2> QED
    BY <1>2, <2>1, <2>2
<1>4. \A u \in Tasks : taskStatus'[u] # "QUEUED" => taskStatus'[u] = taskStatus[u]
  BY <1>2
<1>5. CompletedIsTried' /\ ReplyAgrees'
  BY <1>2, <1>4 DEF PInv, RowInv, CompletedIsTried, ReplyAgrees
<1>6. \A g \in Handlers : req'[g].pc # "idle" =>
        approvals'[req'[g].task][req'[g].step][req'[g].row] # "NONE"
  <2> SUFFICES ASSUME NEW g \in Handlers, req'[g].pc # "idle"
               PROVE  approvals'[req'[g].task][req'[g].step][req'[g].row] # "NONE"
    OBVIOUS
  <2>1. req'[g] = req[g]
    BY <1>2 DEF NoReq
  <2>2. /\ req[g].task \in Tasks /\ req[g].step \in StepIds /\ req[g].row \in ApprovalIds
        /\ approvals[req[g].task][req[g].step][req[g].row] # "NONE"
    BY <2>1 DEF PInv, RowInv, IInv, ReqInv
  <2> QED
    BY <1>1, <1>2, <2>1, <2>2
<1>7. RowInv'
  BY <1>2, <1>3, <1>5, <1>6 DEF PInv, RowInv
<1>8. \A w \in Workers : ProgressInv(tx[w])'
  <2> SUFFICES ASSUME NEW w \in Workers
               PROVE  ProgressInv(tx[w])'
    OBVIOUS
  <2>1. ProgressInv(tx[w]) /\ tx' = tx /\ stepStatus' = stepStatus
    BY <1>2 DEF PInv
  <2>2. tx[w].pc \in Looping => tx[w].task \in Tasks
    BY DEF PInv, IInv, TxInv, ClaimInv, Busy
  <2>3. tx[w].pc \in Looping =>
          \A k \in StepIds, m \in ApprovalIds :
            <<k, m>> \in tx[w].asked => approvals'[tx[w].task][k][m] = "NONE"
    BY <1>1, <1>2, <2>1, <2>2 DEF ProgressInv
  <2> QED
    BY <2>1, <2>3 DEF ProgressInv
<1> QED
  BY <1>7, <1>8 DEF PInv

LEMMA InitPInv == Init => PInv
<1> SUFFICES ASSUME Init
             PROVE  PInv
  OBVIOUS
<1>1. IInv
  BY InitIInv
<1>2. RowInv
  BY EmptySeq, BoundsAssumption
  DEF Init, RowInv, Fits, NoSteps, StepIds, NoReq, CompletedIsTried, ReplyAgrees, QueuedHasJob
<1>3. \A w \in Workers : ProgressInv(tx[w])
  BY EmptyHand DEF Init
<1> QED
  BY <1>1, <1>2, <1>3 DEF PInv

LEMMA NextPInv == PInv /\ [Next]_vars => PInv'
<1> SUFFICES ASSUME PInv, [Next]_vars
             PROVE  PInv'
  OBVIOUS
<1>1. IInv'
  BY NextIInv DEF PInv
<1>2. ASSUME NEW t \in Tasks, CreateTask(t)
      PROVE  PInv'
  BY <1>1, <1>2, CreateKeeps
<1>3. ASSUME NEW w \in Workers, ClaimJob(w) \/ LoadTask(w) \/ LockTask(w) \/ PlanTask(w)
      PROVE  PInv'
  BY <1>1, <1>3, NothingBehind, PlanKeeps
<1>4. ASSUME NEW w \in Workers, DoStep(w) \/ CompleteTask(w)
      PROVE  PInv'
  BY <1>1, <1>4, SkipKeeps, LoopKeeps
<1>5. ASSUME NEW w \in Workers, CommitWork(w)
      PROVE  PInv'
  BY <1>1, <1>5, CommitKeeps
<1>6. ASSUME NEW w \in Workers,
             MarkJobFailed(w) \/ HandlerFails(w) \/ Crash(w) \/ DatabaseError(w)
      PROVE  PInv'
  BY <1>1, <1>6, FaultKeeps
<1>7. ASSUME NEW h \in Handlers, CheckPending(h) \/ Answer(h) \/ AbortRequest(h)
      PROVE  PInv'
  BY <1>1, <1>7, RequestKeeps, DecideKeeps DEF Answer
<1>8. CASE UNCHANGED vars
  BY <1>1, <1>8 DEF vars, rows, PInv, RowInv, ProgressInv, CompletedIsTried, ReplyAgrees,
                    QueuedHasJob
<1> QED
  BY <1>2, <1>3, <1>4, <1>5, <1>6, <1>7, <1>8 DEF Next, Work

\* The bookkeeping above holds whatever the workers and the requests do.
THEOREM ProgressHolds == Spec => []PInv
BY InitPInv, NextPInv, PTL DEF Spec

\* A COMPLETED task has tried every step of its plan (agent_loop.py:285), however
\* often it was paused, resumed, or driven by another worker.
THEOREM CompletedLeavesNothing == Spec => []CompletedIsTried
<1>1. PInv => CompletedIsTried
  BY DEF PInv, RowInv
<1> QED
  BY <1>1, ProgressHolds, PTL

\* The last message of a task that is COMPLETED or FAILED says so
\* (job_worker.py:78-105).
THEOREM ReplyTellsTheEnd == Spec => []ReplyAgrees
<1>1. PInv => ReplyAgrees
  BY DEF PInv, RowInv
<1> QED
  BY <1>1, ProgressHolds, PTL

\* A QUEUED task has a job that is pending, or that the worker loop's handler has
\* failed (job_worker.py:123-129): no commit leaves it without one.
THEOREM QueuedTaskHasJob == Spec => []QueuedHasJob
<1>1. PInv => QueuedHasJob
  BY DEF PInv, RowInv
<1> QED
  BY <1>1, ProgressHolds, PTL

----------------------------------------------------------------------------
(***************************************************************************)
(* Steps that ran and were not verified.                                   *)
(*                                                                         *)
(* A verification that raises leaves its step COMMITTED, in a task that    *)
(* fails.  RanInv follows such a step through the transactions: its tool   *)
(* ran to its end, and it is a code_exec unless it is just being verified. *)
(***************************************************************************)

Ran(r, i) == /\ r.pc \in Looping /\ i \in DOMAIN r.tools
             /\ effects[r.task][i] > 0
             /\ r.tools[i] = "code_exec" \/ (r.pc = "verify" /\ i = r.pos)

RanIn(r) == \A i \in StepIds : r.steps[i] = "COMMITTED" => Ran(r, i)

RanInv == OnlyRestingStatuses /\ \A w \in Workers : RanIn(tx[w])

\* Where a step of the loop finds the steps it leaves COMMITTED.
Leaves(w, r) ==
    \A i \in StepIds : r.steps[i] = "COMMITTED" =>
        \/ tx[w].steps[i] = "COMMITTED" /\ ~(tx[w].pc = "verify" /\ i = tx[w].pos)
        \/ /\ i = tx[w].pos /\ i \in DOMAIN tx[w].tools /\ StepSucceeds(w)
           /\ r.pc = "verify" /\ i = r.pos
        \/ /\ i = tx[w].pos /\ tx[w].pc = "verify" /\ tx[w].steps[i] = "COMMITTED"
           /\ tx[w].tools[i] = "code_exec" /\ r.pc = "commit" /\ r.status = "FAILED"

LEMMA LoopLeaves ==
    ASSUME IInv, NEW w \in Workers, DoStep(w) \/ CompleteTask(w)
    PROVE  \E r : /\ Move(w, r) /\ r.task = tx[w].task /\ r.tools = tx[w].tools
                  /\ tx[w].pc \in {"step", "execute", "verify"} /\ r.pc \in Looping
                  /\ Leaves(w, r)
<1>1. tx[w] \in Txs /\ LoopInv(tx[w])
  BY DEF IInv, TypeOK, TxInv
<1>2. CASE AwaitDecision(w) \/ AskApproval(w) \/ AmbiguousApproval(w)
  <2>1. PICK r : SameWork(w, r) /\ Marks(w, r, "AUTHORIZED") /\ r.pc = "commit"
    BY <1>2, PauseShape
  <2>2. tx[w].pc = "step"
    BY <1>2 DEF AwaitDecision, AskApproval, AmbiguousApproval, TakeUp, AtStep
  <2> QED
    BY <2>1, <2>2 DEF SameWork, Marks, Leaves, Looping
<1>3. CASE DenyStep(w) \/ StepFails(w) \/ VerifyStep(w)
  <2>1. PICK r, s : /\ s \in Settled /\ SameWork(w, r) /\ Marks(w, r, s) /\ r.pc = "step"
    BY <1>3, SettleShape
  <2>2. tx[w].pc \in {"step", "execute", "verify"}
    BY <1>3 DEF DenyStep, StepFails, VerifyStep, TakeUp, AtStep
  <2> QED
    BY <2>1, <2>2 DEF SameWork, Marks, Leaves, Looping, Settled
<1>4. CASE StartStep(w) \/ StepSucceeds(w) \/ StepRetries(w)
  <2>1. PICK r, s : /\ SameWork(w, r) /\ Marks(w, r, s)
                    /\ r.pc \in {"execute", "verify"} /\ r.pos = tx[w].pos
                    /\ \/ s = "EXECUTING"
                       \/ s = "COMMITTED" /\ StepSucceeds(w) /\ r.pc = "verify"
    BY <1>4, RunShape
  <2>2. tx[w].pc \in {"step", "execute"}
    BY <1>4 DEF StartStep, StepSucceeds, StepRetries, TakeUp, AtStep
  <2>3. TakeUp(w) \/ tx[w].pc \in {"execute", "verify"}
    BY <1>4, RunShape
  <2>4. tx[w].pos \in DOMAIN tx[w].tools
    BY <1>1, <2>3, InHand DEF Txs
  <2> QED
    BY <2>1, <2>2, <2>4 DEF SameWork, Marks, Leaves, Looping
<1>5. CASE VerifyRaises(w)
  <2>1. PICK r \in Txs :
             /\ Move(w, r) /\ r.pc = "commit" /\ r.status = "FAILED" /\ r.job = tx[w].job
             /\ r.task = tx[w].task /\ r.planned = tx[w].planned /\ r.tools = tx[w].tools
             /\ r.steps = tx[w].steps /\ r.asked = tx[w].asked
    BY <1>5, RaiseHand
  <2>2. tx[w].pc = "verify" /\ tx[w].tools[tx[w].pos] = "code_exec"
    BY <1>5 DEF VerifyRaises, Tool
  <2> QED
    BY <2>1, <2>2 DEF Leaves, Looping
<1>6. CASE ReplayStep(w) \/ CompleteTask(w)
  <2>1. tx[w].pc = "step"
    BY <1>6 DEF ReplayStep, CompleteTask, AtStep
  <2>2. PICK r : /\ Move(w, r)
                 /\ r = NextStep(tx[w]) \/ r = [tx[w] EXCEPT !.pc = "commit", !.status = "COMPLETED"]
    BY <1>6 DEF ReplayStep, CompleteTask
  <2>3. /\ r.task = tx[w].task /\ r.tools = tx[w].tools /\ r.steps = tx[w].steps
        /\ r.pc \in Looping
    BY <1>1, <2>2, NextStepType DEF Txs, Looping
  <2> QED
    BY <2>1, <2>2, <2>3 DEF Leaves
<1> QED
  BY <1>2, <1>3, <1>4, <1>5, <1>6 DEF DoStep

\* The tool of the step in hand has run to its end once more; nothing else is
\* counted, and no count goes back.
LEMMA EffectCounts ==
    ASSUME IInv, NEW w \in Workers, StepSucceeds(w)
    PROVE  effects'[tx[w].task][tx[w].pos] > 0
<1>1. /\ tx[w].task \in Tasks /\ tx[w].pos \in StepIds
      /\ effects \in [Tasks -> [StepIds -> 0..MaxEffects]]
  BY InHand DEF StepSucceeds, IInv, TypeOK, TxInv, ClaimInv, Busy, Looping
<1>2. PICK k : k = effects[tx[w].task][tx[w].pos]
  OBVIOUS
<1>3. k \in 0..MaxEffects
  BY <1>1, <1>2
<1>4. effects'[tx[w].task][tx[w].pos] = IF k < MaxEffects THEN k + 1 ELSE k
  BY <1>1, <1>2 DEF StepSucceeds
<1>5. (IF k < MaxEffects THEN k + 1 ELSE k) > 0
  BY <1>3, BoundsAssumption
<1> QED
  BY <1>4, <1>5

LEMMA EffectsStay ==
    ASSUME IInv, Next, NEW t \in Tasks, NEW i \in StepIds, effects[t][i] > 0
    PROVE  effects'[t][i] > 0
<1>1. CASE UNCHANGED effects
  BY <1>1
<1>2. ASSUME NEW w \in Workers, StepSucceeds(w)
      PROVE  effects'[t][i] > 0
  <2>1. /\ effects \in [Tasks -> [StepIds -> 0..MaxEffects]]
        /\ tx[w].task \in Tasks /\ tx[w].pos \in StepIds
    BY <1>2, InHand DEF StepSucceeds, IInv, TypeOK, TxInv, ClaimInv, Busy, Looping
  <2>2. CASE t = tx[w].task /\ i = tx[w].pos
    BY <1>2, <2>2, EffectCounts
  <2>3. CASE ~(t = tx[w].task /\ i = tx[w].pos)
    BY <1>2, <2>1, <2>3 DEF StepSucceeds
  <2> QED
    BY <2>2, <2>3
<1>3. (\E w \in Workers : StepSucceeds(w)) \/ UNCHANGED effects
  BY DEF Next, Work, PlanTask, DoStep, Answer, CreateTask, ClaimJob, LoadTask, LockTask,
         DraftPlan, RejectPlan, MalformedPlan, ResumePlan, ReplayStep, AwaitDecision,
         AskApproval, AmbiguousApproval, DenyStep, StartStep, StepRetries,
         StepFails, VerifyStep, VerifyRaises, CompleteTask, CommitWork, MarkJobFailed,
         HandlerFails, Crash, DatabaseError, CheckPending, FlushDecision, ReadTask,
         RequeueTask, CommitDecision, AbortRequest, Drop, Respond
<1> QED
  BY <1>1, <1>2, <1>3

\* What another worker has in hand keeps it.
LEMMA RanOther ==
    ASSUME IInv, RanInv, Next, NEW v \in Workers, tx'[v] = tx[v]
    PROVE  RanIn(tx[v])'
<1> SUFFICES ASSUME NEW i \in StepIds, tx[v].steps[i] = "COMMITTED"
             PROVE  Ran(tx[v], i)'
  BY DEF RanIn
<1>1. Ran(tx[v], i)
  BY DEF RanInv, RanIn
<1>2. tx[v].task \in Tasks
  BY <1>1 DEF IInv, TxInv, ClaimInv, Ran, Busy
<1> QED
  BY <1>1, <1>2, EffectsStay DEF Ran

\* The rows keep it while nobody commits.
LEMMA RanRows ==
    ASSUME IInv, RanInv, Next, UNCHANGED <<tools, stepStatus>>, AtRest'
    PROVE  OnlyRestingStatuses'
<1> SUFFICES ASSUME NEW t \in Tasks, NEW i \in StepIds, stepStatus[t][i] = "COMMITTED"
             PROVE  i \in DOMAIN tools[t] /\ tools[t][i] = "code_exec" /\ effects'[t][i] > 0
  BY DEF OnlyRestingStatuses, AtRest
<1>1. i \in DOMAIN tools[t] /\ tools[t][i] = "code_exec" /\ effects[t][i] > 0
  BY DEF RanInv, OnlyRestingStatuses
<1> QED
  BY <1>1, EffectsStay

LEMMA RanMove ==
    ASSUME IInv, IInv', RanInv, Next, NEW w \in Workers, NEW r, Move(w, r), RanIn(r)'
    PROVE  RanInv'
<1>1. UNCHANGED <<tools, stepStatus>> /\ \A v \in Workers : tx'[v] = IF v = w THEN r ELSE tx[v]
  BY DEF Move, rows, IInv, TypeOK
<1>2. OnlyRestingStatuses'
  BY <1>1, RanRows DEF IInv
<1>3. ASSUME NEW v \in Workers
      PROVE  RanIn(tx[v])'
  <2>1. CASE v = w
    BY <1>1, <2>1 DEF RanIn, Ran
  <2>2. CASE v # w
    BY <1>1, <2>2, RanOther
  <2> QED
    BY <2>1, <2>2
<1> QED
  BY <1>2, <1>3 DEF RanInv

\* A new plan, or none, is put in hand with its steps still to do.
LEMMA FreshHand ==
    ASSUME IInv, NEW w \in Workers, DraftPlan(w) \/ RejectPlan(w) \/ MalformedPlan(w)
    PROVE  \E r : Move(w, r) /\ (r.steps = tx[w].steps \/ \E p, k : r.steps = NewSteps(p, k))
<1>1. tx[w] \in Txs
  BY DEF IInv, TypeOK
<1>2. CASE DraftPlan(w)
  <2>1. PICK p \in Plans :
          Move(w, [tx[w] EXCEPT !.pc = "step", !.status = "RUNNING", !.planned = TRUE,
                                !.tools = p, !.steps = NewSteps(p, Len(p))])
    BY <1>2 DEF DraftPlan
  <2>2. PICK r : r = [tx[w] EXCEPT !.pc = "step", !.status = "RUNNING", !.planned = TRUE,
                                   !.tools = p, !.steps = NewSteps(p, Len(p))]
    OBVIOUS
  <2>3. r.steps = NewSteps(p, Len(p))
    BY <1>1, <2>2 DEF Txs
  <2> QED
    BY <2>1, <2>2, <2>3
<1>3. CASE RejectPlan(w)
  <2>1. PICK r : /\ r = [tx[w] EXCEPT !.pc = "commit", !.status = "FAILED", !.planned = TRUE]
                 /\ Move(w, r)
    BY <1>3 DEF RejectPlan
  <2>2. r.steps = tx[w].steps
    BY <1>1, <2>1 DEF Txs
  <2> QED
    BY <2>1, <2>2
<1>4. CASE MalformedPlan(w)
  <2>1. PICK p \in Plans : \E k \in 0..(Len(p) - 1) :
          Move(w, [tx[w] EXCEPT !.pc = "commit", !.status = "FAILED", !.planned = TRUE,
                                !.tools = SubSeq(p, 1, k), !.steps = NewSteps(p, k)])
    BY <1>4 DEF MalformedPlan
  <2>2. PICK k \in 0..(Len(p) - 1) :
          Move(w, [tx[w] EXCEPT !.pc = "commit", !.status = "FAILED", !.planned = TRUE,
                                !.tools = SubSeq(p, 1, k), !.steps = NewSteps(p, k)])
    BY <2>1
  <2>3. PICK r : r = [tx[w] EXCEPT !.pc = "commit", !.status = "FAILED", !.planned = TRUE,
                                   !.tools = SubSeq(p, 1, k), !.steps = NewSteps(p, k)]
    OBVIOUS
  <2>4. r.steps = NewSteps(p, k)
    BY <1>1, <2>3 DEF Txs
  <2> QED
    BY <2>2, <2>3, <2>4
<1> QED
  BY <1>2, <1>3, <1>4

\* Before the loop no step is in hand; a plan that is resumed was at rest.
LEMMA RanPlan ==
    ASSUME IInv, IInv', RanInv, Next, NEW w \in Workers,
           ClaimJob(w) \/ LoadTask(w) \/ LockTask(w) \/ PlanTask(w)
    PROVE  RanInv'
<1>1. tx[w] \in Txs /\ RanIn(tx[w])
  BY DEF IInv, TypeOK, RanInv
<1>2. CASE ClaimJob(w)
  <2>1. PICK j : Move(w, [NoTx EXCEPT !.pc = "claimed", !.job = j, !.task = jobs[j].task])
    BY <1>2 DEF ClaimJob
  <2>2. PICK r : r = [NoTx EXCEPT !.pc = "claimed", !.job = j, !.task = jobs[j].task]
    OBVIOUS
  <2>3. r.steps = NoSteps
    BY <2>2 DEF NoTx
  <2>4. RanIn(r)'
    BY <2>3 DEF RanIn, NoSteps
  <2> QED
    BY <2>1, <2>2, <2>4, RanMove
<1>3. ASSUME tx[w].pc \notin Looping
      PROVE  \A i \in StepIds : tx[w].steps[i] # "COMMITTED"
  BY <1>1, <1>3 DEF RanIn, Ran
<1>4. CASE LoadTask(w) \/ LockTask(w)
  <2>1. PICK r : /\ Move(w, r)
                 /\ \/ r = [tx[w] EXCEPT !.pc = "loaded", !.planned = planned[tx[w].task]]
                    \/ r = [tx[w] EXCEPT !.pc = "plan", !.status = "PLANNING"]
    BY <1>4 DEF LoadTask, LockTask
  <2>2. r.steps = tx[w].steps /\ tx[w].pc \notin Looping
    BY <1>1, <1>4, <2>1 DEF LoadTask, LockTask, Looping, Txs
  <2>3. RanIn(r)'
    BY <1>3, <2>2 DEF RanIn
  <2> QED
    BY <2>1, <2>3, RanMove
<1>5. CASE DraftPlan(w) \/ RejectPlan(w) \/ MalformedPlan(w)
  <2>1. tx[w].pc = "plan"
    BY <1>5 DEF DraftPlan, RejectPlan, MalformedPlan
  <2>2. PICK r : Move(w, r) /\ (r.steps = tx[w].steps \/ \E p, k : r.steps = NewSteps(p, k))
    BY <1>5, FreshHand
  <2>3. \A i \in StepIds : r.steps[i] # "COMMITTED"
    BY <1>3, <2>1, <2>2 DEF NewSteps, Looping
  <2>4. RanIn(r)'
    BY <2>3 DEF RanIn
  <2> QED
    BY <2>2, <2>4, RanMove
<1>6. CASE ResumePlan(w)
  <2>1. PICK r : /\ Move(w, r)
                 /\ r = [tx[w] EXCEPT !.pc = "step", !.status = "RUNNING",
                                      !.tools = tools[tx[w].task], !.steps = stepStatus[tx[w].task]]
    BY <1>6 DEF ResumePlan
  <2>2. /\ r.pc = "step" /\ r.tools = tools[tx[w].task] /\ r.steps = stepStatus[tx[w].task]
        /\ r.task = tx[w].task
    BY <1>1, <2>1 DEF Txs
  <2>3. tx[w].task \in Tasks
    BY <1>6 DEF ResumePlan, IInv, TxInv, ClaimInv, Busy
  <2>4. ASSUME NEW i \in StepIds, r.steps[i] = "COMMITTED"
        PROVE  Ran(r, i)'
    <3>1. i \in DOMAIN r.tools /\ r.tools[i] = "code_exec" /\ effects[r.task][i] > 0
      BY <2>2, <2>3, <2>4 DEF RanInv, OnlyRestingStatuses
    <3>2. effects'[r.task][i] > 0
      BY <2>2, <2>3, <3>1, EffectsStay
    <3> QED
      BY <2>2, <3>1, <3>2 DEF Ran, Looping
  <2> QED
    BY <2>1, <2>4, RanMove DEF RanIn
<1> QED
  BY <1>2, <1>4, <1>5, <1>6 DEF PlanTask

LEMMA RanLoop ==
    ASSUME IInv, IInv', RanInv, Next, NEW w \in Workers, DoStep(w) \/ CompleteTask(w)
    PROVE  RanInv'
<1>1. PICK r : /\ Move(w, r) /\ r.task = tx[w].task /\ r.tools = tx[w].tools
               /\ tx[w].pc \in {"step", "execute", "verify"} /\ r.pc \in Looping
               /\ Leaves(w, r)
  BY LoopLeaves
<1>2. tx[w].task \in Tasks /\ RanIn(tx[w])
  BY <1>1 DEF IInv, TxInv, ClaimInv, Busy, Looping, RanInv
<1>3. ASSUME NEW i \in StepIds, r.steps[i] = "COMMITTED"
      PROVE  Ran(r, i)'
  <2>1. CASE tx[w].steps[i] = "COMMITTED" /\ ~(tx[w].pc = "verify" /\ i = tx[w].pos)
    <3>1. i \in DOMAIN tx[w].tools /\ effects[tx[w].task][i] > 0 /\ tx[w].tools[i] = "code_exec"
      BY <1>2, <2>1 DEF RanIn, Ran
    <3>2. effects'[tx[w].task][i] > 0
      BY <1>2, <3>1, EffectsStay
    <3> QED
      BY <1>1, <3>1, <3>2 DEF Ran
  <2>2. CASE /\ i = tx[w].pos /\ i \in DOMAIN tx[w].tools /\ StepSucceeds(w)
             /\ r.pc = "verify" /\ i = r.pos
    <3>1. effects'[tx[w].task][i] > 0
      BY <2>2, EffectCounts
    <3> QED
      BY <1>1, <2>2, <3>1 DEF Ran
  <2>3. CASE /\ i = tx[w].pos /\ tx[w].pc = "verify" /\ tx[w].steps[i] = "COMMITTED"
             /\ tx[w].tools[i] = "code_exec"
    <3>1. i \in DOMAIN tx[w].tools /\ effects[tx[w].task][i] > 0
      BY <1>2, <2>3 DEF RanIn, Ran
    <3>2. effects'[tx[w].task][i] > 0
      BY <1>2, <3>1, EffectsStay
    <3> QED
      BY <1>1, <2>3, <3>1, <3>2 DEF Ran
  <2> QED
    BY <1>1, <1>3, <2>1, <2>2, <2>3 DEF Leaves
<1> QED
  BY <1>1, <1>3, RanMove DEF RanIn

\* The commit publishes what the transaction knows of its steps.
LEMMA RanCommit ==
    ASSUME IInv, IInv', RanInv, Next, NEW w \in Workers, CommitWork(w)
    PROVE  RanInv'
<1>1. PICK t : t = tx[w].task
  OBVIOUS
<1>2. /\ tx[w].pc = "commit" /\ t \in Tasks
      /\ \A v \in Workers : tx'[v] = IF v = w THEN NoTx ELSE tx[v]
  BY <1>1, CommitEffect
<1>3. /\ \A u \in Tasks : tools'[u] = IF u = t THEN tx[w].tools ELSE tools[u]
      /\ \A u \in Tasks : stepStatus'[u] = IF u = t THEN tx[w].steps ELSE stepStatus[u]
      /\ UNCHANGED effects
  BY <1>1 DEF CommitWork, IInv, TypeOK
<1>4. ASSUME NEW u \in Tasks, NEW i \in StepIds, stepStatus'[u][i] = "COMMITTED"
      PROVE  i \in DOMAIN tools'[u] /\ tools'[u][i] = "code_exec" /\ effects'[u][i] > 0
  <2>1. CASE u = t
    <3>1. Ran(tx[w], i)
      BY <1>3, <1>4, <2>1 DEF RanInv, RanIn
    <3> QED
      BY <1>1, <1>2, <1>3, <2>1, <3>1 DEF Ran
  <2>2. CASE u # t
    BY <1>3, <1>4, <2>2 DEF RanInv, OnlyRestingStatuses
  <2> QED
    BY <2>1, <2>2
<1>5. OnlyRestingStatuses'
  BY <1>4 DEF OnlyRestingStatuses, IInv, AtRest
<1>6. ASSUME NEW v \in Workers
      PROVE  RanIn(tx[v])'
  <2>1. CASE v = w
    BY <1>2, <2>1 DEF RanIn, NoTx, NoSteps
  <2>2. CASE v # w
    BY <1>2, <2>2, RanOther
  <2> QED
    BY <2>1, <2>2
<1> QED
  BY <1>5, <1>6 DEF RanInv

\* A transaction that is dropped has no step in hand any more.
LEMMA RanFault ==
    ASSUME IInv, IInv', RanInv, Next, NEW w \in Workers,
           MarkJobFailed(w) \/ HandlerFails(w) \/ Crash(w) \/ DatabaseError(w)
    PROVE  RanInv'
<1>1. /\ UNCHANGED <<tools, stepStatus>>
      /\ \E r \in {NoTx, [NoTx EXCEPT !.pc = "raised", !.job = tx[w].job]} :
           tx' = [tx EXCEPT ![w] = r]
  BY DEF MarkJobFailed, HandlerFails, Crash, DatabaseError, Drop, rows
<1>2. PICK r \in {NoTx, [NoTx EXCEPT !.pc = "raised", !.job = tx[w].job]} :
        tx' = [tx EXCEPT ![w] = r]
  BY <1>1
<1>3. \A v \in Workers : tx'[v] = IF v = w THEN r ELSE tx[v]
  BY <1>2 DEF IInv, TypeOK
<1>4. r.steps = NoSteps
  <2>1. CASE r = NoTx
    BY <2>1 DEF NoTx
  <2>2. CASE r = [NoTx EXCEPT !.pc = "raised", !.job = tx[w].job]
    BY <2>2 DEF NoTx
  <2> QED
    BY <2>1, <2>2
<1>5. OnlyRestingStatuses'
  BY <1>1, RanRows DEF IInv
<1>6. ASSUME NEW v \in Workers
      PROVE  RanIn(tx[v])'
  <2>1. CASE v = w
    BY <1>3, <1>4, <2>1 DEF RanIn, NoSteps
  <2>2. CASE v # w
    BY <1>3, <2>2, RanOther
  <2> QED
    BY <2>1, <2>2
<1> QED
  BY <1>5, <1>6 DEF RanInv

LEMMA InitRan == Init => RanInv
BY DEF Init, RanInv, RanIn, OnlyRestingStatuses, NoTx, NoSteps

LEMMA NextRan == IInv /\ RanInv /\ [Next]_vars => RanInv'
<1> SUFFICES ASSUME IInv, RanInv, [Next]_vars
             PROVE  RanInv'
  OBVIOUS
<1>1. IInv'
  BY NextIInv
<1>2. CASE UNCHANGED vars
  BY <1>2 DEF vars, rows, RanInv, RanIn, Ran, OnlyRestingStatuses
<1>3. ASSUME Next, NEW w \in Workers, Work(w) \/ Crash(w) \/ DatabaseError(w)
      PROVE  RanInv'
  BY <1>1, <1>3, RanPlan, RanLoop, RanCommit, RanFault DEF Work
<1>4. ASSUME Next, UNCHANGED <<tools, stepStatus, tx>>
      PROVE  RanInv'
  BY <1>1, <1>4, RanRows, RanOther DEF RanInv, IInv
<1>5. ASSUME Next
      PROVE  \/ \E w \in Workers : Work(w) \/ Crash(w) \/ DatabaseError(w)
             \/ UNCHANGED <<tools, stepStatus, tx>>
  BY <1>5 DEF Next, Answer, CreateTask, CheckPending, FlushDecision, ReadTask, RequeueTask,
              CommitDecision, AbortRequest, Respond, rows
<1> QED
  BY <1>2, <1>3, <1>4, <1>5

\* What the worker commits is at rest: nobody else sees a task PLANNING or RUNNING
\* nor a step EXECUTING (job_worker.py:119), and a step left COMMITTED is a code_exec
\* whose program ran to its end (agent_loop.py:292-298).
THEOREM RestingStatusesOnly == Spec => []OnlyRestingStatuses
<1>1. RanInv => OnlyRestingStatuses
  BY DEF RanInv
<1>2. IInv /\ RanInv /\ [Next]_vars => RanInv'
  BY NextRan
<1> QED
  BY <1>1, <1>2, InitRan, InvariantHolds, PTL DEF Spec

----------------------------------------------------------------------------
(***************************************************************************)
(* Approvals of a task decided one request at a time.                      *)
(*                                                                         *)
(* Two requests on one task that overlap may both decide an approval, and  *)
(* each may queue a job (WorkerTwoAdmins runs them without what follows).  *)
(* As long as that does not happen, whatever the requests on other tasks   *)
(* do, a pending job is what makes a task QUEUED, and nobody else has it.  *)
(* With one handler, as in WorkerOneAdmin, it cannot happen.               *)
(***************************************************************************)

OnePerTask ==
    \A g, h \in Handlers :
        req[g].pc # "idle" /\ req[h].pc # "idle" /\ req[g].task = req[h].task => g = h

LiveInv ==
    /\ OneLiveJob
    /\ \A j \in DOMAIN jobs : jobs[j].status = "pending" => taskStatus[jobs[j].task] = "QUEUED"
    /\ \A w \in Workers : tx[w].pc \in Busy => jobs[tx[w].job].status = "pending"
    /\ \A h \in Handlers : req[h].pc \in {"requeue", "requeued"} => taskStatus[req[h].task] = "PAUSED"
    /\ \A h \in Handlers : req[h].pc # "idle" =>
         approvals[req[h].task][req[h].step][req[h].row] = "PENDING"

LInv == PInv /\ LiveInv

\* A worker in the middle of its transaction does not disturb LiveInv.
LEMMA LiveMove ==
    ASSUME LInv, IInv', NEW w \in Workers, NEW r, Move(w, r),
           r.pc \in Busy,
           \/ tx[w].pc \in Busy /\ r.job = tx[w].job
           \/ jobs[r.job].status = "pending"
    PROVE  LiveInv'
<1>1. UNCHANGED <<rows, req>> /\ \A v \in Workers : tx'[v] = IF v = w THEN r ELSE tx[v]
  BY DEF Move, LInv, PInv, IInv, TypeOK
<1> QED
  BY <1>1 DEF LInv, LiveInv, OneLiveJob, rows

\* A worker at work goes on with the job it has.
LEMMA JobKept ==
    ASSUME IInv, IInv', NEW w \in Workers,
           LoadTask(w) \/ LockTask(w) \/ PlanTask(w) \/ DoStep(w) \/ CompleteTask(w)
    PROVE  /\ Move(w, tx'[w]) /\ tx[w].pc \in Busy
           /\ tx'[w].pc \in Busy /\ tx'[w].job = tx[w].job
<1>r. PICK r : r = tx'[w]
  OBVIOUS
<1>1. tx \in [Workers -> Txs] /\ tx[w] \in Txs
  BY DEF IInv, TypeOK
<1>2. Move(w, r)
  BY <1>1, <1>r DEF LoadTask, LockTask, CompleteTask, PlanTask, DraftPlan, RejectPlan, MalformedPlan,
         ResumePlan, DoStep, ReplayStep, AwaitDecision, AskApproval, AmbiguousApproval,
         DenyStep, StartStep, StepSucceeds, StepRetries, StepFails, VerifyStep, VerifyRaises, Move
<1>3. tx[w].pc \in Busy
  BY DEF LoadTask, LockTask, CompleteTask, PlanTask, DraftPlan, RejectPlan, MalformedPlan,
         ResumePlan, DoStep, ReplayStep, AwaitDecision, AskApproval, AmbiguousApproval,
         DenyStep, StartStep, StepSucceeds, StepRetries, StepFails, VerifyStep, VerifyRaises,
         TakeUp, AtStep, Busy, Looping
<1> SUFFICES r.pc \in Busy /\ r.job = tx[w].job
  BY <1>r, <1>2, <1>3
<1>4. CASE LoadTask(w) \/ LockTask(w) \/ CompleteTask(w) \/ PlanTask(w)
  <2>1. CASE LoadTask(w)
    <3>1. r = [tx[w] EXCEPT !.pc = "loaded", !.planned = planned[tx[w].task]]
      BY <1>1, <1>r, <2>1 DEF LoadTask, Move
    <3> QED
      BY <1>1, <3>1 DEF Busy, Looping, Txs
  <2>2. CASE LockTask(w)
    <3>1. r = [tx[w] EXCEPT !.pc = "plan", !.status = "PLANNING"]
      BY <1>1, <1>r, <2>2 DEF LockTask, Move
    <3> QED
      BY <1>1, <3>1 DEF Busy, Looping, Txs
  <2>3. CASE CompleteTask(w)
    <3>1. r = [tx[w] EXCEPT !.pc = "commit", !.status = "COMPLETED"]
      BY <1>1, <1>r, <2>3 DEF CompleteTask, Move
    <3> QED
      BY <1>1, <3>1 DEF Busy, Looping, Txs
  <2>4. CASE DraftPlan(w)
    <3>1. PICK p : r = 
             [tx[w] EXCEPT !.pc = "step", !.status = "RUNNING", !.planned = TRUE,
                           !.tools = p, !.steps = NewSteps(p, Len(p))]
      BY <1>1, <1>r, <2>4 DEF DraftPlan, Move
    <3> QED
      BY <1>1, <3>1 DEF Busy, Looping, Txs
  <2>5. CASE RejectPlan(w)
    <3>1. r = [tx[w] EXCEPT !.pc = "commit", !.status = "FAILED", !.planned = TRUE]
      BY <1>1, <1>r, <2>5 DEF RejectPlan, Move
    <3> QED
      BY <1>1, <3>1 DEF Busy, Looping, Txs
  <2>6. CASE MalformedPlan(w)
    <3>a. PICK p \in Plans : \E k \in 0..(Len(p) - 1) :
            Move(w, [tx[w] EXCEPT !.pc = "commit", !.status = "FAILED", !.planned = TRUE,
                                  !.tools = SubSeq(p, 1, k), !.steps = NewSteps(p, k)])
      BY <2>6 DEF MalformedPlan
    <3>b. PICK k \in 0..(Len(p) - 1) :
            Move(w, [tx[w] EXCEPT !.pc = "commit", !.status = "FAILED", !.planned = TRUE,
                                  !.tools = SubSeq(p, 1, k), !.steps = NewSteps(p, k)])
      BY <3>a
    <3>1. r = [tx[w] EXCEPT !.pc = "commit", !.status = "FAILED", !.planned = TRUE,
                            !.tools = SubSeq(p, 1, k), !.steps = NewSteps(p, k)]
      BY <1>1, <1>r, <3>b DEF Move
    <3> QED
      BY <1>1, <3>1 DEF Busy, Looping, Txs
  <2>7. CASE ResumePlan(w)
    <3>1. r = 
             [tx[w] EXCEPT !.pc = "step", !.status = "RUNNING",
                           !.tools = tools[tx[w].task], !.steps = stepStatus[tx[w].task]]
      BY <1>1, <1>r, <2>7 DEF ResumePlan, Move
    <3> QED
      BY <1>1, <3>1 DEF Busy, Looping, Txs
  <2> QED
    BY <1>4, <2>1, <2>2, <2>3, <2>4, <2>5, <2>6, <2>7 DEF PlanTask
<1>5. CASE DoStep(w) /\ ~ReplayStep(w)
  <2>1. \A q : Move(w, q) => q = r
    BY <1>1, <1>r DEF Move
  <2>2. CASE AwaitDecision(w) \/ AskApproval(w) \/ AmbiguousApproval(w)
    BY <2>1, <2>2, PauseShape DEF SameWork, Busy, Looping
  <2>3. CASE DenyStep(w) \/ StepFails(w) \/ VerifyStep(w)
    BY <2>1, <2>3, SettleShape DEF SameWork, Busy, Looping
  <2>4. CASE StartStep(w) \/ StepSucceeds(w) \/ StepRetries(w)
    BY <2>1, <2>4, RunShape DEF SameWork, Busy, Looping
  <2>5. CASE VerifyRaises(w)
    BY <2>1, <2>5, RaiseHand DEF Busy, Looping
  <2> QED
    BY <1>5, <2>2, <2>3, <2>4, <2>5 DEF DoStep
<1>6. CASE ReplayStep(w)
  <2>1. r = NextStep(tx[w])
    BY <1>1, <1>r, <1>6 DEF ReplayStep, Move
  <2> QED
    BY <1>1, <2>1, NextStepType DEF Busy, Looping
<1> QED
  BY <1>4, <1>5, <1>6

\* A worker claims a job that is pending, and keeps it.
LEMMA LiveWork ==
    ASSUME LInv, IInv', NEW w \in Workers,
           ClaimJob(w) \/ LoadTask(w) \/ LockTask(w) \/ PlanTask(w) \/ DoStep(w) \/ CompleteTask(w)
    PROVE  LiveInv'
<1>1. CASE ClaimJob(w)
  <2>1. PICK j \in DOMAIN jobs :
          /\ Claimable(j)
          /\ Move(w, [NoTx EXCEPT !.pc = "claimed", !.job = j, !.task = jobs[j].task])
    BY <1>1 DEF ClaimJob
  <2> DEFINE r == [NoTx EXCEPT !.pc = "claimed", !.job = j, !.task = jobs[j].task]
  <2>2. r.pc = "claimed" /\ r.job = j
    BY DEF NoTx
  <2>3. Move(w, r)
    BY <2>1
  <2> HIDE DEF r
  <2> QED
    BY <2>1, <2>2, <2>3, LiveMove DEF Claimable, Busy
<1>2. CASE LoadTask(w) \/ LockTask(w) \/ PlanTask(w) \/ DoStep(w) \/ CompleteTask(w)
  BY <1>2, JobKept, LiveMove DEF LInv, PInv
<1> QED
  BY <1>1, <1>2

\* The commit of a worker settles the job that made the task QUEUED.
LEMMA LiveCommit ==
    ASSUME LInv, IInv', NEW w \in Workers, CommitWork(w)
    PROVE  /\ LiveInv'
           /\ taskStatus[tx[w].task] = "QUEUED"
<1> DEFINE t == tx[w].task
           j == tx[w].job
<1>1. /\ tx[w] \in Txs /\ TxInv(tx[w]) /\ tx[w].pc = "commit" /\ t \in Tasks
      /\ tx[w].status \in {"PAUSED", "COMPLETED", "FAILED"}
      /\ DOMAIN jobs' = DOMAIN jobs
      /\ \A k \in DOMAIN jobs : jobs'[k].task = jobs[k].task
      /\ \A v \in Workers : tx'[v] = IF v = w THEN NoTx ELSE tx[v]
      /\ UNCHANGED req
      /\ \A n \in ApprovalIds, i \in StepIds :
           WithAsked(w)[i][n] \in {"PENDING", approvals[t][i][n]}
  BY CommitEffect DEF LInv, PInv
<1>2. \A u \in Tasks :
          /\ taskStatus'[u] = IF u = t THEN tx[w].status ELSE taskStatus[u]
          /\ approvals'[u] = IF u = t THEN WithAsked(w) ELSE approvals[u]
  BY <1>1 DEF CommitWork, LInv, PInv, IInv, TypeOK
<1>3. j \in DOMAIN jobs /\ jobs[j].task = t /\ jobs[j].status = "pending"
  BY <1>1 DEF TxInv, ClaimInv, LInv, LiveInv, Busy, Looping
<1>4. /\ \A k \in DOMAIN jobs : k # j => jobs'[k] = jobs[k]
      /\ jobs'[j].status # "pending"
  <2>1. jobs[j] \in JobRows
    BY <1>3, JobsOfTasks DEF LInv, PInv, IInv
  <2>2. JobResult(tx[w].status) # "pending"
    BY <1>1 DEF JobResult
  <2> QED
    BY <1>3, <2>1, <2>2 DEF CommitWork, JobRows
<1>5. taskStatus[t] = "QUEUED"
  BY <1>3 DEF LInv, LiveInv
<1>6. \A k \in DOMAIN jobs : k # j /\ jobs[k].status = "pending" => jobs[k].task # t
  BY <1>3 DEF LInv, LiveInv, OneLiveJob
<1>7. \A k \in DOMAIN jobs : jobs[k].task \in Tasks
  BY JobsOfTasks DEF LInv, PInv, IInv
<1>8. \A v \in Workers : tx'[v].pc \in Busy => /\ v # w /\ tx[v].pc \in Busy /\ tx'[v] = tx[v]
                                               /\ tx[v].job # j /\ tx[v].job \in DOMAIN jobs
  BY <1>1 DEF NoTx, Busy, Looping, LInv, PInv, IInv, JobInv, TxInv, ClaimInv
<1> HIDE DEF t, j
<1>9. OneLiveJob'
  BY <1>1, <1>4 DEF LInv, LiveInv, OneLiveJob
<1>10. \A k \in DOMAIN jobs' : jobs'[k].status = "pending" => taskStatus'[jobs'[k].task] = "QUEUED"
  BY <1>1, <1>2, <1>4, <1>6, <1>7 DEF LInv, LiveInv
<1>11. \A v \in Workers : tx'[v].pc \in Busy => jobs'[tx'[v].job].status = "pending"
  BY <1>4, <1>8 DEF LInv, LiveInv
<1>12. \A h \in Handlers : req'[h].pc \in {"requeue", "requeued"} => taskStatus'[req'[h].task] = "PAUSED"
  BY <1>1, <1>2, <1>5 DEF LInv, LiveInv, PInv, IInv, ReqInv
<1>13. \A h \in Handlers : req'[h].pc # "idle" =>
         approvals'[req'[h].task][req'[h].step][req'[h].row] = "PENDING"
  <2> SUFFICES ASSUME NEW h \in Handlers, req[h].pc # "idle"
               PROVE  approvals'[req[h].task][req[h].step][req[h].row] = "PENDING"
    BY <1>1
  <2>1. /\ approvals[req[h].task][req[h].step][req[h].row] = "PENDING"
        /\ req[h].task \in Tasks /\ req[h].step \in StepIds /\ req[h].row \in ApprovalIds
    BY DEF LInv, LiveInv, PInv, IInv, ReqInv
  <2>2. WithAsked(w)[req[h].step][req[h].row] \in {"PENDING", approvals[t][req[h].step][req[h].row]}
    BY <1>1, <2>1
  <2> QED
    BY <1>2, <2>1, <2>2
<1> QED
  BY <1>5, <1>9, <1>10, <1>11, <1>12, <1>13 DEF LiveInv, t

\* Whoever marks a job failed is the only one that had it.
LEMMA LiveFault ==
    ASSUME LInv, IInv', NEW w \in Workers,
           Crash(w) \/ DatabaseError(w) \/ MarkJobFailed(w) \/ HandlerFails(w)
    PROVE  LiveInv'
<1>1. PICK r \in {NoTx, [NoTx EXCEPT !.pc = "raised", !.job = tx[w].job]} :
        tx' = [tx EXCEPT ![w] = r]
  BY DEF Crash, DatabaseError, MarkJobFailed, HandlerFails, Drop
<1>2. /\ UNCHANGED <<taskStatus, approvals, req>>
      /\ \A v \in Workers : tx'[v] = IF v = w THEN r ELSE tx[v]
  BY <1>1 DEF Crash, DatabaseError, MarkJobFailed, HandlerFails, Drop, rows,
              LInv, PInv, IInv, TypeOK
<1>3. r.pc \notin Busy
  <2>1. CASE r = NoTx
    BY <2>1 DEF NoTx, Busy, Looping
  <2>2. CASE r = [NoTx EXCEPT !.pc = "raised", !.job = tx[w].job]
    BY <2>2 DEF NoTx, Busy, Looping
  <2> QED
    BY <2>1, <2>2
<1>4. CASE jobs' = jobs
  BY <1>2, <1>3, <1>4 DEF LInv, LiveInv, OneLiveJob
<1>5. CASE MarkJobFailed(w)
  <2> DEFINE j == tx[w].job
  <2>1. j \in DOMAIN jobs /\ jobs \in Seq(JobRows)
    BY <1>5 DEF LInv, PInv, IInv, TypeOK, TxInv, ClaimInv, MarkJobFailed
  <2>2. /\ DOMAIN jobs' = DOMAIN jobs
        /\ \A k \in DOMAIN jobs : jobs'[k].task = jobs[k].task
    BY <1>5, <2>1, JobUpdate DEF MarkJobFailed, JobStatuses
  <2>3. /\ \A k \in DOMAIN jobs : k # j => jobs'[k] = jobs[k]
        /\ jobs'[j].status = "failed"
    <3>1. jobs[j] \in JobRows
      BY <2>1, JobsOfTasks DEF LInv, PInv, IInv
    <3> QED
      BY <1>5, <2>1, <3>1 DEF MarkJobFailed, JobRows
  <2>4. \A v \in Workers : tx[v].pc \in Busy => tx[v].job # j /\ tx[v].job \in DOMAIN jobs
    BY <1>5 DEF MarkJobFailed, JobRowFree, Busy, Looping, LInv, PInv, IInv, TxInv, ClaimInv
  <2> HIDE DEF j
  <2> QED
    BY <1>2, <1>3, <2>2, <2>3, <2>4 DEF LInv, LiveInv, OneLiveJob
<1> QED
  BY <1>4, <1>5 DEF Crash, DatabaseError, HandlerFails, Drop, rows

\* A request before its commit has changed no row.
LEMMA LiveRequest ==
    ASSUME LInv, IInv', NEW h \in Handlers,
           CheckPending(h) \/ FlushDecision(h) \/ ReadTask(h) \/ RequeueTask(h) \/ AbortRequest(h)
    PROVE  LiveInv'
<1>1. UNCHANGED <<rows, tx>>
  BY DEF CheckPending, FlushDecision, ReadTask, RequeueTask, AbortRequest, Respond
<1>2. req \in [Handlers -> Requests] /\ req' = [req EXCEPT ![h] = req'[h]]
  BY DEF CheckPending, FlushDecision, ReadTask, RequeueTask, AbortRequest, Respond,
         LInv, PInv, IInv, TypeOK
<1>3. \A g \in Handlers : g # h => req'[g] = req[g]
  BY <1>2
<1>4. /\ req'[h].pc # "idle" => approvals[req'[h].task][req'[h].step][req'[h].row] = "PENDING"
      /\ req'[h].pc \in {"requeue", "requeued"} => taskStatus[req'[h].task] = "PAUSED"
  <2>1. CASE CheckPending(h)
    BY <1>2, <2>1 DEF CheckPending, Respond, Decidable
  <2>2. CASE AbortRequest(h)
    BY <1>2, <2>2 DEF AbortRequest, NoReq
  <2>3. CASE FlushDecision(h) \/ ReadTask(h) \/ RequeueTask(h)
    <3>1. /\ req'[h].task = req[h].task /\ req'[h].step = req[h].step
          /\ req'[h].row = req[h].row /\ req[h].pc # "idle"
      BY <1>2, <2>3 DEF FlushDecision, ReadTask, RequeueTask, Respond, Requests
    <3>2. req'[h].pc \in {"requeue", "requeued"} =>
            req[h].pc = "requeue" \/ taskStatus[req[h].task] = "PAUSED"
      BY <1>2, <2>3 DEF FlushDecision, ReadTask, RequeueTask, Respond, Requests, Wakes
    <3> QED
      BY <3>1, <3>2 DEF LInv, LiveInv
  <2> QED
    BY <2>1, <2>2, <2>3
<1> QED
  BY <1>1, <1>3, <1>4 DEF rows, LInv, LiveInv, OneLiveJob

\* A new task had no job.
LEMMA LiveCreate ==
    ASSUME LInv, IInv', NEW t \in Tasks, CreateTask(t)
    PROVE  LiveInv'
<1>1. /\ taskStatus[t] = "NONE"
      /\ jobs' = jobs \o <<[task |-> t, status |-> "pending"]>>
      /\ UNCHANGED <<approvals, tx, req>>
      /\ \A u \in Tasks : taskStatus'[u] = IF u = t THEN "QUEUED" ELSE taskStatus[u]
  BY DEF CreateTask, NewJobs, LInv, PInv, IInv, TypeOK
<1>2. /\ \A k \in DOMAIN jobs : k \in DOMAIN jobs' /\ jobs'[k] = jobs[k]
      /\ DOMAIN jobs' = DOMAIN jobs \cup {Len(jobs) + 1}
      /\ jobs'[Len(jobs) + 1] = [task |-> t, status |-> "pending"]
  BY <1>1, JobAppend DEF LInv, PInv, IInv, TypeOK
<1>3. \A k \in DOMAIN jobs : jobs[k].task # t /\ jobs[k].task \in Tasks
  BY <1>1, JobsOfTasks DEF LInv, PInv, IInv, DataInv
<1>4. OneLiveJob'
  BY <1>2, <1>3 DEF LInv, LiveInv, OneLiveJob
<1>5. \A k \in DOMAIN jobs' : jobs'[k].status = "pending" => taskStatus'[jobs'[k].task] = "QUEUED"
  BY <1>1, <1>2, <1>3 DEF LInv, LiveInv
<1>6. \A w \in Workers : tx[w].pc \in Busy => jobs'[tx[w].job].status = "pending"
  BY <1>2 DEF LInv, LiveInv, PInv, IInv, TxInv, ClaimInv
<1>7. \A h \in Handlers : req[h].pc \in {"requeue", "requeued"} => taskStatus'[req[h].task] = "PAUSED"
  BY <1>1 DEF LInv, LiveInv, PInv, IInv, ReqInv
<1> QED
  BY <1>1, <1>4, <1>5, <1>6, <1>7 DEF LInv, LiveInv

\* The requests that are still open when one has ended are on other tasks.
LEMMA OthersElsewhere ==
    ASSUME IInv, OnePerTask, NEW h \in Handlers, CommitDecision(h)
    PROVE  \A g \in Handlers : req'[g].pc # "idle" => req'[g] = req[g] /\ req[g].task # req[h].task
<1>1. /\ \A g \in Handlers : req'[g] = IF g = h THEN NoReq ELSE req[g]
      /\ req[h].pc # "idle"
  BY DEF CommitDecision, IInv, TypeOK
<1> QED
  BY <1>1 DEF OnePerTask, NoReq

\* The request that wakes a task is the only one on it, and the task has no other job.
LEMMA LiveDecide ==
    ASSUME LInv, IInv', OnePerTask, NEW h \in Handlers, CommitDecision(h)
    PROVE  LiveInv'
<1> DEFINE t == req[h].task
<1>1. /\ t \in Tasks /\ UNCHANGED tx /\ req'[h] = NoReq
      /\ \/ /\ taskStatus[t] = "PAUSED"
            /\ \A u \in Tasks : taskStatus'[u] = IF u = t THEN "QUEUED" ELSE taskStatus[u]
            /\ jobs' = jobs \o <<[task |-> t, status |-> "pending"]>>
         \/ UNCHANGED <<taskStatus, jobs>>
  BY DEF CommitDecision, ResumeJobs, LInv, LiveInv, PInv, IInv, TypeOK, ReqInv
<1>2. \A g \in Handlers : req'[g].pc # "idle" => req'[g] = req[g] /\ req[g].task # t
  BY OthersElsewhere DEF LInv, PInv
<1>a. /\ \A u \in Tasks : u # t => approvals'[u] = approvals[u]
      /\ \A u \in Tasks : u # t => taskStatus'[u] = taskStatus[u]
  BY <1>1 DEF CommitDecision, LInv, PInv, IInv, TypeOK
<1> HIDE DEF t
<1>b. \A g \in Handlers :
         /\ req'[g].pc \in {"requeue", "requeued"} => taskStatus'[req'[g].task] = "PAUSED"
         /\ req'[g].pc # "idle" =>
              approvals'[req'[g].task][req'[g].step][req'[g].row] = "PENDING"
  <2> SUFFICES ASSUME NEW g \in Handlers, req'[g].pc # "idle"
               PROVE  /\ req'[g].pc \in {"requeue", "requeued"} => taskStatus'[req'[g].task] = "PAUSED"
                      /\ approvals'[req'[g].task][req'[g].step][req'[g].row] = "PENDING"
    OBVIOUS
  <2>1. req'[g] = req[g] /\ req[g].task # t /\ req[g].pc # "idle"
    BY <1>2
  <2>2. req[g].task \in Tasks
    BY <2>1 DEF LInv, PInv, IInv, ReqInv
  <2> QED
    BY <1>a, <2>1, <2>2 DEF LInv, LiveInv
<1>3. CASE UNCHANGED <<taskStatus, jobs>>
  BY <1>1, <1>b, <1>3 DEF LInv, LiveInv, OneLiveJob
<1>4. CASE /\ taskStatus[t] = "PAUSED"
           /\ \A u \in Tasks : taskStatus'[u] = IF u = t THEN "QUEUED" ELSE taskStatus[u]
           /\ jobs' = jobs \o <<[task |-> t, status |-> "pending"]>>
  <2>1. /\ \A k \in DOMAIN jobs : k \in DOMAIN jobs' /\ jobs'[k] = jobs[k]
        /\ DOMAIN jobs' = DOMAIN jobs \cup {Len(jobs) + 1}
        /\ jobs'[Len(jobs) + 1] = [task |-> t, status |-> "pending"]
    BY <1>1, <1>4, JobAppend DEF LInv, PInv, IInv, TypeOK
  <2>2. \A k \in DOMAIN jobs : /\ jobs[k].task \in Tasks
                               /\ jobs[k].status = "pending" => jobs[k].task # t
    BY <1>4, JobsOfTasks DEF LInv, LiveInv, PInv, IInv
  <2>3. OneLiveJob'
    BY <2>1, <2>2 DEF LInv, LiveInv, OneLiveJob
  <2>4. \A k \in DOMAIN jobs' : jobs'[k].status = "pending" => taskStatus'[jobs'[k].task] = "QUEUED"
    BY <1>1, <1>4, <2>1, <2>2 DEF LInv, LiveInv
  <2>5. \A w \in Workers : tx[w].pc \in Busy => jobs'[tx[w].job].status = "pending"
    BY <2>1 DEF LInv, LiveInv, PInv, IInv, TxInv, ClaimInv
  <2> QED
    BY <1>1, <1>b, <2>3, <2>4, <2>5 DEF LiveInv
<1> QED
  BY <1>1, <1>3, <1>4

LEMMA InitLInv == Init => LInv
<1> SUFFICES ASSUME Init
             PROVE  LInv
  OBVIOUS
<1>1. DOMAIN jobs = {}
  BY DEF Init
<1>2. LiveInv
  BY <1>1 DEF Init, LiveInv, OneLiveJob, NoTx, NoReq, Busy, Looping
<1> QED
  BY <1>2, InitPInv DEF LInv

LEMMA NextLInv == LInv /\ OnePerTask /\ [Next]_vars => LInv'
<1> SUFFICES ASSUME LInv, OnePerTask, [Next]_vars
             PROVE  LInv'
  OBVIOUS
<1>1. PInv' /\ IInv'
  BY NextPInv DEF LInv, PInv
<1>2. ASSUME NEW t \in Tasks, CreateTask(t)
      PROVE  LiveInv'
  BY <1>1, <1>2, LiveCreate
<1>3. ASSUME NEW w \in Workers, Work(w) \/ Crash(w) \/ DatabaseError(w)
      PROVE  LiveInv'
  BY <1>1, <1>3, LiveWork, LiveCommit, LiveFault DEF Work
<1>4. ASSUME NEW h \in Handlers, CheckPending(h) \/ Answer(h) \/ AbortRequest(h)
      PROVE  LiveInv'
  BY <1>1, <1>4, LiveRequest, LiveDecide DEF Answer
<1>5. CASE UNCHANGED vars
  BY <1>1, <1>5 DEF vars, rows, LInv, LiveInv, OneLiveJob
<1> QED
  BY <1>1, <1>2, <1>3, <1>4, <1>5 DEF Next, LInv

LEMMA LiveHolds == Spec /\ []OnePerTask => []LInv
BY InitLInv, NextLInv, PTL DEF Spec

\* With requests that do not overlap on a task, it never has two pending jobs
\* (gateway.py:432): one decision drives it once.
THEOREM OneJobAtATime == Spec /\ []OnePerTask => []OneLiveJob
<1>1. LInv => OneLiveJob
  BY DEF LInv, LiveInv
<1> QED
  BY <1>1, LiveHolds, PTL


\* A decision stands (gateway.py:416): a request writes to a row that was PENDING,
\* and a row a worker adds was none.
THEOREM DecisionsStand == Spec /\ []OnePerTask => DecisionIsFinal
<1> DEFINE Final == \A t \in Tasks, i \in StepIds, n \in ApprovalIds :
                      approvals[t][i][n] \in {"APPROVED", "REJECTED"}
                        => approvals'[t][i][n] = approvals[t][i][n]
<1>1. LInv /\ [Next]_vars => [Final]_vars
  <2> SUFFICES ASSUME LInv, Next
               PROVE  Final
    OBVIOUS
  <2>1. ASSUME NEW w \in Workers, CommitWork(w)
        PROVE  Final
    <3>1. /\ \A t \in Tasks : approvals'[t] = IF t = tx[w].task THEN WithAsked(w)
                                              ELSE approvals[t]
      BY <2>1 DEF CommitWork, LInv, PInv, IInv, TypeOK
    <3>2. tx[w].pc = "commit" /\ ProgressInv(tx[w])
      BY <2>1 DEF CommitWork, LInv, PInv
    <3>3. \A i \in StepIds, n \in ApprovalIds :
            <<i, n>> \in tx[w].asked => approvals[tx[w].task][i][n] = "NONE"
      BY <3>2 DEF ProgressInv, Looping
    <3>4. \A i \in StepIds, n \in ApprovalIds :
            \/ WithAsked(w)[i][n] = approvals[tx[w].task][i][n]
            \/ approvals[tx[w].task][i][n] = "NONE"
      BY <3>3 DEF WithAsked
    <3> QED
      BY <3>1, <3>4
  <2>2. ASSUME NEW h \in Handlers, CommitDecision(h)
        PROVE  Final
    <3>1. approvals[req[h].task][req[h].step][req[h].row] = "PENDING"
      BY <2>2 DEF CommitDecision, LInv, LiveInv
    <3>2. \A t \in Tasks, i \in StepIds, n \in ApprovalIds :
            approvals'[t][i][n] = IF t = req[h].task /\ i = req[h].step /\ n = req[h].row
                                  THEN req[h].decision ELSE approvals[t][i][n]
      BY <2>2 DEF CommitDecision, LInv, PInv, IInv, TypeOK
    <3> QED
      BY <3>1, <3>2
  <2>3. CASE UNCHANGED approvals
    BY <2>3
  <2>4. \/ \E w \in Workers : CommitWork(w)
        \/ \E h \in Handlers : CommitDecision(h)
        \/ UNCHANGED approvals
    BY DEF Next, Work, PlanTask, DoStep, Answer, CreateTask, ClaimJob, LoadTask, LockTask,
           DraftPlan, RejectPlan, MalformedPlan, ResumePlan, ReplayStep, AwaitDecision,
           AskApproval, AmbiguousApproval, DenyStep, StartStep, StepSucceeds, StepRetries,
           StepFails, VerifyStep, VerifyRaises, CompleteTask, MarkJobFailed, HandlerFails, Crash,
           DatabaseError, CheckPending, FlushDecision, ReadTask, RequeueTask,
           AbortRequest, Move, Drop, Respond, rows
  <2> QED
    BY <2>1, <2>2, <2>3, <2>4
<1> QED
  BY <1>1, LiveHolds, PTL DEF Spec, DecisionIsFinal

----------------------------------------------------------------------------
(***************************************************************************)
(* The tasks live the life TaskLifecycle promises.                         *)
(***************************************************************************)

\* While requests do not overlap on a task, only a FAILED task has a step that ran
\* and was not verified: its job is done with it, so nobody skips that step.
CleanIn(r) ==
    \A i \in StepIds : r.steps[i] = "COMMITTED" =>
        \/ r.pc = "verify" /\ i = r.pos
        \/ r.pc = "commit" /\ r.status = "FAILED"

CleanInv ==
    /\ \A t \in Tasks : taskStatus[t] # "FAILED" =>
         \A i \in StepIds : stepStatus[t][i] # "COMMITTED"
    /\ \A w \in Workers : CleanIn(tx[w])

LEMMA CleanMove ==
    ASSUME IInv, CleanInv, NEW w \in Workers, NEW r, Move(w, r), CleanIn(r)
    PROVE  CleanInv'
<1>1. /\ UNCHANGED <<taskStatus, stepStatus>>
      /\ \A v \in Workers : tx'[v] = IF v = w THEN r ELSE tx[v]
  BY DEF Move, rows, IInv, TypeOK
<1> QED
  BY <1>1 DEF CleanInv, CleanIn

LEMMA CleanPlan ==
    ASSUME LInv, CleanInv, RanInv, NEW w \in Workers,
           ClaimJob(w) \/ LoadTask(w) \/ LockTask(w) \/ PlanTask(w)
    PROVE  CleanInv'
<1>1. IInv /\ tx[w] \in Txs /\ RanIn(tx[w])
  BY DEF LInv, PInv, IInv, TypeOK, RanInv
<1>2. ASSUME tx[w].pc \notin Looping
      PROVE  \A i \in StepIds : tx[w].steps[i] # "COMMITTED"
  BY <1>1, <1>2 DEF RanIn, Ran
<1>3. \E r : Move(w, r) /\ \A i \in StepIds : r.steps[i] # "COMMITTED"
  <2>1. CASE ClaimJob(w)
    <3>1. PICK j : Move(w, [NoTx EXCEPT !.pc = "claimed", !.job = j, !.task = jobs[j].task])
      BY <2>1 DEF ClaimJob
    <3>2. PICK r : r = [NoTx EXCEPT !.pc = "claimed", !.job = j, !.task = jobs[j].task]
      OBVIOUS
    <3>3. r.steps = NoSteps
      BY <3>2 DEF NoTx
    <3>4. Move(w, r) /\ \A i \in StepIds : r.steps[i] # "COMMITTED"
      BY <3>1, <3>2, <3>3 DEF NoSteps
    <3> QED
      BY <3>4
  <2>2. CASE LoadTask(w) \/ LockTask(w)
    <3>1. PICK r : /\ Move(w, r)
                   /\ \/ r = [tx[w] EXCEPT !.pc = "loaded", !.planned = planned[tx[w].task]]
                      \/ r = [tx[w] EXCEPT !.pc = "plan", !.status = "PLANNING"]
      BY <2>2 DEF LoadTask, LockTask
    <3>2. r.steps = tx[w].steps /\ tx[w].pc \notin Looping
      BY <1>1, <2>2, <3>1 DEF LoadTask, LockTask, Looping, Txs
    <3> QED
      BY <1>2, <3>1, <3>2
  <2>3. CASE DraftPlan(w) \/ RejectPlan(w) \/ MalformedPlan(w)
    <3>1. PICK r : Move(w, r) /\ (r.steps = tx[w].steps \/ \E p, k : r.steps = NewSteps(p, k))
      BY <1>1, <2>3, FreshHand
    <3>2. tx[w].pc \notin Looping
      BY <2>3 DEF DraftPlan, RejectPlan, MalformedPlan, Looping
    <3> QED
      BY <1>2, <3>1, <3>2 DEF NewSteps
  <2>4. CASE ResumePlan(w)
    <3>1. PICK r : /\ Move(w, r)
                   /\ r = [tx[w] EXCEPT !.pc = "step", !.status = "RUNNING",
                                        !.tools = tools[tx[w].task], !.steps = stepStatus[tx[w].task]]
      BY <2>4 DEF ResumePlan
    <3>2. r.steps = stepStatus[tx[w].task]
      BY <1>1, <3>1 DEF Txs
    <3>3. tx[w].pc \in Busy
      BY <2>4 DEF ResumePlan, Busy
    <3>4. /\ tx[w].task \in Tasks /\ tx[w].job \in DOMAIN jobs
          /\ jobs[tx[w].job].task = tx[w].task
      BY <1>1, <3>3 DEF IInv, TxInv, ClaimInv
    <3>5. taskStatus[tx[w].task] = "QUEUED"
      BY <3>3, <3>4 DEF LInv, LiveInv
    <3> QED
      BY <3>1, <3>2, <3>4, <3>5 DEF CleanInv
  <2> QED
    BY <2>1, <2>2, <2>3, <2>4 DEF PlanTask
<1> QED
  BY <1>1, <1>3, CleanMove DEF CleanIn

LEMMA CleanLoop ==
    ASSUME IInv, CleanInv, NEW w \in Workers, DoStep(w) \/ CompleteTask(w)
    PROVE  CleanInv'
<1>1. PICK r : /\ Move(w, r) /\ tx[w].pc \in {"step", "execute", "verify"}
               /\ Leaves(w, r)
  BY LoopLeaves
<1>2. CleanIn(r)
  BY <1>1 DEF CleanInv, CleanIn, Leaves
<1> QED
  BY <1>1, <1>2, CleanMove

LEMMA CleanCommit ==
    ASSUME IInv, CleanInv, NEW w \in Workers, CommitWork(w)
    PROVE  CleanInv'
<1>1. PICK t : t = tx[w].task
  OBVIOUS
<1>2. /\ tx[w].pc = "commit" /\ t \in Tasks
      /\ \A v \in Workers : tx'[v] = IF v = w THEN NoTx ELSE tx[v]
  BY <1>1, CommitEffect
<1>3. /\ \A u \in Tasks : taskStatus'[u] = IF u = t THEN tx[w].status ELSE taskStatus[u]
      /\ \A u \in Tasks : stepStatus'[u] = IF u = t THEN tx[w].steps ELSE stepStatus[u]
  BY <1>1 DEF CommitWork, IInv, TypeOK
<1>4. CleanIn(NoTx)
  BY DEF CleanIn, NoTx, NoSteps
<1> QED
  BY <1>2, <1>3, <1>4 DEF CleanInv, CleanIn

LEMMA CleanFault ==
    ASSUME IInv, CleanInv, NEW w \in Workers,
           MarkJobFailed(w) \/ HandlerFails(w) \/ Crash(w) \/ DatabaseError(w)
    PROVE  CleanInv'
<1>1. /\ UNCHANGED <<taskStatus, stepStatus>>
      /\ \E r \in {NoTx, [NoTx EXCEPT !.pc = "raised", !.job = tx[w].job]} :
           tx' = [tx EXCEPT ![w] = r]
  BY DEF MarkJobFailed, HandlerFails, Crash, DatabaseError, Drop, rows
<1>2. PICK r \in {NoTx, [NoTx EXCEPT !.pc = "raised", !.job = tx[w].job]} :
        tx' = [tx EXCEPT ![w] = r]
  BY <1>1
<1>3. \A v \in Workers : tx'[v] = IF v = w THEN r ELSE tx[v]
  BY <1>2 DEF IInv, TypeOK
<1>4. r.steps = NoSteps
  <2>1. CASE r = NoTx
    BY <2>1 DEF NoTx
  <2>2. CASE r = [NoTx EXCEPT !.pc = "raised", !.job = tx[w].job]
    BY <2>2 DEF NoTx
  <2> QED
    BY <2>1, <2>2
<1>5. CleanIn(r)
  BY <1>4 DEF CleanIn, NoSteps
<1> QED
  BY <1>1, <1>3, <1>5 DEF CleanInv

\* A task is queued anew when it is created or PAUSED.
LEMMA CleanRequest ==
    ASSUME LInv, CleanInv, [Next]_vars, UNCHANGED <<stepStatus, tx>>,
           \/ \E t \in Tasks : CreateTask(t)
           \/ \E h \in Handlers : CommitDecision(h)
           \/ UNCHANGED taskStatus
    PROVE  CleanInv'
<1>1. taskStatus \in [Tasks -> TaskStatuses]
  BY DEF LInv, PInv, IInv, TypeOK
<1>2. CASE UNCHANGED taskStatus
  BY <1>2 DEF CleanInv
<1>3. ASSUME NEW t \in Tasks, CreateTask(t)
      PROVE  CleanInv'
  <2>1. taskStatus[t] = "NONE" /\ \A u \in Tasks \ {t} : taskStatus'[u] = taskStatus[u]
    BY <1>1, <1>3 DEF CreateTask
  <2> QED
    BY <2>1 DEF CleanInv
<1>4. ASSUME NEW h \in Handlers, CommitDecision(h)
      PROVE  CleanInv'
  <2>1. CASE req[h].pc = "requeued"
    <3>1. taskStatus[req[h].task] = "PAUSED"
      BY <2>1 DEF LInv, LiveInv
    <3>2. \A u \in Tasks \ {req[h].task} : taskStatus'[u] = taskStatus[u]
      BY <1>1, <1>4, <2>1 DEF CommitDecision
    <3> QED
      BY <3>1, <3>2 DEF CleanInv
  <2>2. CASE req[h].pc # "requeued"
    BY <1>2, <1>4, <2>2 DEF CommitDecision
  <2> QED
    BY <2>1, <2>2
<1> QED
  BY <1>2, <1>3, <1>4

LEMMA NextClean == LInv /\ RanInv /\ CleanInv /\ [Next]_vars => CleanInv'
<1> SUFFICES ASSUME LInv, RanInv, CleanInv, [Next]_vars
             PROVE  CleanInv'
  OBVIOUS
<1>1. IInv
  BY DEF LInv, PInv
<1>2. ASSUME NEW w \in Workers, Work(w) \/ Crash(w) \/ DatabaseError(w)
      PROVE  CleanInv'
  BY <1>1, <1>2, CleanPlan, CleanLoop, CleanCommit, CleanFault DEF Work
<1>3. \/ \E w \in Workers : Work(w) \/ Crash(w) \/ DatabaseError(w)
      \/ /\ UNCHANGED <<stepStatus, tx>>
         /\ \/ \E t \in Tasks : CreateTask(t)
            \/ \E h \in Handlers : CommitDecision(h)
            \/ UNCHANGED taskStatus
  BY DEF Next, Answer, CreateTask, CheckPending, FlushDecision, ReadTask, RequeueTask,
         CommitDecision, AbortRequest, Respond, rows, vars
<1> QED
  BY <1>2, <1>3, CleanRequest

LEMMA CleanHolds == Spec /\ []OnePerTask => [](LInv /\ CleanInv)
<1>1. Init => CleanInv
  BY DEF Init, CleanInv, CleanIn, NoTx, NoSteps
<1> QED
  BY <1>1, NextClean, NextRan, InitRan, InvariantHolds, LiveHolds, PTL DEF Spec

\* The commit of a worker is a step of TaskLifecycle.
LEMMA DriveStep ==
    ASSUME LInv, CleanInv, IInv', NEW w \in Workers, CommitWork(w)
    PROVE  Lifecycle!Drive(tx[w].task) /\ tx[w].task \in Tasks
<1> DEFINE t == tx[w].task
           steps == tx[w].steps
<1>1. /\ tx[w] \in Txs /\ TxInv(tx[w]) /\ tx[w].pc = "commit" /\ t \in Tasks
      /\ tx[w].status \in {"PAUSED", "COMPLETED", "FAILED"}
      /\ \A i \in StepIds : steps[i] \in Resting
      /\ ProgressInv(tx[w])
  BY CommitEffect DEF LInv, PInv
<1>2. taskStatus[t] = "QUEUED"
  BY LiveCommit
<1>3. Lifecycle!StepIds = StepIds /\ Lifecycle!Settled = Settled
      /\ Lifecycle!StepStatuses = Resting
  BY DEF Lifecycle!StepIds, StepIds, Lifecycle!Settled, Settled, Lifecycle!StepStatuses, Resting
<1>4. steps \in [StepIds -> Lifecycle!StepStatuses]
  BY <1>1, <1>3 DEF Txs
<1>5. \A i \in StepIds : /\ stepStatus[t][i] = "VERIFIED" => steps[i] = "VERIFIED"
                         /\ stepStatus[t][i] # "NONE" => steps[i] # "NONE"
  BY <1>1 DEF TxInv, HandInv, ProgressInv, Looping
<1>6. /\ taskStatus' = [taskStatus EXCEPT ![t] = tx[w].status]
      /\ stepStatus' = [stepStatus EXCEPT ![t] = steps]
  BY DEF CommitWork
<1>7. tx[w].status # "FAILED" => \A i \in StepIds : steps[i] # "COMMITTED"
  BY <1>1 DEF CleanInv, CleanIn
<1>8. tx[w].status = "PAUSED" => Lifecycle!AwaitsHuman(steps)
  <2> SUFFICES ASSUME tx[w].status = "PAUSED"
               PROVE  Lifecycle!AwaitsHuman(steps)
    OBVIOUS
  <2>1. PICK i \in StepIds : /\ steps[i] = "AUTHORIZED"
                             /\ \A j \in StepIds : j < i => steps[j] \in Tried
    BY <1>1 DEF ProgressInv, Awaits
  <2>2. \A j \in 1..(i - 1) : steps[j] \in Settled
    BY <1>7, <2>1, BoundsAssumption DEF StepIds, Tried
  <2> QED
    BY <1>3, <2>1, <2>2 DEF Lifecycle!AwaitsHuman
<1>c. tx[w].status = "COMPLETED" => \A i \in StepIds : steps[i] \in Settled \cup {"NONE"}
  <2> SUFFICES ASSUME tx[w].status = "COMPLETED", NEW i \in StepIds
               PROVE  steps[i] \in Settled \cup {"NONE"}
    OBVIOUS
  <2>1. Len(tx[w].tools) \in Nat /\ i \in Int
    BY <1>1, LenProperties, BoundsAssumption DEF Txs, StepIds
  <2>2. i <= Len(tx[w].tools) \/ i > Len(tx[w].tools)
    BY <2>1
  <2>3. i <= Len(tx[w].tools) => steps[i] \in Tried
    BY <1>1 DEF ProgressInv
  <2>4. i > Len(tx[w].tools) => steps[i] = "NONE"
    BY <1>1 DEF ProgressInv, Fits
  <2> QED
    BY <1>7, <2>2, <2>3, <2>4 DEF Tried
<1> HIDE DEF t, steps
<1>9. \/ /\ Lifecycle!AwaitsHuman(steps) /\ \A i \in StepIds : steps[i] # "COMMITTED"
         /\ taskStatus' = [taskStatus EXCEPT ![t] = "PAUSED"]
      \/ /\ \A i \in StepIds : steps[i] \in Settled \cup {"NONE"}
         /\ taskStatus' = [taskStatus EXCEPT ![t] = "COMPLETED"]
      \/ taskStatus' = [taskStatus EXCEPT ![t] = "FAILED"]
  BY <1>1, <1>6, <1>7, <1>8, <1>c
<1>10. Lifecycle!Drive(t)
  BY <1>2, <1>3, <1>4, <1>5, <1>6, <1>9 DEF Lifecycle!Drive
<1> QED
  BY <1>1, <1>10 DEF t

\* So is every other step, or it changes nothing TaskLifecycle sees.
LEMMA LifecycleStep ==
    ASSUME LInv, CleanInv, IInv', [Next]_vars
    PROVE  [Lifecycle!Next]_(Lifecycle!vars)
<1>1. ASSUME NEW t \in Tasks, CreateTask(t)
      PROVE  Lifecycle!Next
  BY <1>1 DEF CreateTask, Lifecycle!Submit, Lifecycle!Next
<1>2. ASSUME NEW w \in Workers, CommitWork(w)
      PROVE  Lifecycle!Next
  BY <1>2, DriveStep DEF Lifecycle!Next
<1>3. ASSUME NEW h \in Handlers, CommitDecision(h)
      PROVE  Lifecycle!Next \/ UNCHANGED Lifecycle!vars
  <2>1. CASE req[h].pc = "requeued"
    <3>1. req[h].task \in Tasks /\ taskStatus[req[h].task] = "PAUSED"
      BY <2>1 DEF LInv, LiveInv, PInv, IInv, ReqInv
    <3> QED
      BY <1>3, <2>1, <3>1 DEF CommitDecision, Lifecycle!Resume, Lifecycle!Next
  <2>2. CASE req[h].pc # "requeued"
    BY <1>3, <2>2 DEF CommitDecision, Lifecycle!vars
  <2> QED
    BY <2>1, <2>2
<1>4. \/ \E t \in Tasks : CreateTask(t)
      \/ \E w \in Workers : CommitWork(w)
      \/ \E h \in Handlers : CommitDecision(h)
      \/ UNCHANGED <<taskStatus, stepStatus>>
  BY DEF Next, Work, PlanTask, DoStep, Answer, ClaimJob, LoadTask, LockTask,
         DraftPlan, RejectPlan, MalformedPlan, ResumePlan, ReplayStep, AwaitDecision,
         AskApproval, AmbiguousApproval, DenyStep, StartStep, StepSucceeds, StepRetries,
         StepFails, VerifyStep, VerifyRaises, CompleteTask, MarkJobFailed, HandlerFails, Crash,
         DatabaseError, CheckPending, FlushDecision, ReadTask, RequeueTask,
         AbortRequest, Move, Drop, Respond, rows, vars
<1> QED
  BY <1>1, <1>2, <1>3, <1>4 DEF Lifecycle!vars

\* Seen from other transactions, the agent implements TaskLifecycle, for every set
\* of tasks and plans, when requests do not overlap on a task.
THEOREM LifecycleImplemented == Spec /\ []OnePerTask => ImplementsLifecycle
<1>1. Init => Lifecycle!Init
  BY DEF Init, Lifecycle!Init, NoSteps, StepIds, Lifecycle!StepIds
<1>2. LInv /\ LInv' /\ CleanInv /\ [Next]_vars => [Lifecycle!Next]_(Lifecycle!vars)
  BY LifecycleStep DEF LInv, PInv
<1> QED
  BY <1>1, <1>2, CleanHolds, PTL DEF Spec, ImplementsLifecycle, Lifecycle!Spec

----------------------------------------------------------------------------
(***************************************************************************)
(* A paused task can be woken.                                             *)
(*                                                                         *)
(* A step whose tool is executed as a HIGH action leaves an approval that  *)
(* nobody waits for; a later step that asks for one of its own would pause *)
(* the task with two rows to decide, and the first decision re-queues it.  *)
(* So the plans considered ask only where no earlier step has left one     *)
(* (the run LostWakeup has the others), and requests on a task do not      *)
(* overlap.  WakeInv then says that a paused task has exactly one approval *)
(* to decide, and a QUEUED one none.                                       *)
(***************************************************************************)

LeavesApproval(tool) == RiskOf(ExecutedAs(tool)) = "HIGH"

FirstToAsk(p) == \A i, j \in DOMAIN p :
                   i < j /\ RiskOf(p[j]) = "HIGH" => ~LeavesApproval(p[i])

OneGatePerPlan == \A p \in Plans : FirstToAsk(p)

AskedInv(r) ==
    /\ FirstToAsk(r.tools)
    /\ r.pc \in {"step", "execute", "verify"} =>
         \A i \in StepIds, n \in ApprovalIds : <<i, n>> \in r.asked =>
            /\ i <= Len(r.tools) /\ LeavesApproval(r.tools[i])
            /\ i < r.pos \/ (i = r.pos /\ r.pc # "step")
    /\ r.pc = "commit" /\ r.status = "PAUSED" =>
         \E i \in StepIds, n \in ApprovalIds : r.asked = {<<i, n>>}

NoneToDecide(t) == \A i \in StepIds, n \in ApprovalIds : approvals[t][i][n] # "PENDING"

OneToDecide(t) ==
    \E i \in StepIds, n \in ApprovalIds :
       /\ approvals[t][i][n] = "PENDING"
       /\ \A k \in StepIds, m \in ApprovalIds : approvals[t][k][m] = "PENDING" => k = i /\ m = n

WakeInv ==
    /\ \A w \in Workers : AskedInv(tx[w])
    /\ \A t \in Tasks : FirstToAsk(tools[t])
    /\ \A t \in Tasks : taskStatus[t] = "NONE" => ~planned[t]
    /\ \A t \in Tasks : taskStatus[t] = "QUEUED" => NoneToDecide(t)
    /\ \A t \in Tasks : taskStatus[t] = "PAUSED" => OneToDecide(t)
    /\ \A h \in Handlers : req[h].pc # "idle" => req[h].decision # "PENDING"
    /\ \A h \in Handlers : req[h].pc = "commit" => taskStatus[req[h].task] \in {"COMPLETED", "FAILED"}

VInv == LInv /\ WakeInv

\* A step of a worker that leaves the rows alone keeps WakeInv when what it has
\* then in hand satisfies AskedInv.
LEMMA AskMove ==
    ASSUME VInv, NEW w \in Workers, NEW r, Move(w, r), AskedInv(r)
    PROVE  WakeInv'
<1>1. /\ UNCHANGED <<rows, req>>
      /\ \A v \in Workers : tx'[v] = IF v = w THEN r ELSE tx[v]
  BY DEF Move, VInv, LInv, PInv, IInv, TypeOK
<1>2. \A v \in Workers : AskedInv(tx'[v])
  BY <1>1 DEF VInv, WakeInv
<1>3. \A v \in Workers : AskedInv(tx[v])'
  BY <1>2 DEF AskedInv
<1> QED
  BY <1>1, <1>3 DEF VInv, WakeInv, rows, NoneToDecide, OneToDecide

\* The steps of a plan cut short ask no more than the plan.
LEMMA CutPlanAsks ==
    ASSUME NEW p \in Plans, NEW k \in 0..Len(p), FirstToAsk(p)
    PROVE  FirstToAsk(SubSeq(p, 1, k))
<1>1. p \in Seq(ToolNames) /\ Len(p) \in Nat /\ DOMAIN p = 1..Len(p)
  BY PlansAssumption, LenProperties
<1>2. /\ SubSeq(p, 1, k) \in Seq(ToolNames) /\ Len(SubSeq(p, 1, k)) = k
      /\ DOMAIN SubSeq(p, 1, k) = 1..k
      /\ \A i \in 1..k : SubSeq(p, 1, k)[i] = p[i] /\ i \in DOMAIN p
  BY <1>1, PlanType, LenProperties
<1> QED
  BY <1>2 DEF FirstToAsk

\* Before the loop, and when the plan is drafted or read, nothing is asked.
LEMMA AskPlan ==
    ASSUME VInv, OneGatePerPlan, NEW w \in Workers,
           ClaimJob(w) \/ LoadTask(w) \/ LockTask(w) \/ PlanTask(w)
    PROVE  WakeInv'
<1>1. tx[w] \in Txs /\ ProgressInv(tx[w]) /\ TxInv(tx[w]) /\ AskedInv(tx[w])
  BY DEF VInv, LInv, PInv, IInv, TypeOK, WakeInv
<1>2. CASE ClaimJob(w)
  <2>1. PICK j : Move(w, [NoTx EXCEPT !.pc = "claimed", !.job = j, !.task = jobs[j].task])
    BY <1>2 DEF ClaimJob
  <2> DEFINE r == [NoTx EXCEPT !.pc = "claimed", !.job = j, !.task = jobs[j].task]
  <2>2. r.pc = "claimed" /\ r.tools = <<>>
    BY DEF NoTx
  <2> HIDE DEF r
  <2>3. AskedInv(r)
    BY <2>2 DEF AskedInv, FirstToAsk
  <2> QED
    BY <2>1, <2>3, AskMove DEF r
<1>3. CASE LoadTask(w) \/ LockTask(w)
  <2> DEFINE l == [tx[w] EXCEPT !.pc = "loaded", !.planned = planned[tx[w].task]]
             k == [tx[w] EXCEPT !.pc = "plan", !.status = "PLANNING"]
  <2>1. Move(w, l) \/ Move(w, k)
    BY <1>3 DEF LoadTask, LockTask
  <2>2. /\ l.pc = "loaded" /\ l.tools = tx[w].tools
        /\ k.pc = "plan" /\ k.tools = tx[w].tools
    BY <1>1 DEF Txs
  <2> HIDE DEF l, k
  <2>3. AskedInv(l) /\ AskedInv(k)
    BY <1>1, <2>2 DEF AskedInv
  <2> QED
    BY <2>1, <2>3, AskMove
<1>4. CASE PlanTask(w)
  <2> DEFINE t == tx[w].task
  <2>1. tx[w].pc = "plan" /\ tx[w].asked = {} /\ t \in Tasks
    BY <1>1, <1>4
    DEF PlanTask, DraftPlan, RejectPlan, MalformedPlan, ResumePlan, ProgressInv, Looping,
        TxInv, ClaimInv, Busy
  <2>2. PICK r : /\ Move(w, r) /\ r.asked = tx[w].asked
                 /\ r.pc = "step" \/ (r.pc = "commit" /\ r.status = "FAILED")
                 /\ \/ \E p \in Plans : r.tools = p
                    \/ \E p \in Plans : \E k \in 0..(Len(p) - 1) : r.tools = SubSeq(p, 1, k)
                    \/ r.tools = tools[t]
                    \/ r.tools = tx[w].tools
    <3>1. CASE DraftPlan(w)
      <4>1. PICK p \in Plans :
              Move(w, [tx[w] EXCEPT !.pc = "step", !.status = "RUNNING", !.planned = TRUE,
                                    !.tools = p, !.steps = NewSteps(p, Len(p))])
        BY <3>1 DEF DraftPlan
      <4> DEFINE q == [tx[w] EXCEPT !.pc = "step", !.status = "RUNNING", !.planned = TRUE,
                                    !.tools = p, !.steps = NewSteps(p, Len(p))]
      <4>2. q.asked = tx[w].asked /\ q.pc = "step" /\ q.tools = p
        BY <1>1 DEF Txs
      <4>3. Move(w, q)
        BY <4>1
      <4> HIDE DEF q
      <4> QED
        BY <4>2, <4>3
    <3>2. CASE RejectPlan(w)
      <4> DEFINE q == [tx[w] EXCEPT !.pc = "commit", !.status = "FAILED", !.planned = TRUE]
      <4>1. /\ q.asked = tx[w].asked /\ q.pc = "commit" /\ q.status = "FAILED"
            /\ q.tools = tx[w].tools
        BY <1>1 DEF Txs
      <4>2. Move(w, q)
        BY <3>2 DEF RejectPlan
      <4> HIDE DEF q
      <4> QED
        BY <4>1, <4>2
    <3>3. CASE MalformedPlan(w)
      <4>a. PICK p \in Plans : \E k \in 0..(Len(p) - 1) :
              Move(w, [tx[w] EXCEPT !.pc = "commit", !.status = "FAILED", !.planned = TRUE,
                                    !.tools = SubSeq(p, 1, k), !.steps = NewSteps(p, k)])
        BY <3>3 DEF MalformedPlan
      <4>1. PICK k \in 0..(Len(p) - 1) :
              Move(w, [tx[w] EXCEPT !.pc = "commit", !.status = "FAILED", !.planned = TRUE,
                                    !.tools = SubSeq(p, 1, k), !.steps = NewSteps(p, k)])
        BY <4>a
      <4> DEFINE q == [tx[w] EXCEPT !.pc = "commit", !.status = "FAILED", !.planned = TRUE,
                                    !.tools = SubSeq(p, 1, k), !.steps = NewSteps(p, k)]
      <4>2. /\ q.asked = tx[w].asked /\ q.pc = "commit" /\ q.status = "FAILED"
            /\ q.tools = SubSeq(p, 1, k)
        BY <1>1 DEF Txs
      <4>3. Move(w, q)
        BY <4>1
      <4> HIDE DEF q
      <4> QED
        BY <4>2, <4>3
    <3>4. CASE ResumePlan(w)
      <4> DEFINE q == [tx[w] EXCEPT !.pc = "step", !.status = "RUNNING",
                                    !.tools = tools[t], !.steps = stepStatus[t]]
      <4>1. q.asked = tx[w].asked /\ q.pc = "step" /\ q.tools = tools[t]
        BY <1>1 DEF Txs
      <4>2. Move(w, q)
        BY <3>4 DEF ResumePlan
      <4> HIDE DEF q
      <4> QED
        BY <4>1, <4>2
    <3> QED
      BY <1>4, <3>1, <3>2, <3>3, <3>4 DEF PlanTask
  <2>3. FirstToAsk(r.tools)
    <3>1. ASSUME NEW p \in Plans, NEW k \in 0..(Len(p) - 1), r.tools = SubSeq(p, 1, k)
          PROVE  FirstToAsk(r.tools)
      <4>1. k \in 0..Len(p)
        BY PlansAssumption, LenProperties
      <4> QED
        BY <3>1, <4>1, CutPlanAsks DEF OneGatePerPlan
    <3>2. FirstToAsk(tools[t]) /\ FirstToAsk(tx[w].tools)
      BY <1>1, <2>1 DEF VInv, WakeInv, AskedInv
    <3> QED
      BY <2>2, <3>1, <3>2 DEF OneGatePerPlan
  <2>4. AskedInv(r)
    BY <2>1, <2>2, <2>3 DEF AskedInv
  <2> QED
    BY <2>2, <2>4, AskMove
<1> QED
  BY <1>2, <1>3, <1>4

\* While a worker drives a task, no approval of it is to be decided.
LEMMA DrivenHasNone ==
    ASSUME VInv, NEW w \in Workers, tx[w].pc \in Busy
    PROVE  tx[w].task \in Tasks /\ NoneToDecide(tx[w].task)
<1>1. jobs[tx[w].job].status = "pending" /\ jobs[tx[w].job].task = tx[w].task /\ tx[w].task \in Tasks
      /\ tx[w].job \in DOMAIN jobs
  BY DEF VInv, LInv, LiveInv, PInv, IInv, TxInv, ClaimInv
<1>2. taskStatus[tx[w].task] = "QUEUED"
  BY <1>1 DEF VInv, LInv, LiveInv
<1> QED
  BY <1>1, <1>2 DEF VInv, WakeInv

\* The task never finds an approval of its own that is still to be decided, and
\* asks for one only when it has asked for none before.
LEMMA PausesOnce ==
    ASSUME VInv, NEW w \in Workers
    PROVE  /\ ~AwaitDecision(w)
           /\ AskApproval(w) => \E n \in ApprovalIds : Asked(w, tx[w].pos) = {<<tx[w].pos, n>>}
<1> DEFINE i == tx[w].pos
           t == tx[w].task
<1> SUFFICES ASSUME TakeUp(w)
             PROVE  /\ Verdict(w) # "PENDING"
                    /\ Verdict(w) = "approval" => \E n \in ApprovalIds : Asked(w, i) = {<<i, n>>}
  BY DEF AwaitDecision, AskApproval
<1>1. /\ tx[w] \in Txs /\ i \in StepIds /\ i \in 1..Len(tx[w].tools) /\ tx[w].pc = "step"
      /\ DOMAIN tx[w].tools = 1..Len(tx[w].tools) /\ Len(tx[w].tools) \in Nat
  BY InHand, LenProperties DEF VInv, LInv, PInv, IInv, Txs, TakeUp, AtStep
<1>2. t \in Tasks /\ NoneToDecide(t)
  BY <1>1, DrivenHasNone DEF Busy, Looping
<1>3. \A k \in StepIds, n \in ApprovalIds : <<k, n>> \in tx[w].asked =>
        k < i /\ k <= Len(tx[w].tools) /\ LeavesApproval(tx[w].tools[k])
  BY <1>1 DEF VInv, WakeInv, AskedInv
<1>4. \A n \in ApprovalIds : <<i, n>> \notin tx[w].asked
  BY <1>1, <1>3 DEF StepIds
<1>5. \A k \in StepIds, n \in ApprovalIds : approvals[t][k][n] \in (Decisions \cup {"NONE"}) \ {"PENDING"}
  BY <1>2 DEF NoneToDecide, VInv, LInv, PInv, IInv, TypeOK
<1>6. /\ Lookup(w, i) \in {"none", "multiple", "APPROVED", "REJECTED"}
      /\ Lookup(w, i) = "none" => ApprovalRows(w, i) = {}
  <2>1. CASE ApprovalRows(w, i) = {}
    BY <2>1 DEF Lookup
  <2>2. CASE \E n, m \in ApprovalRows(w, i) : n # m
    BY <2>2 DEF Lookup
  <2>3. CASE ApprovalRows(w, i) # {} /\ ~ \E n, m \in ApprovalRows(w, i) : n # m
    <3>1. PICK n \in ApprovalIds : /\ n \in ApprovalRows(w, i)
                                   /\ Lookup(w, i) = IF <<i, n>> \in tx[w].asked THEN "PENDING"
                                                     ELSE approvals[t][i][n]
      BY <2>3 DEF Lookup, ApprovalRows
    <3>2. approvals[t][i][n] # "NONE"
      BY <1>4, <3>1 DEF ApprovalRows
    <3> QED
      BY <1>1, <1>4, <1>5, <3>1, <3>2 DEF Decisions
  <2> QED
    BY <2>1, <2>2, <2>3
<1>7. /\ Verdict(w) # "PENDING"
      /\ Verdict(w) = "approval" => Lookup(w, i) = "none" /\ RiskOf(Tool(w)) = "HIGH"
  BY <1>6 DEF Verdict, Authorize
<1>8. ASSUME Verdict(w) = "approval"
      PROVE  \E n \in ApprovalIds : Asked(w, i) = {<<i, n>>}
  <2>1. FirstToAsk(tx[w].tools) /\ RiskOf(tx[w].tools[i]) = "HIGH"
    BY <1>7, <1>8 DEF VInv, WakeInv, AskedInv, Tool
  <2>2. tx[w].asked = {}
    <3>1. \A k \in StepIds, n \in ApprovalIds : <<k, n>> \notin tx[w].asked
      <4> SUFFICES ASSUME NEW k \in StepIds, NEW n \in ApprovalIds, <<k, n>> \in tx[w].asked
                   PROVE  FALSE
        OBVIOUS
      <4>1. k < i /\ k <= Len(tx[w].tools) /\ LeavesApproval(tx[w].tools[k])
        BY <1>3
      <4>2. k \in DOMAIN tx[w].tools /\ i \in DOMAIN tx[w].tools
        BY <1>1, <4>1, BoundsAssumption DEF StepIds
      <4> QED
        BY <2>1, <4>1, <4>2 DEF FirstToAsk
    <3> QED
      BY <1>1, <3>1 DEF Txs
  <2>3. ApprovalRows(w, i) = {}
    BY <1>6, <1>7, <1>8
  <2>4. Asked(w, i) = {<<i, n>> : n \in {m \in ApprovalIds : \A k \in ApprovalIds : m <= k}}
    BY <2>2, <2>3 DEF Asked
  <2>5. {m \in ApprovalIds : \A k \in ApprovalIds : m <= k} = {1} /\ 1 \in ApprovalIds
    BY BoundsAssumption DEF ApprovalIds
  <2> QED
    BY <2>4, <2>5
<1> QED
  BY <1>7, <1>8
\* What an attempt to run the tool asks for is asked at the step in hand.
LEMMA AsksHere ==
    ASSUME NEW w \in Workers, NEW r, Asks(w, r)
    PROVE  \A i \in StepIds, n \in ApprovalIds : <<i, n>> \in r.asked =>
             \/ <<i, n>> \in tx[w].asked
             \/ tx[w].pc = "execute" /\ i = tx[w].pos /\ LeavesApproval(tx[w].tools[i])
<1>1. CASE r.asked = tx[w].asked
  BY <1>1
<1>2. ASSUME tx[w].pc = "execute", NEW reached, r.asked = AskedAfter(w, reached)
      PROVE  \A i \in StepIds, n \in ApprovalIds : <<i, n>> \in r.asked =>
               \/ <<i, n>> \in tx[w].asked
               \/ i = tx[w].pos /\ LeavesApproval(tx[w].tools[i])
  <2>1. CASE r.asked = tx[w].asked
    BY <2>1
  <2>2. CASE r.asked # tx[w].asked
    <3>1. /\ r.asked = Asked(w, tx[w].pos)
          /\ "approval" = Authorize(RoleOf[tx[w].task], ExecutedAs(Tool(w)), ToolSet(tx[w].tools))
      BY <1>2, <2>2 DEF AskedAfter
    <3>2. LeavesApproval(tx[w].tools[tx[w].pos])
      BY <3>1 DEF Authorize, LeavesApproval, Tool
    <3>3. \A i \in StepIds, n \in ApprovalIds :
            <<i, n>> \in r.asked => <<i, n>> \in tx[w].asked \/ i = tx[w].pos
      BY <3>1 DEF Asked
    <3> QED
      BY <3>2, <3>3
  <2> QED
    BY <2>1, <2>2
<1> QED
  BY <1>1, <1>2 DEF Asks

LEMMA AskStep ==
    ASSUME VInv, NEW w \in Workers, DoStep(w) \/ CompleteTask(w)
    PROVE  WakeInv'
<1>1. IInv /\ tx[w] \in Txs /\ AskedInv(tx[w]) /\ FirstToAsk(tx[w].tools) /\ Len(tx[w].tools) \in Nat
  BY LenProperties DEF VInv, LInv, PInv, IInv, TypeOK, WakeInv, AskedInv, Txs
<1>2. CASE CompleteTask(w)
  <2> DEFINE r == [tx[w] EXCEPT !.pc = "commit", !.status = "COMPLETED"]
  <2>1. r.pc = "commit" /\ r.status = "COMPLETED" /\ r.tools = tx[w].tools
    BY <1>1 DEF Txs
  <2>2. Move(w, r)
    BY <1>2 DEF CompleteTask
  <2> HIDE DEF r
  <2>3. AskedInv(r)
    BY <1>1, <2>1 DEF AskedInv
  <2> QED
    BY <2>2, <2>3, AskMove
<1>3. CASE ReplayStep(w)
  <2> DEFINE r == NextStep(tx[w])
  <2>1. tx[w].pc = "step" /\ tx[w].pos \in Nat /\ Move(w, r)
    BY <1>1, <1>3 DEF ReplayStep, AtStep, Txs
  <2>2. /\ r.pc = "step" /\ r.tools = tx[w].tools
        /\ r.pos = tx[w].pos + 1 /\ r.asked = tx[w].asked
    BY <1>1, NextStepType DEF NextStep, Txs
  <2> HIDE DEF r
  <2>3. \A i \in StepIds : i < tx[w].pos => i < r.pos
    BY <2>1, <2>2 DEF StepIds
  <2>4. AskedInv(r)
    BY <1>1, <2>1, <2>2, <2>3 DEF AskedInv
  <2> QED
    BY <2>1, <2>4, AskMove
<1>4. CASE AwaitDecision(w) \/ AskApproval(w) \/ AmbiguousApproval(w)
  <2>1. PICK r : /\ SameWork(w, r) /\ r.pc = "commit"
                 /\ \/ r.status = "PAUSED" /\ AwaitDecision(w)
                    \/ r.status = "PAUSED" /\ AskApproval(w) /\ r.asked = Asked(w, tx[w].pos)
                    \/ r.status = "FAILED"
    BY <1>1, <1>4, PauseShape
  <2>2. tx[w].pos \in StepIds
    BY <1>1, <1>4, TakenUp DEF AwaitDecision, AskApproval, AmbiguousApproval
  <2>3. r.status = "PAUSED" => \E i \in StepIds, n \in ApprovalIds : r.asked = {<<i, n>>}
    BY <2>1, <2>2, PausesOnce
  <2>4. AskedInv(r)
    BY <1>1, <2>1, <2>3 DEF AskedInv, SameWork
  <2> QED
    BY <2>1, <2>4, AskMove DEF SameWork
<1>5. CASE DenyStep(w) \/ StepFails(w) \/ VerifyStep(w) \/ StartStep(w) \/ StepSucceeds(w) \/ StepRetries(w)
  <2>1. PICK r : /\ SameWork(w, r) /\ Asks(w, r)
                 /\ \/ r.pc = "step" /\ r.pos = tx[w].pos + 1
                    \/ r.pc \in {"execute", "verify"} /\ r.pos = tx[w].pos
    BY <1>1, <1>5, SettleShape, RunShape
  <2>2. /\ tx[w].pos \in StepIds /\ tx[w].pos \in 1..Len(tx[w].tools)
        /\ tx[w].pc \in {"step", "execute", "verify"}
    <3>1. TakeUp(w) \/ tx[w].pc \in {"execute", "verify"}
      BY <1>1, <1>5, SettleShape, RunShape
    <3> QED
      BY <1>1, <3>1, InHand DEF TakeUp, AtStep
  <2>3. ASSUME NEW i \in StepIds, NEW n \in ApprovalIds, <<i, n>> \in r.asked
        PROVE  i <= Len(tx[w].tools) /\ LeavesApproval(tx[w].tools[i]) /\ i <= tx[w].pos
    <3>1. CASE <<i, n>> \in tx[w].asked
      <4>1. /\ i <= Len(tx[w].tools) /\ LeavesApproval(tx[w].tools[i])
            /\ i < tx[w].pos \/ i = tx[w].pos
        BY <1>1, <2>2, <3>1 DEF AskedInv
      <4> QED
        BY <2>2, <4>1 DEF StepIds
    <3>2. CASE i = tx[w].pos /\ LeavesApproval(tx[w].tools[i])
      BY <1>1, <2>2, <3>2
    <3> QED
      BY <2>1, <2>3, <3>1, <3>2, AsksHere
  <2>4. \A i \in StepIds : i <= tx[w].pos => i < r.pos \/ (i = r.pos /\ r.pc # "step")
    BY <2>1, <2>2 DEF StepIds
  <2>5. r.tools = tx[w].tools /\ Move(w, r)
    BY <2>1 DEF SameWork
  <2>6. AskedInv(r)
    BY <1>1, <2>1, <2>3, <2>4, <2>5 DEF AskedInv
  <2> QED
    BY <2>5, <2>6, AskMove
<1>6. CASE VerifyRaises(w)
  <2>1. PICK r \in Txs :
             /\ Move(w, r) /\ r.pc = "commit" /\ r.status = "FAILED" /\ r.job = tx[w].job
             /\ r.task = tx[w].task /\ r.planned = tx[w].planned /\ r.tools = tx[w].tools
             /\ r.steps = tx[w].steps /\ r.asked = tx[w].asked
    BY <1>1, <1>6, RaiseHand
  <2>2. AskedInv(r)
    BY <1>1, <2>1 DEF AskedInv
  <2> QED
    BY <2>1, <2>2, AskMove
<1> QED
  BY <1>2, <1>3, <1>4, <1>5, <1>6 DEF DoStep

\* The commit of a worker publishes the approval it asked for, if it pauses.
LEMMA AskCommit ==
    ASSUME VInv, NEW w \in Workers, CommitWork(w), IInv'
    PROVE  WakeInv'
<1>t. PICK t : t = tx[w].task
  OBVIOUS
<1>1. /\ tx[w].pc = "commit" /\ t \in Tasks
      /\ tx[w].status \in {"PAUSED", "COMPLETED", "FAILED"} /\ tx[w].planned
      /\ \A v \in Workers : tx'[v] = IF v = w THEN NoTx ELSE tx[v]
      /\ UNCHANGED req
  BY <1>t, CommitEffect DEF VInv, LInv, PInv
<1>2. \A u \in Tasks :
          /\ taskStatus'[u] = IF u = t THEN tx[w].status ELSE taskStatus[u]
          /\ planned'[u] = IF u = t THEN tx[w].planned ELSE planned[u]
          /\ tools'[u] = IF u = t THEN tx[w].tools ELSE tools[u]
          /\ approvals'[u] = IF u = t THEN WithAsked(w) ELSE approvals[u]
  BY <1>t, <1>1 DEF CommitWork, VInv, LInv, PInv, IInv, TypeOK
<1>3. taskStatus[t] = "QUEUED" /\ NoneToDecide(t) /\ AskedInv(tx[w])
  BY <1>t, <1>1, LiveCommit DEF VInv, WakeInv
<1>4. \A v \in Workers : AskedInv(tx[v])'
  <2>1. AskedInv(NoTx)
    BY DEF AskedInv, NoTx, FirstToAsk
  <2>2. \A v \in Workers : AskedInv(tx'[v])
    BY <1>1, <2>1 DEF VInv, WakeInv
  <2> QED
    BY <2>2 DEF AskedInv
<1>5. \A u \in Tasks : FirstToAsk(tools'[u])
  BY <1>2, <1>3 DEF AskedInv, VInv, WakeInv
<1>6. tx[w].status = "PAUSED" => OneToDecide(t)'
  <2> SUFFICES ASSUME tx[w].status = "PAUSED"
               PROVE  OneToDecide(t)'
    OBVIOUS
  <2>1. PICK i \in StepIds, n \in ApprovalIds : tx[w].asked = {<<i, n>>}
    BY <1>1, <1>3 DEF AskedInv
  <2>2. \A k \in StepIds, m \in ApprovalIds :
          approvals'[t][k][m] = IF k = i /\ m = n THEN "PENDING" ELSE approvals[t][k][m]
    <3> TAKE k \in StepIds, m \in ApprovalIds
    <3>1. <<k, m>> \in tx[w].asked <=> k = i /\ m = n
      BY <2>1
    <3>2. WithAsked(w)[k][m] = IF <<k, m>> \in tx[w].asked THEN "PENDING" ELSE approvals[t][k][m]
      BY <1>t DEF WithAsked
    <3>3. approvals'[t] = WithAsked(w)
      BY <1>1, <1>2
    <3> QED
      BY <3>1, <3>2, <3>3
  <2> QED
    BY <1>3, <2>2 DEF OneToDecide, NoneToDecide
<1>7. \A u \in Tasks : u # t => /\ (NoneToDecide(u) => NoneToDecide(u)')
                                /\ (OneToDecide(u) => OneToDecide(u)')
  BY <1>2 DEF NoneToDecide, OneToDecide
<1>8. \A u \in Tasks : /\ taskStatus'[u] = "NONE" => ~planned'[u]
                       /\ taskStatus'[u] = "QUEUED" => NoneToDecide(u)'
                       /\ taskStatus'[u] = "PAUSED" => OneToDecide(u)'
  BY <1>1, <1>2, <1>6, <1>7 DEF VInv, WakeInv
<1>9. \A h \in Handlers : req[h].pc = "commit" => taskStatus'[req[h].task] \in {"COMPLETED", "FAILED"}
  BY <1>2, <1>3 DEF VInv, WakeInv, LInv, PInv, IInv, ReqInv
<1> QED
  BY <1>1, <1>4, <1>5, <1>8, <1>9 DEF VInv, WakeInv

\* What fails in a worker leaves the rows, but for the job's, as they were.
LEMMA AskFault ==
    ASSUME VInv, NEW w \in Workers,
           Crash(w) \/ DatabaseError(w) \/ MarkJobFailed(w) \/ HandlerFails(w)
    PROVE  WakeInv'
<1>1. PICK r \in {NoTx, [NoTx EXCEPT !.pc = "raised", !.job = tx[w].job]} :
        tx' = [tx EXCEPT ![w] = r]
  BY DEF Crash, DatabaseError, MarkJobFailed, HandlerFails, Drop
<1>2. /\ UNCHANGED <<taskStatus, planned, tools, approvals, req>>
      /\ \A v \in Workers : tx'[v] = IF v = w THEN r ELSE tx[v]
  BY <1>1 DEF Crash, DatabaseError, MarkJobFailed, HandlerFails, Drop, rows,
              VInv, LInv, PInv, IInv, TypeOK
<1>3. r.pc \in {"idle", "raised"} /\ r.tools = <<>>
  <2>1. CASE r = NoTx
    BY <2>1 DEF NoTx
  <2>2. CASE r = [NoTx EXCEPT !.pc = "raised", !.job = tx[w].job]
    BY <2>2 DEF NoTx
  <2> QED
    BY <2>1, <2>2
<1>4. AskedInv(r)
  BY <1>3 DEF AskedInv, FirstToAsk
<1>5. \A v \in Workers : AskedInv(tx'[v])
  BY <1>2, <1>4 DEF VInv, WakeInv
<1>6. \A v \in Workers : AskedInv(tx[v])'
  BY <1>5 DEF AskedInv
<1> QED
  BY <1>2, <1>6 DEF VInv, WakeInv, NoneToDecide, OneToDecide

\* A request that finds its approval PENDING, and its task not PAUSED, finds the
\* task at its end.
LEMMA AskRequest ==
    ASSUME VInv, NEW h \in Handlers,
           CheckPending(h) \/ FlushDecision(h) \/ ReadTask(h) \/ RequeueTask(h) \/ AbortRequest(h)
    PROVE  WakeInv'
<1>1. UNCHANGED <<rows, tx>>
  BY DEF CheckPending, FlushDecision, ReadTask, RequeueTask, AbortRequest, Respond
<1>2. req \in [Handlers -> Requests] /\ req' = [req EXCEPT ![h] = req'[h]]
  BY DEF CheckPending, FlushDecision, ReadTask, RequeueTask, AbortRequest, Respond,
         VInv, LInv, PInv, IInv, TypeOK
<1>3. \A g \in Handlers : g # h => req'[g] = req[g]
  BY <1>2
<1>4. /\ req'[h].pc # "idle" => req'[h].decision # "PENDING"
      /\ req'[h].pc = "commit" => taskStatus[req'[h].task] \in {"COMPLETED", "FAILED"}
  <2>1. CASE CheckPending(h)
    BY <1>2, <2>1 DEF CheckPending, Respond
  <2>2. CASE AbortRequest(h)
    BY <1>2, <2>2 DEF AbortRequest, NoReq
  <2>3. CASE FlushDecision(h) \/ RequeueTask(h)
    BY <1>2, <2>3 DEF FlushDecision, RequeueTask, Respond, Requests, VInv, WakeInv
  <2>4. CASE ReadTask(h)
    <3> DEFINE t == req[h].task
    <3>1. /\ req[h].pc = "flushed" /\ req'[h].decision = req[h].decision /\ req'[h].task = t
          /\ req'[h].pc = "commit" => taskStatus[t] # "PAUSED"
      BY <1>2, <2>4 DEF ReadTask, Respond, Requests, Wakes
    <3>2. /\ t \in Tasks /\ planned[t] /\ req[h].step \in StepIds /\ req[h].row \in ApprovalIds
          /\ approvals[t][req[h].step][req[h].row] = "PENDING"
      BY <3>1 DEF VInv, LInv, LiveInv, PInv, IInv, ReqInv
    <3>3. taskStatus[t] \in TaskStatuses /\ taskStatus[t] \notin {"PLANNING", "RUNNING"}
      BY <3>2 DEF VInv, LInv, PInv, IInv, TypeOK, AtRest
    <3>4. taskStatus[t] \notin {"NONE", "QUEUED"}
      BY <3>2 DEF VInv, WakeInv, NoneToDecide
    <3> QED
      BY <3>1, <3>3, <3>4 DEF TaskStatuses, VInv, WakeInv
  <2> QED
    BY <2>1, <2>2, <2>3, <2>4
<1>5. \A v \in Workers : AskedInv(tx[v])'
  BY <1>1 DEF VInv, WakeInv, AskedInv
<1> QED
  BY <1>1, <1>3, <1>4, <1>5 DEF rows, VInv, WakeInv, NoneToDecide, OneToDecide

LEMMA AskCreate ==
    ASSUME VInv, NEW t \in Tasks, CreateTask(t)
    PROVE  WakeInv'
<1>1. /\ taskStatus[t] = "NONE"
      /\ UNCHANGED <<planned, tools, approvals, tx, req>>
      /\ \A u \in Tasks : taskStatus'[u] = IF u = t THEN "QUEUED" ELSE taskStatus[u]
  BY DEF CreateTask, VInv, LInv, PInv, IInv, TypeOK
<1>2. NoneToDecide(t)
  BY <1>1 DEF VInv, WakeInv, LInv, PInv, IInv, DataInv, NoneToDecide
<1>3. \A v \in Workers : AskedInv(tx[v])'
  BY <1>1 DEF VInv, WakeInv, AskedInv
<1>4. \A h \in Handlers : req[h].pc = "commit" => taskStatus'[req[h].task] \in {"COMPLETED", "FAILED"}
  BY <1>1 DEF VInv, WakeInv, LInv, PInv, IInv, ReqInv
<1>5. \A u \in Tasks : /\ (NoneToDecide(u) => NoneToDecide(u)')
                       /\ (OneToDecide(u) => OneToDecide(u)')
  BY <1>1 DEF NoneToDecide, OneToDecide
<1> QED
  BY <1>1, <1>2, <1>3, <1>4, <1>5 DEF VInv, WakeInv

\* The decision that wakes a task decides the only approval it waited for.
LEMMA AskDecide ==
    ASSUME VInv, OnePerTask, NEW h \in Handlers, CommitDecision(h)
    PROVE  WakeInv'
<1>t. PICK t, i, n : t = req[h].task /\ i = req[h].step /\ n = req[h].row
  OBVIOUS
<1>1. /\ t \in Tasks /\ i \in StepIds /\ n \in ApprovalIds /\ req[h].pc \in {"requeued", "commit"}
      /\ req'[h] = NoReq /\ UNCHANGED <<planned, tools, tx>>
      /\ approvals[t][i][n] = "PENDING" /\ req[h].decision # "PENDING"
      /\ req[h].pc = "requeued" => taskStatus[t] = "PAUSED"
      /\ req[h].pc = "commit" => taskStatus[t] \in {"COMPLETED", "FAILED"}
  BY <1>t DEF CommitDecision, VInv, WakeInv, LInv, LiveInv, PInv, IInv, TypeOK, ReqInv
<1>2. /\ \A u \in Tasks, k \in StepIds, m \in ApprovalIds :
           approvals'[u][k][m] = IF u = t /\ k = i /\ m = n THEN req[h].decision
                                 ELSE approvals[u][k][m]
      /\ \A u \in Tasks : taskStatus'[u] = IF u = t /\ req[h].pc = "requeued" THEN "QUEUED"
                                           ELSE taskStatus[u]
  BY <1>t, <1>1 DEF CommitDecision, VInv, LInv, PInv, IInv, TypeOK
<1>3. \A g \in Handlers : req'[g].pc # "idle" => req'[g] = req[g] /\ req[g].task # t
  BY <1>t, OthersElsewhere DEF VInv, LInv, PInv
<1>4. \A v \in Workers : AskedInv(tx[v])'
  BY <1>1 DEF VInv, WakeInv, AskedInv
<1>5. req[h].pc = "requeued" => NoneToDecide(t)'
  <2> SUFFICES ASSUME req[h].pc = "requeued"
               PROVE  NoneToDecide(t)'
    OBVIOUS
  <2>1. \A k \in StepIds, m \in ApprovalIds : approvals[t][k][m] = "PENDING" => k = i /\ m = n
    BY <1>1 DEF VInv, WakeInv, OneToDecide
  <2> QED
    BY <1>1, <1>2, <2>1 DEF NoneToDecide
<1>6. \A u \in Tasks : u # t => /\ (NoneToDecide(u) => NoneToDecide(u)')
                                /\ (OneToDecide(u) => OneToDecide(u)')
  BY <1>2 DEF NoneToDecide, OneToDecide
<1>7. \A u \in Tasks : /\ taskStatus'[u] = "NONE" => ~planned'[u]
                       /\ taskStatus'[u] = "QUEUED" => NoneToDecide(u)'
                       /\ taskStatus'[u] = "PAUSED" => OneToDecide(u)'
  BY <1>1, <1>2, <1>5, <1>6 DEF VInv, WakeInv
<1>8. \A g \in Handlers :
         /\ req'[g].pc # "idle" => req'[g].decision # "PENDING"
         /\ req'[g].pc = "commit" => taskStatus'[req'[g].task] \in {"COMPLETED", "FAILED"}
  <2> SUFFICES ASSUME NEW g \in Handlers, req'[g].pc # "idle"
               PROVE  /\ req'[g].decision # "PENDING"
                      /\ req'[g].pc = "commit" => taskStatus'[req'[g].task] \in {"COMPLETED", "FAILED"}
    OBVIOUS
  <2>1. req'[g] = req[g] /\ req[g].task # t /\ req[g].pc # "idle"
    BY <1>3
  <2>2. req[g].task \in Tasks
    BY <2>1 DEF VInv, LInv, PInv, IInv, ReqInv
  <2> QED
    BY <1>2, <2>1, <2>2 DEF VInv, WakeInv
<1> QED
  BY <1>1, <1>4, <1>7, <1>8 DEF VInv, WakeInv

LEMMA InitVInv == Init => VInv
<1> SUFFICES ASSUME Init
             PROVE  VInv
  OBVIOUS
<1>1. AskedInv(NoTx)
  BY DEF AskedInv, NoTx, FirstToAsk
<1>2. WakeInv
  BY <1>1 DEF Init, WakeInv, FirstToAsk, NoReq
<1> QED
  BY <1>2, InitLInv DEF VInv

LEMMA NextVInv == ASSUME OneGatePerPlan PROVE VInv /\ OnePerTask /\ [Next]_vars => VInv'
<1> SUFFICES ASSUME VInv, OnePerTask, [Next]_vars
             PROVE  VInv'
  OBVIOUS
<1>1. LInv' /\ IInv'
  BY NextLInv DEF VInv, LInv, PInv
<1>2. ASSUME NEW t \in Tasks, CreateTask(t)
      PROVE  WakeInv'
  BY <1>2, AskCreate
<1>3. ASSUME NEW w \in Workers, Work(w) \/ Crash(w) \/ DatabaseError(w)
      PROVE  WakeInv'
  BY <1>1, <1>3, AskPlan, AskStep, AskCommit, AskFault DEF Work
<1>4. ASSUME NEW h \in Handlers, CheckPending(h) \/ Answer(h) \/ AbortRequest(h)
      PROVE  WakeInv'
  BY <1>4, AskRequest, AskDecide DEF Answer
<1>5. CASE UNCHANGED vars
  <2>1. \A w \in Workers : AskedInv(tx[w])'
    BY <1>5 DEF vars, VInv, WakeInv, AskedInv
  <2>2. WakeInv'
    BY <1>5, <2>1 DEF vars, rows, VInv, WakeInv, NoneToDecide, OneToDecide
  <2> QED
    BY <1>1, <2>2 DEF VInv
<1> QED
  BY <1>1, <1>2, <1>3, <1>4, <1>5 DEF Next, VInv

\* A paused task has an approval to decide: whoever answers it wakes the task
\* (agent_loop.py, gateway.py:425).
THEOREM PausedTaskIsWakeable ==
    ASSUME OneGatePerPlan PROVE Spec /\ []OnePerTask => []PausedIsWakeable
<1>1. VInv => PausedIsWakeable
  BY DEF VInv, WakeInv, OneToDecide, PausedIsWakeable
<1> QED
  BY <1>1, InitVInv, NextVInv, PTL DEF Spec
=============================================================================
