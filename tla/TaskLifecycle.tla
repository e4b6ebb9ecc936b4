--------------------------- MODULE TaskLifecycle ---------------------------
(***************************************************************************)
(* What the users of the task API are promised: the life of an agent task  *)
(* as the rows of ops.agent_tasks and ops.agent_steps show it to any other *)
(* transaction.  A task is submitted, driven from one resting status to    *)
(* the next in a single visible step, paused while a human decides, and    *)
(* finished once: COMPLETED and FAILED are final, a VERIFIED step stays    *)
(* verified, a COMPLETED task has no step left to do, and only a FAILED    *)
(* one has a step that ran and was not verified (COMMITTED).  AgentWorker  *)
(* implements this when approvals are decided one request at a time.       *)
(***************************************************************************)
EXTENDS Naturals

CONSTANTS Tasks, MaxSteps

VARIABLES taskStatus, stepStatus

vars == <<taskStatus, stepStatus>>

StepIds == 1..MaxSteps

\* "NONE": the row does not exist (yet).
TaskStatuses == {"NONE", "QUEUED", "PAUSED", "COMPLETED", "FAILED"}
Settled      == {"VERIFIED", "VERIFY_FAILED", "REJECTED"}
StepStatuses == {"NONE", "PENDING", "AUTHORIZED", "COMMITTED"} \cup Settled

\* The first step that is not settled awaits a human.
AwaitsHuman(steps) ==
    \E i \in StepIds : /\ steps[i] = "AUTHORIZED"
                       /\ \A j \in 1..(i - 1) : steps[j] \in Settled

Init ==
    /\ taskStatus = [t \in Tasks |-> "NONE"]
    /\ stepStatus = [t \in Tasks |-> [i \in StepIds |-> "NONE"]]

Submit(t) ==
    /\ taskStatus[t] = "NONE"
    /\ taskStatus' = [taskStatus EXCEPT ![t] = "QUEUED"]
    /\ UNCHANGED stepStatus

\* One run of the agent loop, seen from outside: all its steps at once.
Drive(t) ==
    /\ taskStatus[t] = "QUEUED"
    /\ \E steps \in [StepIds -> StepStatuses] :
         /\ \A i \in StepIds :
              /\ stepStatus[t][i] = "VERIFIED" => steps[i] = "VERIFIED"
              /\ stepStatus[t][i] # "NONE" => steps[i] # "NONE"
         /\ \/ /\ AwaitsHuman(steps) /\ \A i \in StepIds : steps[i] # "COMMITTED"
               /\ taskStatus' = [taskStatus EXCEPT ![t] = "PAUSED"]
            \/ /\ \A i \in StepIds : steps[i] \in Settled \cup {"NONE"}
               /\ taskStatus' = [taskStatus EXCEPT ![t] = "COMPLETED"]
            \/ taskStatus' = [taskStatus EXCEPT ![t] = "FAILED"]
         /\ stepStatus' = [stepStatus EXCEPT ![t] = steps]

Resume(t) ==
    /\ taskStatus[t] = "PAUSED"
    /\ taskStatus' = [taskStatus EXCEPT ![t] = "QUEUED"]
    /\ UNCHANGED stepStatus

Next == \E t \in Tasks : Submit(t) \/ Drive(t) \/ Resume(t)

Spec == Init /\ [][Next]_vars
============================================================================
