--------------------------- MODULE Conversations ---------------------------
(***************************************************************************)
(* Projects, chat sessions and their messages (api_gateway/router.py,      *)
(* api_gateway/projects_api.py, the chat side of create_task).             *)
(*                                                                         *)
(* Every request is one READ COMMITTED transaction.  Its statements see    *)
(* what is committed; its own changes are kept in its record until it      *)
(* commits.  A row that an open transaction refers to by a foreign key is  *)
(* not deleted before that transaction has ended, and a delete that leaves *)
(* a reference behind fails.                                               *)
(***************************************************************************)
EXTENDS Integers, FiniteSets

CONSTANTS
    Requests,    \* the requests clients send, one each
    SessionIds,  \* the ids of sessions
    Projects     \* the ids of projects

VARIABLES
    projects,   \* the committed projects
    sessions,   \* the committed sessions: their project and title
    messages,   \* the committed messages, of the turn of a request
    tasks,      \* the sessions agent tasks refer to
    request     \* the requests and their transactions

conversationVars == <<projects, sessions, messages, tasks, request>>

NoProject == "no project"
NoTitle == "New Chat"
Unused == [state |-> "unused"]
Row(p, title) == [state |-> "there", project |-> p, title |-> title]
DeletedBy(r) == [state |-> "deleted", by |-> r]
There(s) == sessions[s].state = "there"
SessionsOf(p) == {s \in SessionIds : There(s) /\ sessions[s].project = p}
MessagesOf(S) == {m \in messages : m.session \in S}
Turn(r, s) == {[session |-> s, role |-> role, turn |-> r] : role \in {"user", "assistant"}}

Unsent == [op |-> "none", at |-> "new"]
Ended(r, how) == [op |-> request[r].op, at |-> "ended", how |-> how]
End(r, how) == request' = [request EXCEPT ![r] = Ended(r, how)]
At(r, op, at) == request[r].op = op /\ request[r].at = at

ConversationInit ==
    /\ projects = {}
    /\ sessions = [s \in SessionIds |-> Unused]
    /\ messages = {}
    /\ tasks = {}
    /\ request = [r \in Requests |-> Unsent]

-----------------------------------------------------------------------------
\* The sessions an open create_message has written a message for.
Answering == {request[r].session : r \in {q \in Requests : At(q, "create_message", "asked")}}

\* The sessions a delete_project has set free and not committed yet.
Orphaning == UNION {request[r].seen : r \in {q \in Requests :
                 At(q, "delete_project", "orphaned") \/ At(q, "delete_project", "cascaded")}}

CreateProject(r, p) ==
    /\ request[r] = Unsent /\ p \notin projects
    /\ projects' = projects \cup {p}
    /\ request' = [request EXCEPT ![r] = [op |-> "create_project", at |-> "ended", how |-> "done"]]
    /\ UNCHANGED <<sessions, messages, tasks>>

\* create_session: the insert refers to the project, or fails without it.
CreateSession(r, s, p) ==
    /\ request[r] = Unsent /\ sessions[s] = Unused
    /\ \A q \in Requests : At(q, "create_session", "inserted") => request[q].session # s
    /\ p = NoProject \/ p \in projects
    /\ request' = [request EXCEPT ![r] = [op |-> "create_session", at |-> "inserted",
                                          session |-> s, project |-> p]]
    /\ UNCHANGED <<projects, sessions, messages, tasks>>

CommitSession(r) ==
    /\ At(r, "create_session", "inserted")
    /\ sessions' = [sessions EXCEPT ![request[r].session] = Row(request[r].project, NoTitle)]
    /\ End(r, "done")
    /\ UNCHANGED <<projects, messages, tasks>>

-----------------------------------------------------------------------------
\* create_message reads the session; a session that is not there is a 404.
OpenSession(r, s) ==
    /\ request[r] = Unsent /\ There(s)
    /\ request' = [request EXCEPT ![r] = [op |-> "create_message", at |-> "found", session |-> s]]
    /\ UNCHANGED <<projects, sessions, messages, tasks>>

\* It inserts the user's message, which fails if the session is deleted by
\* now, and reads the history.
AskModel(r) ==
    /\ At(r, "create_message", "found")
    /\ LET s == request[r].session
       IN  IF There(s)
           THEN request' = [request EXCEPT ![r] =
                   [op |-> "create_message", at |-> "asked", session |-> s,
                    first |-> Cardinality(MessagesOf({s})) + 1 <= 1]]
           ELSE End(r, "failed")
    /\ UNCHANGED <<projects, sessions, messages, tasks>>

\* Faulty variant: the answer is committed without the question.
AnswerOnly(r) ==
    /\ At(r, "create_message", "asked")
    /\ messages' = messages \cup {m \in Turn(r, request[r].session) : m.role = "assistant"}
    /\ sessions' = [sessions EXCEPT ![request[r].session].title = IF request[r].first THEN r ELSE @]
    /\ End(r, "done")
    /\ UNCHANGED <<projects, tasks>>

\* The answer, or the text of the model's error, is inserted, the title set
\* (which waits for a delete_project of the row), and both are committed.
CommitTurn(r) ==
    LET s == request[r].session
    IN  /\ At(r, "create_message", "asked")
        /\ request[r].first => s \notin Orphaning
        /\ messages' = messages \cup Turn(r, s)
        /\ sessions' = [sessions EXCEPT ![s].title = IF request[r].first THEN r ELSE @]
        /\ End(r, "done")
        /\ UNCHANGED <<projects, tasks>>

\* No model can be chosen (503), the audit entry of the call cannot be
\* written, the commit fails, or the process stops: nothing is committed.
Abandon(r) ==
    /\ request[r].at \notin {"new", "ended"}
    /\ End(r, "failed")
    /\ UNCHANGED <<projects, sessions, messages, tasks>>

\* create_task for a session: the task and two messages, or none of them.
CreateTask(r, s) ==
    /\ request[r] = Unsent /\ There(s)
    /\ tasks' = tasks \cup {s}
    /\ messages' = messages \cup Turn(r, s)
    /\ request' = [request EXCEPT ![r] = [op |-> "create_task", at |-> "ended", how |-> "done"]]
    /\ UNCHANGED <<projects, sessions>>

-----------------------------------------------------------------------------
\* delete_session reads the session and, to cascade, its messages.
FindSession(r, s) ==
    /\ request[r] = Unsent /\ There(s)
    /\ request' = [request EXCEPT ![r] = [op |-> "delete_session", at |-> "marked", session |-> s,
                                          cascade |-> MessagesOf({s})]]
    /\ UNCHANGED <<projects, sessions, messages, tasks>>

\* What keeps rows from being deleted: a task or a message not loaded.
Referred(S, loaded) == S \cap tasks # {} \/ ~(MessagesOf(S) \subseteq loaded)

CommitDeleteSession(r) ==
    LET s == request[r].session
    IN  /\ At(r, "delete_session", "marked")
        /\ s \notin Answering \cup Orphaning
        /\ IF There(s) /\ Referred({s}, request[r].cascade)
             THEN End(r, "failed") /\ UNCHANGED <<sessions, messages>>
             ELSE /\ End(r, "done")
                  /\ messages' = messages \ request[r].cascade
                  /\ sessions' = IF There(s) THEN [sessions EXCEPT ![s] = DeletedBy(r)] ELSE sessions
        /\ UNCHANGED <<projects, tasks>>

-----------------------------------------------------------------------------
\* delete_project reads the project and its sessions;
FindProject(r, p) ==
    /\ request[r] = Unsent /\ p \in projects
    /\ request' = [request EXCEPT ![r] = [op |-> "delete_project", at |-> "found", project |-> p,
                                          seen |-> SessionsOf(p)]]
    /\ UNCHANGED <<projects, sessions, messages, tasks>>

\* writes NULL into them, which fails if one is deleted by now and waits for
\* another transaction that does the same;
OrphanSessions(r) ==
    /\ At(r, "delete_project", "found")
    /\ request[r].seen \cap Orphaning = {}
    /\ IF \A s \in request[r].seen : There(s)
         THEN request' = [request EXCEPT ![r].at = "orphaned"]
         ELSE End(r, "failed")
    /\ UNCHANGED <<projects, sessions, messages, tasks>>

Cascades(r, S) ==
    request' = [request EXCEPT ![r] =
        [op |-> "delete_project", at |-> "cascaded", project |-> @.project, seen |-> @.seen,
         also |-> S, cascade |-> MessagesOf(S)]]

\* Faulty variant: the project is marked for deletion, and its sessions are
\* loaded, before they are orphaned.
CascadeAll(r) ==
    /\ At(r, "delete_project", "orphaned")
    /\ Cascades(r, SessionsOf(request[r].project))
    /\ UNCHANGED <<projects, sessions, messages, tasks>>

\* marks the project for deletion, and with it every session that is the
\* project's NOW, and the messages of those;
CascadeProject(r) ==
    /\ At(r, "delete_project", "orphaned")
    /\ Cascades(r, SessionsOf(request[r].project) \ request[r].seen)
    /\ UNCHANGED <<projects, sessions, messages, tasks>>

\* and deletes them, the project last.
CommitDeleteProject(r) ==
    LET p    == request[r].project
        also == {s \in request[r].also : There(s)}
        late == SessionsOf(p) \ (request[r].seen \cup also)
    IN  /\ At(r, "delete_project", "cascaded")
        /\ also \cap (Answering \cup (Orphaning \ request[r].seen)) = {}
        /\ \A q \in Requests : At(q, "create_session", "inserted") => request[q].project # p
        /\ IF late # {} \/ Referred(also, request[r].cascade)
             THEN End(r, "failed") /\ UNCHANGED <<projects, sessions, messages>>
             ELSE /\ request' = [request EXCEPT ![r].at = "ended"]
                  /\ projects' = projects \ {p}
                  /\ messages' = messages \ request[r].cascade
                  /\ sessions' = [s \in SessionIds |->
                         CASE s \in also -> DeletedBy(r)
                           [] s \in request[r].seen \ also -> [sessions[s] EXCEPT !.project = NoProject]
                           [] OTHER -> sessions[s]]
        /\ UNCHANGED tasks

ConversationNext ==
    \E r \in Requests :
        \/ \E p \in Projects : CreateProject(r, p) \/ FindProject(r, p)
        \/ \E s \in SessionIds :
             \/ \E p \in Projects \cup {NoProject} : CreateSession(r, s, p)
             \/ OpenSession(r, s) \/ CreateTask(r, s) \/ FindSession(r, s)
        \/ CommitSession(r) \/ AskModel(r) \/ CommitTurn(r) \/ Abandon(r)
        \/ CommitDeleteSession(r)
        \/ OrphanSessions(r) \/ CascadeProject(r) \/ CommitDeleteProject(r)

ConversationSpec == ConversationInit /\ [][ConversationNext]_conversationVars

-----------------------------------------------------------------------------
ConversationTypeOK ==
    /\ projects \subseteq Projects /\ tasks \subseteq SessionIds
    /\ \A m \in messages : m.session \in SessionIds /\ m.turn \in Requests
    /\ \A s \in SessionIds : sessions[s].state \in {"unused", "there", "deleted"}
    /\ \A r \in Requests : request[r].at \in
         {"new", "inserted", "found", "asked", "marked", "orphaned", "cascaded", "ended"}

\* What the database holds at any moment is whole: a committed message or
\* task has its session, a session its project, a question its answer and an
\* answer its question, and a title the turn it was taken from.
ConversationsAreWhole ==
    /\ \A s \in tasks \cup {m.session : m \in messages} : There(s)
    /\ \A m \in messages : Turn(m.turn, m.session) \subseteq messages
    /\ \A s \in {t \in SessionIds : There(t)} :
         /\ sessions[s].project \in projects \cup {NoProject}
         /\ sessions[s].title # NoTitle => Turn(sessions[s].title, s) \subseteq messages

\* "Delete a project and orphan its sessions" (projects_api.py:202) holds for
\* the sessions that were the project's when the deletion began: they lose it
\* and are there still, unless somebody deleted them himself.  (A session that
\* was committed in the project later is deleted with its messages.)
OrphansSurvive ==
    \A r \in Requests :
        At(r, "delete_project", "ended") /\ "seen" \in DOMAIN request[r] =>
            \A s \in request[r].seen :
                \/ There(s) /\ sessions[s].project = NoProject
                \/ ~There(s) /\ sessions[s].by # r
=============================================================================
