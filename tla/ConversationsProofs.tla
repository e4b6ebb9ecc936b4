------------------------ MODULE ConversationsProofs ------------------------
(***************************************************************************)
(* Proofs about Conversations, for any number of requests, sessions and    *)
(* projects.                                                               *)
(*                                                                         *)
(* No request locks what it has read.  The database stays whole because of *)
(* two things the invariant states: a session that an open transaction     *)
(* has written for is still there when it commits (WorkedOn), and what a   *)
(* delete cascades over belongs to the sessions it deletes (Cascaded), so  *)
(* that a message it has not loaded makes it fail.                         *)
(***************************************************************************)
EXTENDS Conversations, TLAPS

Messages == [session: SessionIds, role: {"user", "assistant"}, turn: Requests]

SessionRows ==
    {Unused} \cup {DeletedBy(r) : r \in Requests}
      \cup [state: {"there"}, project: Projects \cup {NoProject}, title: Requests \cup {NoTitle}]

Inserted == [op: {"create_session"}, at: {"inserted"}, session: SessionIds,
             project: Projects \cup {NoProject}]
Found    == [op: {"create_message"}, at: {"found"}, session: SessionIds]
Asked    == [op: {"create_message"}, at: {"asked"}, session: SessionIds, first: BOOLEAN]
Marked   == [op: {"delete_session"}, at: {"marked"}, session: SessionIds, cascade: SUBSET Messages]
Deleting == [op: {"delete_project"}, at: {"found", "orphaned"}, project: Projects,
             seen: SUBSET SessionIds]
Deleted  == [op: {"delete_project"}, at: {"cascaded", "ended"}, project: Projects,
             seen: SUBSET SessionIds, also: SUBSET SessionIds, cascade: SUBSET Messages]
Finished == [op: {"create_project", "create_session", "create_message", "create_task",
                  "delete_session", "delete_project"}, at: {"ended"}, how: {"done", "failed"}]

ConversationsTypes ==
    /\ projects \subseteq Projects /\ tasks \subseteq SessionIds /\ messages \subseteq Messages
    /\ sessions \in [SessionIds -> SessionRows]
    /\ request \in [Requests -> {Unsent} \cup Inserted \cup Found \cup Asked \cup Marked
                                  \cup Deleting \cup Deleted \cup Finished]

Whole(s) == sessions[s].title # NoTitle => Turn(sessions[s].title, s) \subseteq messages

HaveSession == \A s \in tasks \cup {m.session : m \in messages} : There(s)
TurnsWhole == \A m \in messages : Turn(m.turn, m.session) \subseteq messages
HaveProject == \A s \in SessionIds : There(s) => sessions[s].project \in projects \cup {NoProject}
TitlesTaken == \A s \in SessionIds : There(s) => Whole(s)

\* An id that is inserted is nobody else's, and the project it refers to stays.
InsertsFresh ==
    \A r \in Requests : request[r] \in Inserted =>
        /\ sessions[request[r].session] = Unused
        /\ request[r].project \in projects \cup {NoProject}
        /\ \A q \in Requests : request[q] \in Inserted /\ request[q].session = request[r].session => q = r

\* A session is there as long as an open transaction has written for it.
StillOrphaning(r) ==
    \/ request[r] \in Deleting /\ request[r].at = "orphaned"
    \/ request[r] \in Deleted /\ request[r].at = "cascaded"

AskedThere == \A r \in Requests : request[r] \in Asked => There(request[r].session)
SeenThere == \A r \in Requests : StillOrphaning(r) => \A s \in request[r].seen : There(s)
SeenUsed == \A r \in Requests : request[r] \in Deleting =>
                \A s \in request[r].seen : sessions[s] # Unused

WorkedOn == AskedThere /\ SeenThere /\ SeenUsed

Cascaded ==
    /\ \A r \in Requests : request[r] \in Marked =>
         \A m \in request[r].cascade : m.session = request[r].session
    /\ \A r \in Requests : request[r] \in Deleted =>
         /\ request[r].also \cap request[r].seen = {}
         /\ \A m \in request[r].cascade : m.session \in request[r].also

\* The sessions a finished deletion has seen outlived it.
Outlived ==
    \A r \in Requests : request[r] \in Deleted /\ request[r].at = "ended" =>
        \A s \in request[r].seen :
            \/ There(s) /\ sessions[s].project = NoProject
            \/ sessions[s].state = "deleted" /\ sessions[s].by # r

ConversationsInv ==
    /\ ConversationsTypes /\ HaveSession /\ TurnsWhole /\ HaveProject /\ TitlesTaken
    /\ InsertsFresh /\ WorkedOn /\ Cascaded /\ Outlived

-----------------------------------------------------------------------------

\* The kinds of requests do not overlap.
LEMMA Kinds ==
    ASSUME ConversationsTypes, NEW r \in Requests
    PROVE  /\ At(r, "create_session", "inserted") <=> request[r] \in Inserted
           /\ At(r, "create_message", "found") <=> request[r] \in Found
           /\ At(r, "create_message", "asked") <=> request[r] \in Asked
           /\ At(r, "delete_session", "marked") <=> request[r] \in Marked
           /\ At(r, "delete_project", "found") <=> request[r] \in Deleting /\ request[r].at = "found"
           /\ At(r, "delete_project", "orphaned") <=> request[r] \in Deleting /\ request[r].at = "orphaned"
           /\ At(r, "delete_project", "cascaded") <=> request[r] \in Deleted /\ request[r].at = "cascaded"
           /\ request[r] = Unsent => request[r] \notin Inserted \cup Found \cup Asked \cup Marked
                                                         \cup Deleting \cup Deleted \cup Finished
           /\ request[r] \in Finished => request[r] \notin Inserted \cup Found \cup Asked \cup Marked
                                                         \cup Deleting \cup Deleted
<1>1. request[r] \in {Unsent} \cup Inserted \cup Found \cup Asked \cup Marked
                       \cup Deleting \cup Deleted \cup Finished
  BY DEF ConversationsTypes
<1>2. CASE request[r] = Unsent
  BY <1>2 DEF At, Unsent, Inserted, Found, Asked, Marked, Deleting, Deleted, Finished
<1>3. CASE request[r] \in Inserted
  BY <1>3 DEF At, Unsent, Inserted, Found, Asked, Marked, Deleting, Deleted, Finished
<1>4. CASE request[r] \in Found
  BY <1>4 DEF At, Unsent, Inserted, Found, Asked, Marked, Deleting, Deleted, Finished
<1>5. CASE request[r] \in Asked
  BY <1>5 DEF At, Unsent, Inserted, Found, Asked, Marked, Deleting, Deleted, Finished
<1>6. CASE request[r] \in Marked
  BY <1>6 DEF At, Unsent, Inserted, Found, Asked, Marked, Deleting, Deleted, Finished
<1>7. CASE request[r] \in Deleting
  BY <1>7 DEF At, Unsent, Inserted, Found, Asked, Marked, Deleting, Deleted, Finished
<1>8. CASE request[r] \in Deleted
  BY <1>8 DEF At, Unsent, Inserted, Found, Asked, Marked, Deleting, Deleted, Finished
<1>9. CASE request[r] \in Finished
  <2>1. DOMAIN request[r] = {"op", "at", "how"} /\ request[r].at = "ended"
    BY <1>9 DEF Finished
  <2>2. request[r] \notin Deleted
    BY <2>1 DEF Deleted
  <2> QED
    BY <1>9, <2>1, <2>2 DEF At, Unsent, Inserted, Found, Asked, Marked, Deleting, Finished
<1> QED
  BY <1>1, <1>2, <1>3, <1>4, <1>5, <1>6, <1>7, <1>8, <1>9
LEMMA RequestFacts ==
    ASSUME ConversationsTypes, NEW r \in Requests, NEW x, request' = [request EXCEPT ![r] = x]
    PROVE  \A q \in Requests : request'[q] = IF q = r THEN x ELSE request[q]
BY DEF ConversationsTypes

\* A request that has failed, or does not concern what the invariant is about,
\* may end at any time.
LEMMA EndStep ==
    ASSUME ConversationsInv, NEW r \in Requests, NEW x \in Finished, request' = [request EXCEPT ![r] = x],
           UNCHANGED <<projects, sessions, messages, tasks>>
    PROVE  ConversationsInv'
<1>1. \A q \in Requests : request'[q] = IF q = r THEN x ELSE request[q]
  BY RequestFacts DEF ConversationsInv
<1>2. x \notin Inserted \cup Asked \cup Marked \cup Deleting \cup Deleted
  <2>1. DOMAIN x = {"op", "at", "how"} /\ x.at = "ended"
    BY DEF Finished
  <2>2. x \notin Deleted
    BY <2>1 DEF Deleted
  <2> QED
    BY <2>1, <2>2 DEF Inserted, Asked, Marked, Deleting
<1>3. ConversationsTypes'
  BY <1>1 DEF ConversationsInv, ConversationsTypes
<1>4. HaveSession' /\ TurnsWhole' /\ HaveProject' /\ TitlesTaken'
  BY DEF ConversationsInv, HaveSession, TurnsWhole, HaveProject, TitlesTaken, Whole, There
<1>5. InsertsFresh'
  BY <1>1, <1>2 DEF ConversationsInv, InsertsFresh
<1>6. WorkedOn'
  BY <1>1, <1>2 DEF ConversationsInv, WorkedOn, AskedThere, SeenThere, SeenUsed, StillOrphaning, There
<1>7. Cascaded' /\ Outlived'
  BY <1>1, <1>2 DEF ConversationsInv, Cascaded, Outlived, There
<1> QED
  BY <1>3, <1>4, <1>5, <1>6, <1>7 DEF ConversationsInv

LEMMA EndIs ==
    ASSUME ConversationsInv, NEW r \in Requests, request[r] \in Inserted \cup Found \cup Asked \cup Marked \cup Deleting \cup Deleted,
           NEW how \in {"done", "failed"}, End(r, how)
    PROVE  \E x \in Finished : request' = [request EXCEPT ![r] = x]
BY DEF End, Ended, Finished, Inserted, Found, Asked, Marked, Deleting, Deleted

\* What the invariant asks of a request that goes on.
MayBecome(r, x) ==
    /\ x \in Inserted \cup Found \cup Asked \cup Marked \cup Deleting \cup Deleted
    /\ x \in Inserted => /\ sessions[x.session] = Unused
                         /\ x.project \in projects \cup {NoProject}
                         /\ \A q \in Requests \ {r} : request[q] \in Inserted => request[q].session # x.session
    /\ x \in Asked => There(x.session)
    /\ x \in Deleting => \A s \in x.seen : sessions[s] # Unused
    /\ (x \in Deleting /\ x.at = "orphaned") \/ (x \in Deleted /\ x.at = "cascaded") =>
          \A s \in x.seen : There(s)
    /\ x \in Marked => \A m \in x.cascade : m.session = x.session
    /\ x \in Deleted => /\ x.at = "cascaded" /\ x.also \cap x.seen = {}
                        /\ \A m \in x.cascade : m.session \in x.also

\* A request goes on, and only its own record changes.
LEMMA GoOnStep ==
    ASSUME ConversationsInv, NEW r \in Requests, NEW x, request' = [request EXCEPT ![r] = x],
           UNCHANGED <<projects, sessions, messages, tasks>>, MayBecome(r, x)
    PROVE  ConversationsInv'
<1>0. ConversationsTypes
  BY DEF ConversationsInv
<1>1. \A q \in Requests : request'[q] = IF q = r THEN x ELSE request[q]
  BY <1>0, RequestFacts, Zenon
<1>2. ConversationsTypes'
  BY <1>1 DEF ConversationsInv, ConversationsTypes, MayBecome
<1>3. HaveSession' /\ TurnsWhole' /\ HaveProject' /\ TitlesTaken'
  BY DEF ConversationsInv, HaveSession, TurnsWhole, HaveProject, TitlesTaken, Whole, There
<1>4. InsertsFresh'
  BY <1>1 DEF ConversationsInv, InsertsFresh, MayBecome
<1>5. WorkedOn'
  BY <1>1 DEF ConversationsInv, WorkedOn, AskedThere, SeenThere, SeenUsed, StillOrphaning, There, MayBecome
<1>6. Cascaded'
  BY <1>1 DEF ConversationsInv, Cascaded, MayBecome
<1>7. Outlived'
  BY <1>1 DEF ConversationsInv, Outlived, There, MayBecome
<1> QED
  BY <1>2, <1>3, <1>4, <1>5, <1>6, <1>7 DEF ConversationsInv

-----------------------------------------------------------------------------

LEMMA ConversationsInitStep == ConversationInit => ConversationsInv
<1> SUFFICES ASSUME ConversationInit PROVE ConversationsInv
  OBVIOUS
<1>1. /\ projects = {} /\ messages = {} /\ tasks = {}
      /\ sessions = [s \in SessionIds |-> Unused] /\ request = [r \in Requests |-> Unsent]
  BY DEF ConversationInit
<1>2. \A s \in SessionIds : ~There(s)
  BY <1>1 DEF There, Unused
<1>3. ConversationsTypes
  BY <1>1 DEF ConversationsTypes, SessionRows
<1>4. \A r \in Requests : request[r] \notin Inserted \cup Asked \cup Marked \cup Deleting \cup Deleted
  BY <1>1, <1>3, Kinds
<1> QED
  BY <1>1, <1>2, <1>3, <1>4 DEF ConversationsInv, HaveSession, TurnsWhole, HaveProject, TitlesTaken,
     InsertsFresh, WorkedOn, AskedThere, SeenThere, SeenUsed, StillOrphaning, Cascaded, Outlived

LEMMA CreateProjectStep ==
    ASSUME ConversationsInv, NEW r \in Requests, NEW p \in Projects, CreateProject(r, p)
    PROVE  ConversationsInv'
<1> DEFINE x == [op |-> "create_project", at |-> "ended", how |-> "done"]
<1>1. /\ request' = [request EXCEPT ![r] = x] /\ projects' = projects \cup {p}
      /\ sessions' = sessions /\ messages' = messages /\ tasks' = tasks
  BY DEF CreateProject
<1>2. x \in Finished
  BY DEF Finished
<1> HIDE DEF x
<1>3. \A q \in Requests : request'[q] = IF q = r THEN x ELSE request[q]
  BY <1>1, RequestFacts DEF ConversationsInv
<1>4. x \notin Inserted \cup Asked \cup Marked \cup Deleting \cup Deleted
  <2>1. DOMAIN x = {"op", "at", "how"} /\ x.at = "ended"
    BY <1>2 DEF Finished
  <2>2. x \notin Deleted
    BY <2>1 DEF Deleted
  <2> QED
    BY <2>1, <2>2 DEF Inserted, Asked, Marked, Deleting
<1>5. ConversationsTypes'
  BY <1>1, <1>2, <1>3 DEF ConversationsInv, ConversationsTypes
<1>6. HaveSession' /\ TurnsWhole' /\ HaveProject' /\ TitlesTaken'
  BY <1>1 DEF ConversationsInv, HaveSession, TurnsWhole, HaveProject, TitlesTaken, Whole, There
<1>7. InsertsFresh'
  BY <1>1, <1>3, <1>4 DEF ConversationsInv, InsertsFresh
<1>8. WorkedOn' /\ Cascaded' /\ Outlived'
  BY <1>1, <1>3, <1>4 DEF ConversationsInv, WorkedOn, AskedThere, SeenThere, SeenUsed, StillOrphaning,
     Cascaded, Outlived, There
<1> QED
  BY <1>5, <1>6, <1>7, <1>8 DEF ConversationsInv

LEMMA CreateSessionStep ==
    ASSUME ConversationsInv, NEW r \in Requests, NEW s \in SessionIds, NEW p \in Projects \cup {NoProject},
           CreateSession(r, s, p)
    PROVE  ConversationsInv'
<1> DEFINE x == [op |-> "create_session", at |-> "inserted", session |-> s, project |-> p]
<1>1. /\ request' = [request EXCEPT ![r] = x]
      /\ UNCHANGED <<projects, sessions, messages, tasks>>
      /\ sessions[s] = Unused /\ p \in projects \cup {NoProject}
      /\ \A q \in Requests : At(q, "create_session", "inserted") => request[q].session # s
  BY DEF CreateSession
<1>2. x \in Inserted /\ x.session = s /\ x.project = p /\ x.op = "create_session"
  BY DEF Inserted
<1>3. \A q \in Requests : request[q] \in Inserted => request[q].session # s
  BY <1>1, Kinds DEF ConversationsInv
<1>4. x \notin Asked \cup Marked \cup Deleting \cup Deleted
  BY <1>2 DEF Asked, Marked, Deleting, Deleted
<1> HIDE DEF x
<1> QED
  BY <1>1, <1>2, <1>3, <1>4, GoOnStep DEF MayBecome

LEMMA FindStep ==
    ASSUME ConversationsInv, NEW r \in Requests, NEW s \in SessionIds, OpenSession(r, s) \/ FindSession(r, s)
    PROVE  ConversationsInv'
<1>0. UNCHANGED <<projects, sessions, messages, tasks>>
  BY DEF OpenSession, FindSession
<1>1. CASE OpenSession(r, s)
  <2> DEFINE x == [op |-> "create_message", at |-> "found", session |-> s]
  <2>1. request' = [request EXCEPT ![r] = x]
    BY <1>1 DEF OpenSession
  <2>2. x \in Found
    BY DEF Found
  <2>3. x \notin Inserted \cup Asked \cup Marked \cup Deleting \cup Deleted
    BY DEF Inserted, Asked, Marked, Deleting, Deleted
  <2> HIDE DEF x
  <2> QED
    BY <1>0, <2>1, <2>2, <2>3, GoOnStep DEF MayBecome
<1>2. CASE FindSession(r, s)
  <2> DEFINE x == [op |-> "delete_session", at |-> "marked", session |-> s, cascade |-> MessagesOf({s})]
  <2>1. request' = [request EXCEPT ![r] = x]
    BY <1>2 DEF FindSession
  <2>2. /\ x \in Marked /\ x.session = s /\ x.cascade = MessagesOf({s})
    BY DEF Marked, MessagesOf, ConversationsInv, ConversationsTypes
  <2>3. x \notin Inserted \cup Asked \cup Deleting \cup Deleted
    BY DEF Inserted, Asked, Deleting, Deleted
  <2>4. \A m \in x.cascade : m.session = x.session
    BY <2>2 DEF MessagesOf
  <2> HIDE DEF x
  <2> QED
    BY <1>0, <2>1, <2>2, <2>3, <2>4, GoOnStep DEF MayBecome
<1> QED
  BY <1>1, <1>2

LEMMA AskStep == ASSUME ConversationsInv, NEW r \in Requests, AskModel(r) PROVE ConversationsInv'
<1> DEFINE s == request[r].session
           x == [op |-> "create_message", at |-> "asked", session |-> s,
                 first |-> Cardinality(MessagesOf({s})) + 1 <= 1]
<1>0. request[r] \in Found /\ s \in SessionIds /\ UNCHANGED <<projects, sessions, messages, tasks>>
  BY Kinds DEF AskModel, ConversationsInv, Found
<1>1. CASE There(s)
  <2>1. request' = [request EXCEPT ![r] = x]
    BY <1>1 DEF AskModel
  <2>2. x \in Asked /\ x.session = s
    BY <1>0 DEF Asked
  <2>3. x \notin Inserted \cup Marked \cup Deleting \cup Deleted
    BY DEF Inserted, Marked, Deleting, Deleted
  <2> HIDE DEF x
  <2> QED
    BY <1>0, <1>1, <2>1, <2>2, <2>3, GoOnStep DEF MayBecome
<1>2. CASE ~There(s)
  <2>1. End(r, "failed")
    BY <1>2 DEF AskModel
  <2> QED
    BY <1>0, <2>1, EndIs, EndStep
<1> QED
  BY <1>1, <1>2

LEMMA AbandonStep == ASSUME ConversationsInv, NEW r \in Requests, Abandon(r) PROVE ConversationsInv'
<1>1. request[r] \in Inserted \cup Found \cup Asked \cup Marked \cup Deleting \cup Deleted
  BY DEF Abandon, ConversationsInv, ConversationsTypes, Unsent, Finished
<1> QED
  BY <1>1, EndIs, EndStep DEF Abandon
\* What a committed transaction leaves: a request that has ended.
LEMMA FinishedFacts ==
    ASSUME NEW x \in Finished
    PROVE  x \notin Inserted \cup Asked \cup Marked \cup Deleting \cup Deleted
<1>1. DOMAIN x = {"op", "at", "how"} /\ x.at = "ended"
  BY DEF Finished
<1>2. x \notin Deleted
  BY <1>1 DEF Deleted
<1> QED
  BY <1>1, <1>2 DEF Inserted, Asked, Marked, Deleting

\* Whoever works on a session that stays goes on to do so.
LEMMA WorkGoesOn ==
    ASSUME ConversationsInv, NEW r \in Requests, NEW x, request' = [request EXCEPT ![r] = x],
           x \notin Asked \cup Deleting, ~(x \in Deleted /\ x.at = "cascaded"),
           \A t \in SessionIds : sessions[t].state = "there" => sessions'[t].state = "there",
           \A t \in SessionIds : sessions[t] # Unused => sessions'[t] # Unused
    PROVE  WorkedOn'
<1>0. ConversationsTypes /\ AskedThere /\ SeenThere /\ SeenUsed
  BY DEF ConversationsInv, WorkedOn
<1>1. \A q \in Requests : request'[q] = IF q = r THEN x ELSE request[q]
  BY <1>0, RequestFacts, Zenon
<1>2. /\ \A q \in Requests : request[q] \in Asked => request[q].session \in SessionIds
      /\ \A q \in Requests : request[q] \in Deleting \cup Deleted => request[q].seen \subseteq SessionIds
  BY DEF Asked, Deleting, Deleted
<1>3. AskedThere'
  <2> SUFFICES ASSUME NEW q \in Requests, request'[q] \in Asked
               PROVE  sessions'[request'[q].session].state = "there"
    BY DEF AskedThere, There
  <2>1. request'[q] = request[q]
    BY <1>1
  <2>2. request[q] \in Asked
    BY <2>1
  <2>3. sessions[request[q].session].state = "there"
    BY <1>0, <2>2 DEF AskedThere, There
  <2>4. request[q].session \in SessionIds
    BY <1>2, <2>2
  <2> QED
    BY <2>1, <2>3, <2>4
<1>4. SeenThere'
  <2> SUFFICES ASSUME NEW q \in Requests, StillOrphaning(q)', NEW s \in request'[q].seen
               PROVE  sessions'[s].state = "there"
    BY DEF SeenThere, There
  <2>1. request'[q] = request[q]
    BY <1>1 DEF StillOrphaning
  <2>2. StillOrphaning(q)
    BY <2>1 DEF StillOrphaning
  <2>3. sessions[s].state = "there"
    BY <1>0, <2>1, <2>2 DEF SeenThere, There
  <2>4. s \in SessionIds
    BY <1>2, <2>1, <2>2 DEF StillOrphaning
  <2> QED
    BY <2>3, <2>4
<1>5. SeenUsed'
  <2> SUFFICES ASSUME NEW q \in Requests, request'[q] \in Deleting, NEW s \in request'[q].seen
               PROVE  sessions'[s] # Unused
    BY DEF SeenUsed
  <2>1. request'[q] = request[q]
    BY <1>1
  <2>2. sessions[s] # Unused /\ s \in SessionIds
    BY <1>0, <1>2, <2>1 DEF SeenUsed
  <2> QED
    BY <2>2
<1> QED
  BY <1>3, <1>4, <1>5 DEF WorkedOn

\* A turn is committed to a session that is there, perhaps with a task and
\* perhaps with its title.
LEMMA TurnStep ==
    ASSUME ConversationsInv, NEW r \in Requests, NEW x \in Finished, request' = [request EXCEPT ![r] = x],
           NEW s \in SessionIds, There(s),
           projects' = projects, tasks' \in {tasks, tasks \cup {s}},
           messages' = messages \cup Turn(r, s),
           sessions' = sessions \/ sessions' = [sessions EXCEPT ![s].title = r]
    PROVE  ConversationsInv'
<1>0. ConversationsTypes
  BY DEF ConversationsInv
<1>1. \A q \in Requests : request'[q] = IF q = r THEN x ELSE request[q]
  BY <1>0, RequestFacts, Zenon
<1>2. x \notin Inserted \cup Asked \cup Marked \cup Deleting \cup Deleted
  BY FinishedFacts
<1>3. /\ Turn(r, s) \subseteq Messages
      /\ \A m \in Turn(r, s) : m.session = s /\ m.turn = r
  BY DEF Turn, Messages
<1>4. /\ \A t \in SessionIds : t # s => sessions'[t] = sessions[t]
      /\ sessions'[s].state = "there" /\ sessions[s].state = "there"
      /\ sessions'[s].project = sessions[s].project
      /\ sessions'[s].title = sessions[s].title \/ sessions'[s].title = r
      /\ sessions[s] # Unused /\ sessions'[s] # Unused
      /\ \A t \in SessionIds : There(t)' <=> There(t)
  <2>1. sessions[s] \in [state: {"there"}, project: Projects \cup {NoProject}, title: Requests \cup {NoTitle}]
    BY <1>0 DEF ConversationsTypes, There, SessionRows, Unused, DeletedBy
  <2>2. \A t \in SessionIds : t # s => sessions'[t] = sessions[t]
    BY <1>0 DEF ConversationsTypes
  <2>3. sessions'[s] = sessions[s] \/ sessions'[s] = [sessions[s] EXCEPT !.title = r]
    BY <1>0 DEF ConversationsTypes
  <2>4. /\ sessions'[s].state = "there" /\ sessions[s].state = "there"
        /\ sessions'[s].project = sessions[s].project
        /\ sessions'[s].title = sessions[s].title \/ sessions'[s].title = r
    BY <2>1, <2>3
  <2> QED
    BY <2>2, <2>4 DEF There, Unused
<1>5. sessions' \in [SessionIds -> SessionRows]
  <2>1. sessions[s] \in [state: {"there"}, project: Projects \cup {NoProject}, title: Requests \cup {NoTitle}]
    BY <1>0 DEF ConversationsTypes, There, SessionRows, Unused, DeletedBy
  <2>2. [sessions[s] EXCEPT !.title = r] \in SessionRows
    BY <2>1 DEF SessionRows
  <2> QED
    BY <1>0, <2>2 DEF ConversationsTypes
<1>6. ConversationsTypes'
  BY <1>0, <1>1, <1>3, <1>5 DEF ConversationsTypes
<1>7. HaveSession' /\ HaveProject'
  <2>1. \A m \in messages : m.session \in SessionIds
    BY <1>0 DEF ConversationsTypes, Messages
  <2>2. HaveSession'
    BY <1>0, <1>3, <1>4, <2>1 DEF ConversationsInv, HaveSession, ConversationsTypes
  <2>3. HaveProject'
    BY <1>4 DEF ConversationsInv, HaveProject
  <2> QED
    BY <2>2, <2>3
<1>8. TurnsWhole'
  BY <1>3 DEF ConversationsInv, TurnsWhole
<1>9. TitlesTaken'
  BY <1>4 DEF ConversationsInv, TitlesTaken, Whole
<1>10. InsertsFresh'
  <2>1. \A q \in Requests : request[q] \in Inserted => request[q].session \in SessionIds
    BY DEF Inserted
  <2> QED
    BY <1>1, <1>2, <1>4, <2>1 DEF ConversationsInv, InsertsFresh, Unused
<1>11. WorkedOn'
  <2>1. \A t \in SessionIds : sessions[t].state = "there" => sessions'[t].state = "there"
    BY <1>4 DEF There
  <2>2. \A t \in SessionIds : sessions[t] # Unused => sessions'[t] # Unused
    BY <1>4
  <2> QED
    BY <1>2, <2>1, <2>2, WorkGoesOn
<1>12. Cascaded'
  BY <1>1, <1>2 DEF ConversationsInv, Cascaded
<1>13. Outlived'
  <2>1. \A q \in Requests : request[q] \in Deleted => request[q].seen \subseteq SessionIds
    BY DEF Deleted
  <2>2. ASSUME NEW q \in Requests, request[q] \in Deleted, request[q].at = "ended", NEW t \in request[q].seen
        PROVE  \/ There(t)' /\ sessions'[t].project = NoProject
               \/ sessions'[t].state = "deleted" /\ sessions'[t].by # q
    <3>1. \/ There(t) /\ sessions[t].project = NoProject
          \/ sessions[t].state = "deleted" /\ sessions[t].by # q
      BY <2>2 DEF ConversationsInv, Outlived
    <3>2. CASE t = s
      BY <3>1, <3>2, <1>4
    <3>3. CASE t # s
      BY <3>1, <3>3, <2>1, <2>2, <1>4 DEF There
    <3> QED
      BY <3>2, <3>3
  <2> QED
    BY <1>1, <1>2, <2>2 DEF Outlived
<1> QED
  BY <1>6, <1>7, <1>8, <1>9, <1>10, <1>11, <1>12, <1>13 DEF ConversationsInv

LEMMA CreateTaskStep ==
    ASSUME ConversationsInv, NEW r \in Requests, NEW s \in SessionIds, CreateTask(r, s)
    PROVE  ConversationsInv'
<1> DEFINE x == [op |-> "create_task", at |-> "ended", how |-> "done"]
<1>1. /\ request' = [request EXCEPT ![r] = x] /\ There(s)
      /\ tasks' = tasks \cup {s} /\ messages' = messages \cup Turn(r, s)
      /\ projects' = projects /\ sessions' = sessions
  BY DEF CreateTask
<1>2. x \in Finished
  BY DEF Finished
<1> HIDE DEF x
<1> QED
  BY <1>1, <1>2, TurnStep

LEMMA CommitTurnStep == ASSUME ConversationsInv, NEW r \in Requests, CommitTurn(r) PROVE ConversationsInv'
<1> DEFINE s == request[r].session
<1>1. request[r] \in Asked /\ s \in SessionIds /\ There(s)
  BY Kinds DEF CommitTurn, ConversationsInv, Asked, WorkedOn, AskedThere
<1>2. PICK x \in Finished : request' = [request EXCEPT ![r] = x]
  BY <1>1, EndIs DEF CommitTurn
<1>3. /\ projects' = projects /\ tasks' = tasks /\ messages' = messages \cup Turn(r, s)
      /\ sessions' = [sessions EXCEPT ![s].title = IF request[r].first THEN r ELSE @]
  BY DEF CommitTurn
<1>4. sessions' = sessions \/ sessions' = [sessions EXCEPT ![s].title = r]
  <2>1. CASE request[r].first
    BY <2>1, <1>3
  <2>2. CASE ~request[r].first
    <3>1. sessions[s] \in [state: {"there"}, project: Projects \cup {NoProject}, title: Requests \cup {NoTitle}]
      BY <1>1 DEF ConversationsInv, ConversationsTypes, There, SessionRows, Unused, DeletedBy
    <3>2. sessions' = [sessions EXCEPT ![s] = [sessions[s] EXCEPT !.title = sessions[s].title]]
      BY <2>2, <1>3
    <3>3. [sessions[s] EXCEPT !.title = sessions[s].title] = sessions[s]
      BY <3>1
    <3> QED
      BY <3>2, <3>3, <1>1 DEF ConversationsInv, ConversationsTypes
  <2> QED
    BY <2>1, <2>2
<1> HIDE DEF s
<1> QED
  BY <1>1, <1>2, <1>3, <1>4, TurnStep

LEMMA CommitSessionStep == ASSUME ConversationsInv, NEW r \in Requests, CommitSession(r) PROVE ConversationsInv'
<1> DEFINE s == request[r].session
           p == request[r].project
<1>0. ConversationsTypes
  BY DEF ConversationsInv
<1>1. /\ request[r] \in Inserted /\ s \in SessionIds /\ p \in Projects \cup {NoProject}
      /\ sessions[s] = Unused /\ p \in projects \cup {NoProject}
      /\ \A q \in Requests \ {r} : request[q] \in Inserted => request[q].session # s
  BY <1>0, Kinds DEF CommitSession, Inserted, ConversationsInv, InsertsFresh
<1>2. PICK x \in Finished : request' = [request EXCEPT ![r] = x]
  BY <1>1, EndIs DEF CommitSession
<1>3. /\ projects' = projects /\ tasks' = tasks /\ messages' = messages
      /\ sessions' = [sessions EXCEPT ![s] = Row(p, NoTitle)]
  BY DEF CommitSession
<1> HIDE DEF s, p
<1>4. \A q \in Requests : request'[q] = IF q = r THEN x ELSE request[q]
  BY <1>0, <1>2, RequestFacts, Zenon
<1>5. x \notin Inserted \cup Asked \cup Marked \cup Deleting \cup Deleted
  BY FinishedFacts
<1>6. /\ \A t \in SessionIds : t # s => sessions'[t] = sessions[t]
      /\ sessions'[s] = Row(p, NoTitle) /\ sessions'[s] # Unused
      /\ sessions'[s].project = p /\ sessions'[s].title = NoTitle
      /\ ~There(s) /\ sessions'[s].state = "there" /\ sessions[s].state # "deleted"
      /\ \A t \in SessionIds : There(t) => There(t)'
  <2>1. \A t \in SessionIds : sessions'[t] = IF t = s THEN Row(p, NoTitle) ELSE sessions[t]
    BY <1>0, <1>1, <1>3 DEF ConversationsTypes
  <2>2. /\ Row(p, NoTitle).state = "there" /\ Row(p, NoTitle).project = p
        /\ Row(p, NoTitle).title = NoTitle /\ Unused.state = "unused"
    BY DEF Row, Unused
  <2>3. sessions'[s] = Row(p, NoTitle) /\ sessions'[s] # Unused
    BY <1>1, <2>1, <2>2
  <2> QED
    BY <1>1, <2>1, <2>2, <2>3 DEF There
<1>7. ConversationsTypes'
  BY <1>0, <1>1, <1>2, <1>3 DEF ConversationsTypes, Row, SessionRows
<1>8. HaveSession' /\ TurnsWhole'
  <2>1. \A m \in messages : m.session \in SessionIds
    BY <1>0 DEF ConversationsTypes, Messages
  <2> QED
    BY <1>0, <1>3, <1>6, <2>1 DEF ConversationsInv, HaveSession, TurnsWhole, ConversationsTypes
<1>9. HaveProject' /\ TitlesTaken'
  <2>1. ASSUME NEW t \in SessionIds, There(t)', t # s
        PROVE  There(t) /\ sessions'[t] = sessions[t]
    BY <2>1, <1>6 DEF There
  <2> QED
    BY <1>1, <1>3, <1>6, <2>1 DEF ConversationsInv, HaveProject, TitlesTaken, Whole
<1>10. InsertsFresh'
  <2>1. \A q \in Requests : request[q] \in Inserted => request[q].session \in SessionIds
    BY DEF Inserted
  <2> QED
    BY <1>1, <1>3, <1>4, <1>5, <1>6, <2>1 DEF ConversationsInv, InsertsFresh
<1>11. WorkedOn'
  <2>1. \A t \in SessionIds : sessions[t].state = "there" => sessions'[t].state = "there"
    BY <1>6 DEF There
  <2>2. \A t \in SessionIds : sessions[t] # Unused => sessions'[t] # Unused
    BY <1>6
  <2> QED
    BY <1>2, <1>5, <2>1, <2>2, WorkGoesOn
<1>12. Cascaded'
  BY <1>4, <1>5 DEF ConversationsInv, Cascaded
<1>13. Outlived'
  <2>1. \A q \in Requests : request[q] \in Deleted => request[q].seen \subseteq SessionIds
    BY DEF Deleted
  <2>2. ASSUME NEW q \in Requests, request[q] \in Deleted, request[q].at = "ended", NEW t \in request[q].seen
        PROVE  \/ There(t)' /\ sessions'[t].project = NoProject
               \/ sessions'[t].state = "deleted" /\ sessions'[t].by # q
    <3>1. \/ There(t) /\ sessions[t].project = NoProject
          \/ sessions[t].state = "deleted" /\ sessions[t].by # q
      BY <2>2 DEF ConversationsInv, Outlived
    <3>2. t # s
      BY <3>1, <1>6
    <3> QED
      BY <3>1, <3>2, <2>1, <2>2, <1>6 DEF There
  <2> QED
    BY <1>4, <1>5, <2>2 DEF Outlived
<1> QED
  BY <1>7, <1>8, <1>9, <1>10, <1>11, <1>12, <1>13 DEF ConversationsInv

-----------------------------------------------------------------------------

\* The sessions somebody else than r works on.
Busy(r) == {s \in SessionIds : \E q \in Requests \ {r} :
              \/ request[q] \in Asked /\ request[q].session = s
              \/ StillOrphaning(q) /\ s \in request[q].seen}

\* What a deletion commits: the sessions gone are deleted with all their
\* messages, the sessions freed lose their project, and nobody else refers to
\* what is deleted.
Removes(r, x, gone, freed) ==
    /\ gone \in SUBSET SessionIds /\ freed \in SUBSET SessionIds
    /\ gone \cap freed = {} /\ gone \cap tasks = {} /\ gone \cap Busy(r) = {}
    /\ \A s \in gone \cup freed : sessions[s].state = "there"
    /\ messages' = {m \in messages : m.session \notin gone}
    /\ sessions' = [s \in SessionIds |->
                      IF s \in gone THEN DeletedBy(r)
                      ELSE IF s \in freed THEN [sessions[s] EXCEPT !.project = NoProject]
                      ELSE sessions[s]]
    /\ projects' \subseteq projects /\ tasks' = tasks
    /\ \A s \in SessionIds \ (gone \cup freed) :
          sessions[s].state = "there" => sessions[s].project \in projects' \cup {NoProject}
    /\ \A q \in Requests \ {r} :
          request[q] \in Inserted => request[q].project \in projects' \cup {NoProject}
    /\ \/ x \in Finished
       \/ /\ x \in Deleted /\ x.at = "ended" /\ x.seen = freed /\ x.also \cap x.seen = {}
          /\ \A m \in x.cascade : m.session \in x.also

LEMMA RemoveStep ==
    ASSUME ConversationsInv, NEW r \in Requests, NEW x, request' = [request EXCEPT ![r] = x],
           NEW gone, NEW freed, Removes(r, x, gone, freed)
    PROVE  ConversationsInv'
<1>0. ConversationsTypes
  BY DEF ConversationsInv
<1>1. \A q \in Requests : request'[q] = IF q = r THEN x ELSE request[q]
  BY <1>0, RequestFacts, Zenon
<1>2. /\ x \notin Inserted \cup Asked \cup Marked \cup Deleting
      /\ x \in Deleted => x.at = "ended"
  <2>1. CASE x \in Finished
    BY <2>1, FinishedFacts
  <2>2. CASE x \in Deleted /\ x.at = "ended"
    BY <2>2 DEF Deleted, Inserted, Asked, Marked, Deleting
  <2> QED
    BY <2>1, <2>2 DEF Removes
<1>3. /\ \A s \in freed : s \in SessionIds /\ s \notin gone /\ sessions[s].state = "there"
      /\ \A s \in gone : s \in SessionIds /\ s \notin freed /\ s \notin tasks /\ sessions[s].state = "there"
  BY DEF Removes
<1>4. \A s \in SessionIds : sessions[s].state = "there" =>
         sessions[s] \in [state: {"there"}, project: Projects \cup {NoProject}, title: Requests \cup {NoTitle}]
  BY <1>0 DEF ConversationsTypes, SessionRows, Unused, DeletedBy
<1>5. /\ \A s \in SessionIds \ (gone \cup freed) : sessions'[s] = sessions[s]
      /\ \A s \in gone : sessions'[s] = DeletedBy(r) /\ sessions'[s].state = "deleted" /\ sessions'[s].by = r
      /\ \A s \in freed : /\ sessions'[s] \in SessionRows
                          /\ sessions'[s].state = "there" /\ sessions'[s].project = NoProject
                          /\ sessions'[s].title = sessions[s].title
  <2>1. \A s \in freed : sessions'[s] = [sessions[s] EXCEPT !.project = NoProject]
    BY <1>3 DEF Removes
  <2>2. \A s \in freed : /\ sessions'[s] \in SessionRows
                         /\ sessions'[s].state = "there" /\ sessions'[s].project = NoProject
                         /\ sessions'[s].title = sessions[s].title
    BY <1>3, <1>4, <2>1 DEF SessionRows
  <2>3. \A s \in gone : sessions'[s] = DeletedBy(r)
    BY <1>3 DEF Removes
  <2>4. \A s \in gone : sessions'[s].state = "deleted" /\ sessions'[s].by = r
    BY <2>3 DEF DeletedBy
  <2>5. \A s \in SessionIds \ (gone \cup freed) : sessions'[s] = sessions[s]
    BY DEF Removes
  <2> QED
    BY <2>2, <2>3, <2>4, <2>5
<1>6. /\ \A s \in SessionIds : sessions'[s] \in SessionRows
      /\ \A s \in SessionIds \ gone : sessions[s].state = "there" => sessions'[s].state = "there"
      /\ \A s \in SessionIds : sessions'[s].state = "there" =>
            /\ sessions[s].state = "there" /\ s \notin gone
            /\ sessions'[s].title = sessions[s].title
            /\ sessions'[s].project = sessions[s].project \/ sessions'[s].project = NoProject
      /\ \A s \in SessionIds : sessions[s] # Unused => sessions'[s] # Unused
      /\ \A s \in SessionIds : sessions[s] = Unused => sessions'[s] = Unused
  BY <1>0, <1>3, <1>5 DEF ConversationsTypes, SessionRows, Unused
<1>7. ConversationsTypes'
  <2>1. x \in Finished \cup Deleted /\ DOMAIN sessions' = SessionIds /\ projects' \subseteq projects
        /\ messages' \subseteq messages /\ tasks' = tasks
        /\ sessions' = [s \in SessionIds |-> sessions'[s]]
    BY DEF Removes
  <2> QED
    BY <1>0, <1>1, <1>6, <2>1 DEF ConversationsTypes
<1>8. HaveSession' /\ TurnsWhole'
  <2>1. \A m \in messages : m.session \in SessionIds
    BY <1>0 DEF ConversationsTypes, Messages
  <2>2. messages' = {m \in messages : m.session \notin gone} /\ tasks' = tasks /\ tasks \subseteq SessionIds
    BY <1>0 DEF Removes, ConversationsTypes
  <2>3. HaveSession'
    BY <1>3, <1>6, <2>1, <2>2 DEF ConversationsInv, HaveSession, There
  <2>4. \A q, s : \A m \in Turn(q, s) : m.session = s
    BY DEF Turn
  <2>5. TurnsWhole'
    BY <2>2, <2>4 DEF ConversationsInv, TurnsWhole
  <2> QED
    BY <2>3, <2>5
<1>9. HaveProject'
  <2> SUFFICES ASSUME NEW s \in SessionIds, sessions'[s].state = "there"
               PROVE  sessions'[s].project \in projects' \cup {NoProject}
    BY DEF HaveProject, There
  <2>1. CASE s \in freed
    BY <2>1, <1>5
  <2>2. CASE s \notin freed
    BY <2>2, <1>5, <1>6 DEF Removes
  <2> QED
    BY <2>1, <2>2
<1>10. TitlesTaken'
  <2> SUFFICES ASSUME NEW s \in SessionIds, sessions'[s].state = "there", sessions'[s].title # NoTitle
               PROVE  Turn(sessions'[s].title, s) \subseteq messages'
    BY DEF TitlesTaken, Whole, There
  <2>1. Turn(sessions[s].title, s) \subseteq messages /\ s \notin gone
        /\ sessions'[s].title = sessions[s].title
    BY <1>6 DEF ConversationsInv, TitlesTaken, Whole, There
  <2>2. \A m \in Turn(sessions[s].title, s) : m.session = s
    BY DEF Turn
  <2> QED
    BY <2>1, <2>2 DEF Removes
<1>11. InsertsFresh'
  <2>1. \A q \in Requests : request[q] \in Inserted => request[q].session \in SessionIds
    BY DEF Inserted
  <2>2. \A q \in Requests \ {r} :
           request[q] \in Inserted => request[q].project \in projects' \cup {NoProject}
    BY DEF Removes
  <2> QED
    BY <1>1, <1>2, <1>6, <2>1, <2>2 DEF ConversationsInv, InsertsFresh
<1>12. WorkedOn'
  <2>0. AskedThere /\ SeenThere /\ SeenUsed
    BY DEF ConversationsInv, WorkedOn
  <2>1. /\ \A q \in Requests : request[q] \in Asked => request[q].session \in SessionIds
        /\ \A q \in Requests : request[q] \in Deleting \cup Deleted => request[q].seen \subseteq SessionIds
    BY DEF Asked, Deleting, Deleted
  <2>2. \A s \in gone : s \notin Busy(r)
    BY DEF Removes
  <2>3. AskedThere'
    <3> SUFFICES ASSUME NEW q \in Requests, request'[q] \in Asked
                 PROVE  sessions'[request'[q].session].state = "there"
      BY DEF AskedThere, There
    <3>1. request'[q] = request[q] /\ q # r /\ request[q] \in Asked
      BY <1>1, <1>2
    <3>2. sessions[request[q].session].state = "there" /\ request[q].session \in SessionIds
      BY <2>0, <2>1, <3>1 DEF AskedThere, There
    <3>3. request[q].session \notin gone
      BY <2>2, <3>1, <3>2 DEF Busy
    <3> QED
      BY <3>1, <3>2, <3>3, <1>6
  <2>4. SeenThere'
    <3> SUFFICES ASSUME NEW q \in Requests, StillOrphaning(q)', NEW s \in request'[q].seen
                 PROVE  sessions'[s].state = "there"
      BY DEF SeenThere, There
    <3>1. request'[q] = request[q] /\ q # r
      BY <1>1, <1>2 DEF StillOrphaning
    <3>2. StillOrphaning(q)
      BY <3>1 DEF StillOrphaning
    <3>3. sessions[s].state = "there" /\ s \in SessionIds
      BY <2>0, <2>1, <3>1, <3>2 DEF SeenThere, StillOrphaning, There
    <3>4. s \notin gone
      BY <2>2, <3>1, <3>2, <3>3 DEF Busy
    <3> QED
      BY <3>3, <3>4, <1>6
  <2>5. SeenUsed'
    BY <1>1, <1>2, <1>6, <2>0, <2>1 DEF SeenUsed
  <2> QED
    BY <2>3, <2>4, <2>5 DEF WorkedOn
<1>13. Cascaded'
  BY <1>1, <1>2, FinishedFacts DEF ConversationsInv, Cascaded, Removes
<1>14. Outlived'
  <2> SUFFICES ASSUME NEW q \in Requests, request'[q] \in Deleted, request'[q].at = "ended",
                      NEW s \in request'[q].seen
               PROVE  \/ sessions'[s].state = "there" /\ sessions'[s].project = NoProject
                      \/ sessions'[s].state = "deleted" /\ sessions'[s].by # q
    BY DEF Outlived, There
  <2>1. CASE q = r
    <3>1. x \in Deleted /\ s \in x.seen
      BY <2>1, <1>1
    <3>2. s \in freed
      BY <3>1, FinishedFacts DEF Removes
    <3> QED
      BY <3>2, <1>5
  <2>2. CASE q # r
    <3>1. request[q] \in Deleted /\ request[q].at = "ended" /\ s \in request[q].seen /\ s \in SessionIds
      BY <2>2, <1>1 DEF Deleted
    <3>2. \/ sessions[s].state = "there" /\ sessions[s].project = NoProject
          \/ sessions[s].state = "deleted" /\ sessions[s].by # q
      BY <3>1 DEF ConversationsInv, Outlived, There
    <3>3. CASE s \in gone
      BY <3>3, <2>2, <1>5
    <3>4. CASE s \in freed
      BY <3>4, <1>5
    <3>5. CASE s \notin gone /\ s \notin freed
      BY <3>1, <3>2, <3>5, <1>5
    <3> QED
      BY <3>3, <3>4, <3>5
  <2> QED
    BY <2>1, <2>2
<1> QED
  BY <1>7, <1>8, <1>9, <1>10, <1>11, <1>12, <1>13, <1>14 DEF ConversationsInv

\* Whom a committing deletion waits for.
LEMMA BusyIs ==
    ASSUME ConversationsTypes, NEW r \in Requests
    PROVE  Busy(r) \subseteq Answering \cup Orphaning
<1>1. ASSUME NEW q \in Requests, NEW s, request[q] \in Asked, request[q].session = s
      PROVE  s \in Answering
  <2>1. At(q, "create_message", "asked")
    BY <1>1, Kinds
  <2> QED
    BY <1>1, <2>1 DEF Answering
<1>2. ASSUME NEW q \in Requests, NEW s, StillOrphaning(q), s \in request[q].seen
      PROVE  s \in Orphaning
  <2>1. At(q, "delete_project", "orphaned") \/ At(q, "delete_project", "cascaded")
    BY <1>2, Kinds DEF StillOrphaning
  <2> QED
    BY <1>2, <2>1 DEF Orphaning
<1> QED
  BY <1>1, <1>2 DEF Busy

\* What is not referred to has no task and no message that was not loaded.
LEMMA NotReferred ==
    ASSUME NEW S, NEW loaded, ~Referred(S, loaded),
           \A m \in messages : m \in loaded => m.session \in S
    PROVE  /\ S \cap tasks = {}
           /\ messages \ loaded = {m \in messages : m.session \notin S}
<1>1. S \cap tasks = {} /\ \A m \in messages : m.session \in S => m \in loaded
  BY DEF Referred, MessagesOf
<1> QED
  BY <1>1

LEMMA CommitDeleteSessionStep == ASSUME ConversationsInv, NEW r \in Requests, CommitDeleteSession(r) PROVE ConversationsInv'
<1> DEFINE s == request[r].session
           gone == {t \in {s} : There(t)}
<1>0. ConversationsTypes
  BY DEF ConversationsInv
<1>1. /\ request[r] \in Marked /\ s \in SessionIds
      /\ \A m \in request[r].cascade : m.session \in {s}
  BY <1>0, Kinds DEF CommitDeleteSession, Marked, ConversationsInv, Cascaded
<1>2. CASE There(s) /\ Referred({s}, request[r].cascade)
  <2>1. End(r, "failed") /\ UNCHANGED <<projects, sessions, messages, tasks>>
    BY <1>2 DEF CommitDeleteSession
  <2>2. PICK x \in Finished : request' = [request EXCEPT ![r] = x]
    BY <1>1, <2>1, EndIs
  <2> QED
    BY <2>1, <2>2, EndStep
<1>3. CASE ~(There(s) /\ Referred({s}, request[r].cascade))
  <2>1. /\ End(r, "done") /\ messages' = messages \ request[r].cascade
        /\ sessions' = IF There(s) THEN [sessions EXCEPT ![s] = DeletedBy(r)] ELSE sessions
        /\ projects' = projects /\ tasks' = tasks
        /\ s \notin Answering \cup Orphaning
    BY <1>3 DEF CommitDeleteSession
  <2>2. PICK x \in Finished : request' = [request EXCEPT ![r] = x]
    BY <1>1, <2>1, EndIs
  <2>3. ~Referred(gone, request[r].cascade)
    <3>1. CASE There(s)
      BY <3>1, <1>3 DEF Referred
    <3>2. CASE ~There(s)
      BY <3>2 DEF Referred, MessagesOf
    <3> QED
      BY <3>1, <3>2
  <2>4. /\ gone \cap tasks = {}
        /\ messages' = {m \in messages : m.session \notin gone}
    <3>1. \A m \in messages : m \in request[r].cascade => m.session \in gone
      BY <1>1 DEF ConversationsInv, HaveSession
    <3> HIDE DEF gone
    <3>2. /\ gone \cap tasks = {}
          /\ messages \ request[r].cascade = {m \in messages : m.session \notin gone}
      BY <2>3, <3>1, NotReferred
    <3> QED
      BY <3>2, <2>1
  <2>5. gone \cap Busy(r) = {}
    BY <1>0, <2>1, BusyIs
  <2>6. sessions' = [t \in SessionIds |->
                      IF t \in gone THEN DeletedBy(r)
                      ELSE IF t \in {} THEN [sessions[t] EXCEPT !.project = NoProject]
                      ELSE sessions[t]]
    BY <1>0, <2>1 DEF ConversationsTypes
  <2>7. /\ gone \in SUBSET SessionIds /\ \A t \in gone \cup {} : sessions[t].state = "there"
        /\ \A t \in SessionIds : sessions[t].state = "there" => sessions[t].project \in projects' \cup {NoProject}
        /\ \A q \in Requests : request[q] \in Inserted => request[q].project \in projects' \cup {NoProject}
    BY <1>1, <2>1 DEF There, ConversationsInv, HaveProject, InsertsFresh
  <2> HIDE DEF gone, s
  <2>8. Removes(r, x, gone, {})
    BY <2>1, <2>2, <2>4, <2>5, <2>6, <2>7 DEF Removes
  <2> QED
    BY <2>2, <2>8, RemoveStep
<1> QED
  BY <1>2, <1>3

LEMMA FindProjectStep ==
    ASSUME ConversationsInv, NEW r \in Requests, NEW p \in Projects, FindProject(r, p)
    PROVE  ConversationsInv'
<1> DEFINE x == [op |-> "delete_project", at |-> "found", project |-> p, seen |-> SessionsOf(p)]
<1>1. /\ request' = [request EXCEPT ![r] = x]
      /\ UNCHANGED <<projects, sessions, messages, tasks>>
  BY DEF FindProject
<1>2. x \in Deleting /\ x.at = "found" /\ x.seen = SessionsOf(p)
  BY DEF Deleting, SessionsOf
<1>3. x \notin Inserted \cup Found \cup Asked \cup Marked \cup Deleted
  BY DEF Inserted, Found, Asked, Marked, Deleted
<1>4. \A s \in SessionsOf(p) : sessions[s] # Unused
  BY DEF SessionsOf, There, Unused
<1> HIDE DEF x
<1> QED
  BY <1>1, <1>2, <1>3, <1>4, GoOnStep DEF MayBecome

LEMMA OrphanSessionsStep == ASSUME ConversationsInv, NEW r \in Requests, OrphanSessions(r) PROVE ConversationsInv'
<1>1. /\ request[r] \in Deleting /\ request[r].at = "found"
      /\ UNCHANGED <<projects, sessions, messages, tasks>>
  BY Kinds DEF OrphanSessions, ConversationsInv
<1>2. CASE \A s \in request[r].seen : There(s)
  <2> DEFINE x == [request[r] EXCEPT !.at = "orphaned"]
  <2>1. request' = [request EXCEPT ![r] = x]
    BY <1>2 DEF OrphanSessions
  <2>2. x \in Deleting /\ x.at = "orphaned" /\ x.seen = request[r].seen
    BY <1>1 DEF Deleting
  <2> HIDE DEF x
  <2>3. x \notin Inserted \cup Found \cup Asked \cup Marked \cup Deleted
    BY <2>2 DEF Deleting, Inserted, Found, Asked, Marked, Deleted
  <2>4. \A s \in x.seen : sessions[s] # Unused
    BY <1>1, <2>2 DEF ConversationsInv, WorkedOn, SeenUsed
  <2> QED
    BY <1>1, <1>2, <2>1, <2>2, <2>3, <2>4, GoOnStep DEF MayBecome
<1>3. CASE ~\A s \in request[r].seen : There(s)
  <2>1. End(r, "failed")
    BY <1>3 DEF OrphanSessions
  <2>2. PICK x \in Finished : request' = [request EXCEPT ![r] = x]
    BY <1>1, <2>1, EndIs
  <2> QED
    BY <1>1, <2>2, EndStep
<1> QED
  BY <1>2, <1>3

LEMMA CascadeProjectStep == ASSUME ConversationsInv, NEW r \in Requests, CascadeProject(r) PROVE ConversationsInv'
<1> DEFINE p == request[r].project
           seen == request[r].seen
           also == SessionsOf(p) \ seen
           x == [op |-> "delete_project", at |-> "cascaded", project |-> p, seen |-> seen,
                 also |-> also, cascade |-> MessagesOf(also)]
<1>1. /\ request[r] \in Deleting /\ request[r].at = "orphaned"
      /\ p \in Projects /\ seen \in SUBSET SessionIds
      /\ UNCHANGED <<projects, sessions, messages, tasks>>
  BY Kinds DEF CascadeProject, ConversationsInv, Deleting
<1>2. request' = [request EXCEPT ![r] = x]
  BY DEF CascadeProject, Cascades
<1>3. also \in SUBSET SessionIds /\ MessagesOf(also) \in SUBSET Messages
  BY DEF SessionsOf, MessagesOf, ConversationsInv, ConversationsTypes
<1>4. \A s \in seen : There(s)
  BY <1>1 DEF ConversationsInv, WorkedOn, SeenThere, StillOrphaning
<1>5. also \cap seen = {} /\ \A m \in MessagesOf(also) : m.session \in also
  BY DEF MessagesOf
<1> HIDE DEF p, seen, also
<1>6. /\ x \in Deleted /\ x.at = "cascaded" /\ x.seen = seen /\ x.also = also
      /\ x.cascade = MessagesOf(also)
  BY <1>1, <1>3 DEF Deleted
<1>7. x \notin Inserted \cup Found \cup Asked \cup Marked \cup Deleting
  BY DEF Inserted, Found, Asked, Marked, Deleting
<1> HIDE DEF x
<1> QED
  BY <1>1, <1>2, <1>4, <1>5, <1>6, <1>7, GoOnStep DEF MayBecome

LEMMA CommitDeleteProjectStep == ASSUME ConversationsInv, NEW r \in Requests, CommitDeleteProject(r) PROVE ConversationsInv'
<1> DEFINE p == request[r].project
           seen == request[r].seen
           gone == {s \in request[r].also : There(s)}
           late == SessionsOf(p) \ (seen \cup gone)
<1>0. ConversationsTypes
  BY DEF ConversationsInv
<1>1. /\ request[r] \in Deleted /\ request[r].at = "cascaded"
      /\ p \in Projects /\ seen \in SUBSET SessionIds /\ gone \in SUBSET SessionIds
      /\ request[r].also \cap seen = {} /\ \A m \in request[r].cascade : m.session \in request[r].also
      /\ \A s \in seen : There(s)
  BY <1>0, Kinds DEF CommitDeleteProject, Deleted, ConversationsInv, Cascaded, WorkedOn, SeenThere, StillOrphaning
<1>2. CASE late # {} \/ Referred(gone, request[r].cascade)
  <2>1. End(r, "failed") /\ UNCHANGED <<projects, sessions, messages, tasks>>
    BY <1>2 DEF CommitDeleteProject
  <2>2. PICK x \in Finished : request' = [request EXCEPT ![r] = x]
    BY <1>1, <2>1, EndIs
  <2> QED
    BY <2>1, <2>2, EndStep
<1>3. CASE late = {} /\ ~Referred(gone, request[r].cascade)
  <2> DEFINE x == [request[r] EXCEPT !.at = "ended"]
  <2>1. /\ request' = [request EXCEPT ![r] = x]
        /\ projects' = projects \ {p} /\ tasks' = tasks
        /\ messages' = messages \ request[r].cascade
        /\ sessions' = [s \in SessionIds |->
                         CASE s \in gone -> DeletedBy(r)
                           [] s \in seen \ gone -> [sessions[s] EXCEPT !.project = NoProject]
                           [] OTHER -> sessions[s]]
        /\ gone \cap (Answering \cup (Orphaning \ seen)) = {}
        /\ \A q \in Requests : At(q, "create_session", "inserted") => request[q].project # p
    BY <1>3 DEF CommitDeleteProject
  <2>2. x \in Deleted /\ x.at = "ended" /\ x.seen = seen /\ x.also = request[r].also
        /\ x.cascade = request[r].cascade
    BY <1>1 DEF Deleted
  <2>3. /\ gone \cap tasks = {}
        /\ messages' = {m \in messages : m.session \notin gone}
    <3>1. \A m \in messages : m \in request[r].cascade => m.session \in gone
      BY <1>1 DEF ConversationsInv, HaveSession
    <3> HIDE DEF gone
    <3>2. /\ gone \cap tasks = {}
          /\ messages \ request[r].cascade = {m \in messages : m.session \notin gone}
      BY <1>3, <3>1, NotReferred
    <3> QED
      BY <3>2, <2>1
  <2>4. gone \cap Busy(r) = {} /\ gone \cap seen = {}
    BY <1>0, <1>1, <2>1, BusyIs
  <2>5. \A s \in SessionIds \ (gone \cup seen) :
          sessions[s].state = "there" => sessions[s].project \in projects' \cup {NoProject}
    BY <1>3, <2>1 DEF SessionsOf, There, ConversationsInv, HaveProject
  <2>6. \A q \in Requests \ {r} :
          request[q] \in Inserted => request[q].project \in projects' \cup {NoProject}
    BY <1>0, <2>1, Kinds DEF ConversationsInv, InsertsFresh
  <2>7. \A s \in gone \cup seen : sessions[s].state = "there"
    BY <1>1 DEF There
  <2> HIDE DEF x, p, seen, gone
  <2>8. sessions' = [s \in SessionIds |->
                      IF s \in gone THEN DeletedBy(r)
                      ELSE IF s \in seen THEN [sessions[s] EXCEPT !.project = NoProject]
                      ELSE sessions[s]]
    BY <2>1
  <2>9. Removes(r, x, gone, seen)
    <3>1. projects' \subseteq projects /\ tasks' = tasks
      BY <2>1
    <3>2. x.also \cap x.seen = {} /\ \A m \in x.cascade : m.session \in x.also
      BY <1>1, <2>2
    <3> QED
      BY <1>1, <2>2, <2>3, <2>4, <2>5, <2>6, <2>7, <2>8, <3>1, <3>2 DEF Removes
  <2> QED
    BY <2>1, <2>9, RemoveStep
<1> QED
  BY <1>2, <1>3

LEMMA ConversationsStutter == ASSUME ConversationsInv, UNCHANGED conversationVars PROVE ConversationsInv'
BY DEF conversationVars, ConversationsInv, ConversationsTypes, HaveSession, TurnsWhole, HaveProject, TitlesTaken, Whole,
   InsertsFresh, WorkedOn, AskedThere, SeenThere, SeenUsed, StillOrphaning, Cascaded, Outlived, There

LEMMA ConversationsNextStep == ConversationsInv /\ [ConversationNext]_conversationVars => ConversationsInv'
<1> SUFFICES ASSUME ConversationsInv, [ConversationNext]_conversationVars PROVE ConversationsInv'
  OBVIOUS
<1>1. CASE UNCHANGED conversationVars
  BY <1>1, ConversationsStutter
<1>2. CASE ConversationNext
  <2> PICK r \in Requests :
        \/ \E p \in Projects : CreateProject(r, p) \/ FindProject(r, p)
        \/ \E s \in SessionIds :
             \/ \E p \in Projects \cup {NoProject} : CreateSession(r, s, p)
             \/ OpenSession(r, s) \/ CreateTask(r, s) \/ FindSession(r, s)
        \/ CommitSession(r) \/ AskModel(r) \/ CommitTurn(r) \/ Abandon(r)
        \/ CommitDeleteSession(r)
        \/ OrphanSessions(r) \/ CascadeProject(r) \/ CommitDeleteProject(r)
    BY <1>2 DEF ConversationNext
  <2>1. CASE \E p \in Projects : CreateProject(r, p) \/ FindProject(r, p)
    BY <2>1, CreateProjectStep, FindProjectStep
  <2>2. CASE \E s \in SessionIds :
               \/ \E p \in Projects \cup {NoProject} : CreateSession(r, s, p)
               \/ OpenSession(r, s) \/ CreateTask(r, s) \/ FindSession(r, s)
    BY <2>2, CreateSessionStep, FindStep, CreateTaskStep
  <2>3. CASE CommitSession(r) \/ AskModel(r) \/ CommitTurn(r) \/ Abandon(r)
    BY <2>3, CommitSessionStep, AskStep, CommitTurnStep, AbandonStep
  <2>4. CASE CommitDeleteSession(r)
    BY <2>4, CommitDeleteSessionStep
  <2>5. CASE OrphanSessions(r) \/ CascadeProject(r) \/ CommitDeleteProject(r)
    BY <2>5, OrphanSessionsStep, CascadeProjectStep, CommitDeleteProjectStep
  <2> QED
    BY <2>1, <2>2, <2>3, <2>4, <2>5
<1> QED
  BY <1>1, <1>2

-----------------------------------------------------------------------------

\* The inductive invariant holds in every reachable state.
THEOREM ConversationsHold == ConversationSpec => []ConversationsInv
<1>1. ConversationInit => ConversationsInv
  BY ConversationsInitStep
<1>2. ConversationsInv /\ [ConversationNext]_conversationVars => ConversationsInv'
  BY ConversationsNextStep
<1> QED
  BY <1>1, <1>2, PTL DEF ConversationSpec

\* The committed messages, tasks, sessions and titles fit together at every
\* moment, whichever requests overlap (router.py create_message and
\* delete_session, projects_api.py delete_project, task_router.py create_task).
THEOREM ConversationsWhole == ConversationSpec => []ConversationsAreWhole
<1>1. ConversationsInv => ConversationsAreWhole
  BY DEF ConversationsInv, HaveSession, TurnsWhole, HaveProject, TitlesTaken, Whole, ConversationsAreWhole
<1> QED
  BY <1>1, ConversationsHold, PTL

\* A deleted project leaves the sessions it had when its deletion began
\* (projects_api.py delete_project).
THEOREM OrphansOutlive == ConversationSpec => []OrphansSurvive
<1>1. ConversationsInv => OrphansSurvive
  <2> SUFFICES ASSUME ConversationsInv, NEW r \in Requests, At(r, "delete_project", "ended"),
                      "seen" \in DOMAIN request[r], NEW s \in request[r].seen
               PROVE  \/ There(s) /\ sessions[s].project = NoProject
                      \/ ~There(s) /\ sessions[s].by # r
    BY DEF OrphansSurvive
  <2>1. request[r] \in {Unsent} \cup Inserted \cup Found \cup Asked \cup Marked
                         \cup Deleting \cup Deleted \cup Finished
    BY DEF ConversationsInv, ConversationsTypes
  <2>2. request[r].at = "ended"
    BY DEF At
  <2>3. request[r] \notin {Unsent} \cup Inserted \cup Found \cup Asked \cup Marked \cup Deleting
    BY <2>2 DEF Unsent, Inserted, Found, Asked, Marked, Deleting
  <2>4. request[r] \notin Finished
    BY DEF Finished
  <2>5. request[r] \in Deleted
    BY <2>1, <2>3, <2>4
  <2>6. \/ There(s) /\ sessions[s].project = NoProject
        \/ sessions[s].state = "deleted" /\ sessions[s].by # r
    BY <2>2, <2>5 DEF ConversationsInv, Outlived
  <2> QED
    BY <2>6 DEF There
<1> QED
  BY <1>1, ConversationsHold, PTL
=============================================================================
