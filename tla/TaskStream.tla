----------------------------- MODULE TaskStream -----------------------------
(***************************************************************************)
(* The WebSocket stream of one task in one process (task_stream and        *)
(* _broadcast_event of sentinel_core/task_router.py; agent_loop.py sends   *)
(* the events of a task one after the other).                              *)
(*                                                                         *)
(* ws_connections maps the task to a list of connections.  A broadcast     *)
(* walks over that list by index and awaits each send; meanwhile handlers  *)
(* add to and remove from the SAME list, or delete the key, after which a  *)
(* new connection starts another list and the broadcast keeps the old one. *)
(* Hence lists have an identity: current names the one in ws_connections.  *)
(***************************************************************************)
EXTENDS Integers, Sequences, FiniteSetsExt, SequencesExt, Functions

CONSTANTS
    Clients,     \* the connections clients may open
    MaxEvents    \* bound: events the agent loop sends

VARIABLES
    lists,       \* the list objects
    current,     \* the list of the task in ws_connections, NoList if no key
    client,      \* the state of each connection
    received,    \* the events each connection was sent
    cast         \* the broadcast under way, and the number of events so far

ASSUME EventsAssumption == MaxEvents \in Nat

streamVars == <<lists, current, client, received, cast>>

ListIds == {1, 2}
NoList == 0

\* "gone": the client has closed, its handler has not noticed; "left": the
\* handler has ended; "lost": it ended on another error and removed nothing.
ClientStates == {"new", "open", "gone", "left", "lost"}

Quiet == [at |-> "idle", list |-> NoList, next |-> 1, failed |-> << >>, to |-> {}, event |-> 0,
          audience |-> {}, shrunk |-> FALSE]

StreamInit ==
    /\ lists = [l \in ListIds |-> << >>]
    /\ current = NoList
    /\ client = [c \in Clients |-> "new"]
    /\ received = [c \in Clients |-> << >>]
    /\ cast = Quiet

\* A list object nobody refers to.
FreshList == CHOOSE l \in ListIds : l # current /\ (cast.at = "idle" \/ l # cast.list)

\* task_stream: accept and append.
Connect(c) ==
    LET l == IF current = NoList THEN FreshList ELSE current
    IN  /\ client[c] = "new"
        /\ current' = l
        /\ lists' = [lists EXCEPT ![l] = Append(IF current = NoList THEN << >> ELSE @, c)]
        /\ client' = [client EXCEPT ![c] = "open"]
        /\ UNCHANGED <<received, cast>>

\* The client closes its connection.
GoAway(c) ==
    /\ client[c] = "open"
    /\ client' = [client EXCEPT ![c] = "gone"]
    /\ UNCHANGED <<lists, current, received, cast>>

\* A list without the connections in gone, in its order (one sequence).
Rest(s, gone) ==
    {t \in SetToSeqs(Range(s) \ gone) :
        \A i, j \in DOMAIN s, k, l \in DOMAIN t : i < j /\ t[k] = s[i] /\ t[l] = s[j] => k < l}

\* Faulty variant: the handler ends without removing the connection.
ForgetToRemove(c) ==
    /\ client[c] = "gone"
    /\ client' = [client EXCEPT ![c] = "left"]
    /\ UNCHANGED <<lists, current, received, cast>>

\* The handler notices: it removes the connection, which raises if a
\* broadcast has done so before, and deletes the key of an empty list.
Leave(c) ==
    /\ client[c] = "gone"
    /\ client' = [client EXCEPT ![c] = "left"]
    /\ IF current # NoList /\ c \in Range(lists[current])
         THEN /\ \E rest \in Rest(lists[current], {c}) :
                   /\ lists' = [lists EXCEPT ![current] = rest]
                   /\ current' = IF rest = << >> THEN NoList ELSE current
              /\ cast' = [cast EXCEPT !.shrunk = @ \/ cast.list = current]
         ELSE UNCHANGED <<lists, current, cast>>
    /\ UNCHANGED received

\* Answering a ping fails with another exception than WebSocketDisconnect.
PingFails(c) ==
    /\ client[c] = "gone"
    /\ client' = [client EXCEPT ![c] = "lost"]
    /\ UNCHANGED <<lists, current, received, cast>>

\* _broadcast_event: without a list there is nothing to do.
BroadcastEvent ==
    /\ cast.at = "idle" /\ cast.event < MaxEvents
    /\ cast' = IF current = NoList
                 THEN [cast EXCEPT !.event = @ + 1, !.audience = {}, !.list = NoList]
                 ELSE [Quiet EXCEPT !.at = "next", !.list = current, !.event = cast.event + 1,
                        !.audience = {c \in Range(lists[current]) : client[c] = "open"}]
    /\ UNCHANGED <<lists, current, client, received>>

\* The loop takes the element at its index, or ends.
NextConnection ==
    /\ cast.at = "next"
    /\ cast' = IF cast.next <= Len(lists[cast.list])
                 THEN [cast EXCEPT !.at = "send", !.to = {lists[cast.list][cast.next]}, !.next = @ + 1]
                 ELSE [cast EXCEPT !.at = "clean"]
    /\ UNCHANGED <<lists, current, client, received>>

\* The send to the connection taken ends.  It raises if the handler has ended
\* and may or may not raise if the client has just gone.
SendJson(c) ==
    /\ cast.at = "send" /\ cast.to = {c}
    /\ received' = [received EXCEPT ![c] = IF client[c] = "open" THEN Append(@, cast.event) ELSE @]
    /\ \E raises \in BOOLEAN :
         /\ client[c] = "open" => ~raises
         /\ client[c] \in {"left", "lost"} => raises
         /\ cast' = [cast EXCEPT !.at = "next", !.to = {},
                                 !.failed = IF raises THEN Append(@, c) ELSE @]
    /\ UNCHANGED <<lists, current, client>>

\* The connections whose send raised are removed from the list that is in
\* ws_connections NOW, each once; the first that is not there (or a key that
\* is not there) raises and ends the removal (_send_event logs it).
RemoveDisconnected ==
    LET here  == IF current = NoList THEN << >> ELSE lists[current]
        upTo  == {n \in 0 .. Len(cast.failed) :
                    \A i \in 1 .. n : cast.failed[i] \in Range(here)}
        going == {cast.failed[i] : i \in 1 .. Max(upTo)}
    IN  /\ cast.at = "clean"
        /\ \E rest \in Rest(here, going) :
             lists' = IF current = NoList THEN lists ELSE [lists EXCEPT ![current] = rest]
        /\ cast' = [Quiet EXCEPT !.event = cast.event]
        /\ UNCHANGED <<current, client, received>>

StreamNext ==
    \/ \E c \in Clients : Connect(c) \/ GoAway(c) \/ Leave(c) \/ PingFails(c) \/ SendJson(c)
    \/ BroadcastEvent
    \/ NextConnection
    \/ RemoveDisconnected

StreamSpec == StreamInit /\ [][StreamNext]_streamVars

-----------------------------------------------------------------------------
StreamTypeOK ==
    /\ \A l \in ListIds : Range(lists[l]) \subseteq Clients /\ IsInjective(lists[l])
    /\ current \in ListIds \cup {NoList}
    /\ client \in [Clients -> ClientStates]
    /\ cast.at \in {"idle", "next", "send", "clean"}
    /\ cast.event \in 0 .. MaxEvents /\ cast.list \in ListIds \cup {NoList}
    /\ cast.to \subseteq Clients /\ Range(cast.failed) \subseteq Clients

\* What the stream of one process does keep: no client is sent an event twice
\* or after a later one, a connection whose handler ended in the ordinary way
\* is in the list no longer, and a broadcast during which no handler removed
\* a connection has reached every client that was there and still is.
DeliveredOnce ==
    /\ \A c \in Clients : \A i, j \in DOMAIN received[c] : i < j => received[c][i] < received[c][j]
    /\ current # NoList => \A c \in Range(lists[current]) : client[c] # "left"
    /\ cast.at = "clean" /\ ~cast.shrunk =>
         \A c \in cast.audience : client[c] = "open" => cast.event \in Range(received[c])

\* "Broadcast an event to all WebSocket connections for a task"
\* (task_router.py:221): a client connected before the broadcast and still
\* connected after it has the event.  Violated: a handler that removes its
\* connection from the list under the loop makes the loop skip one.
BroadcastReachesAll ==
    cast.at = "clean" =>
        \A c \in cast.audience : client[c] = "open" => cast.event \in Range(received[c])
=============================================================================
