---------------------------- MODULE RateLimiter ----------------------------
(***************************************************************************)
(* The two rate limits a client's requests pass: the middleware of main.py *)
(* (a window of its own in each process) and the limiter of create_task    *)
(* and create_message (api_gateway/rate_limiter.py: one window in Redis    *)
(* for both endpoints, with two limits).                                   *)
(*                                                                         *)
(* A request takes its time stamp, and its pipeline is executed by Redis   *)
(* up to MaxDelay later, so pipelines may be executed out of order.  That  *)
(* the key expires (after Window + 1) removes nothing that counts.         *)
(***************************************************************************)
EXTENDS Integers, Sequences, FiniteSets

CONSTANTS
    Servers,       \* the server processes
    Endpoints,     \* the endpoints behind the limiter
    Limit,         \* the limit of each endpoint
    ServerLimit,   \* the limit of the middleware
    Window,        \* the length of the window
    MaxDelay,      \* the longest time from a stamp to its pipeline
    MaxTime,       \* bound: the time
    MaxSent,       \* bound: requests of the client
    MaxFailures    \* bound: pipelines Redis fails to execute

ASSUME LimiterAssumption ==
    /\ Endpoints # {} /\ Limit \in [Endpoints -> Nat \ {0}] /\ ServerLimit \in Nat \ {0}
    /\ Window \in Nat /\ MaxDelay \in Nat /\ MaxDelay < Window
    /\ MaxTime \in Nat /\ MaxSent \in Nat /\ MaxFailures \in Nat

VARIABLES
    time,     \* the time
    sent,     \* the requests of the client, in the order sent
    recent,   \* per process: the requests in the middleware's list
    zset      \* the requests in the sorted set in Redis

limiterVars == <<time, sent, recent, zset>>

Outcomes == {"limited", "pending", "admitted", "rejected", "unchecked"}
Pending == {n \in DOMAIN sent : sent[n].outcome = "pending"}

LimiterInit ==
    /\ time = 0
    /\ sent = << >>
    /\ recent = [p \in Servers |-> {}]
    /\ zset = {}

Tick ==
    /\ time < MaxTime
    /\ \A n \in Pending : time < sent[n].stamp + MaxDelay
    /\ time' = time + 1
    /\ UNCHANGED <<sent, recent, zset>>

\* rate_limit_middleware: the requests that are Window old or older are
\* forgotten; a request over the limit is answered with 429 and not counted.
RateLimitMiddleware(p, e) ==
    LET kept == {n \in recent[p] : time - sent[n].stamp < Window}
        n    == Len(sent) + 1
        full == Cardinality(kept) >= ServerLimit
    IN  /\ n <= MaxSent
        /\ recent' = [recent EXCEPT ![p] = IF full THEN kept ELSE kept \cup {n}]
        /\ sent' = Append(sent, [process |-> p, endpoint |-> e, stamp |-> time,
                                 outcome |-> IF full THEN "limited" ELSE "pending"])
        /\ UNCHANGED <<time, zset>>

\* Faulty variant: the requests are counted before this one is added.
CountFirst(n) ==
    LET kept == {k \in zset : sent[k].stamp > sent[n].stamp - Window}
    IN  /\ n \in Pending
        /\ zset' = kept \cup {n}
        /\ sent' = [sent EXCEPT ![n].outcome =
               IF Cardinality(kept) > Limit[sent[n].endpoint] THEN "rejected" ELSE "admitted"]
        /\ UNCHANGED <<time, recent>>

\* RateLimiter.__call__: one transaction removes what is Window old, adds the
\* request, be it rejected or not, and counts.
SlidingWindow(n) ==
    LET kept == {k \in zset : sent[k].stamp > sent[n].stamp - Window} \cup {n}
    IN  /\ n \in Pending
        /\ zset' = kept
        /\ sent' = [sent EXCEPT ![n].outcome =
               IF Cardinality(kept) > Limit[sent[n].endpoint] THEN "rejected" ELSE "admitted"]
        /\ UNCHANGED <<time, recent>>

\* Redis fails: the request is admitted and counted nowhere.
RedisFails(n) ==
    /\ n \in Pending
    /\ Cardinality({k \in DOMAIN sent : sent[k].outcome = "unchecked"}) < MaxFailures
    /\ sent' = [sent EXCEPT ![n].outcome = "unchecked"]
    /\ UNCHANGED <<time, recent, zset>>

LimiterNext ==
    \/ Tick
    \/ \E p \in Servers, e \in Endpoints : RateLimitMiddleware(p, e)
    \/ \E n \in 1 .. MaxSent : SlidingWindow(n) \/ RedisFails(n)

LimiterSpec == LimiterInit /\ [][LimiterNext]_limiterVars

-----------------------------------------------------------------------------
LimiterTypeOK ==
    /\ time \in 0 .. MaxTime
    /\ sent \in Seq([process: Servers, endpoint: Endpoints, stamp: 0 .. time, outcome: Outcomes])
    /\ Len(sent) <= MaxSent
    /\ recent \in [Servers -> SUBSET DOMAIN sent]
    /\ zset \subseteq DOMAIN sent

\* The requests with one of the outcomes stamped in the len units from t.
Within(t, len, outcomes) ==
    {n \in DOMAIN sent : sent[n].outcome \in outcomes /\ sent[n].stamp \in t .. t + len - 1}

\* FR8.1: whatever the order in which the processes' pipelines are executed,
\* in any window shortened by the longest delay no endpoint admits more than
\* its limit, nor both together more than the larger one; no process lets more
\* than its limit through in any window; and a request is rejected only if the
\* client sent more than the limit within Window of it.
AdmittedIsBounded ==
    /\ \A t \in 0 .. time :
         LET admitted == Within(t, Window - MaxDelay, {"admitted"})
         IN  /\ \A e \in Endpoints :
                  Cardinality({n \in admitted : sent[n].endpoint = e}) <= Limit[e]
             /\ \E e \in Endpoints : Cardinality(admitted) <= Limit[e]
             /\ \A p \in Servers :
                  Cardinality({n \in Within(t, Window, Outcomes \ {"limited"}) :
                                   sent[n].process = p}) <= ServerLimit
    /\ \A n \in DOMAIN sent : sent[n].outcome = "rejected" =>
         Cardinality(Within(sent[n].stamp - Window + 1, 2 * Window - 1, {"admitted", "rejected"}))
             > Limit[sent[n].endpoint]
=============================================================================
