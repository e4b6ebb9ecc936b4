------------------------- MODULE RateLimiterProofs -------------------------
(***************************************************************************)
(* Proofs about RateLimiter, for any number of processes, endpoints and    *)
(* requests, any limits and any window longer than the delay.              *)
(*                                                                         *)
(* Pipelines are executed out of order, and each removes what is Window    *)
(* older than ITS OWN stamp.  What makes the bound hold nevertheless is    *)
(* Remembered: a request that was counted and is no longer in the sorted   *)
(* set is Window old by now, whichever pipeline removed it.                *)
(***************************************************************************)
EXTENDS RateLimiter, FiniteSetTheorems, SequenceTheorems, TLAPS

RequestType == [process: Servers, endpoint: Endpoints, stamp: 0 .. time, outcome: Outcomes]
Counted(n) == sent[n].outcome \in {"admitted", "rejected"}

\* A pipeline is executed at most MaxDelay after its stamp.
Prompt == \A n \in Pending : time <= sent[n].stamp + MaxDelay

\* The sorted set has every counted request of the last Window, and no other
\* than counted ones.
Remembered ==
    /\ \A n \in zset : Counted(n)
    /\ \A n \in DOMAIN sent : Counted(n) /\ n \notin zset => sent[n].stamp + Window <= time

\* So has the list of a process for the requests it let through.
CountedListed ==
    /\ \A p \in Servers : \A n \in recent[p] : sent[n].process = p /\ sent[n].outcome # "limited"
    /\ \A n \in DOMAIN sent : sent[n].outcome # "limited" /\ n \notin recent[sent[n].process] =>
         sent[n].stamp + Window <= time

\* The bounds of AdmittedIsBounded, for the window that starts at t.
AdmittedIn(t) == Within(t, Window - MaxDelay, {"admitted"})
AtEndpoint(t, e) == {n \in AdmittedIn(t) : sent[n].endpoint = e}
Let(t, p) == {n \in Within(t, Window, Outcomes \ {"limited"}) : sent[n].process = p}
CountedAround(n) == Within(sent[n].stamp - Window + 1, 2 * Window - 1, {"admitted", "rejected"})

EndpointBound == \A t \in Int, e \in Endpoints : Cardinality(AtEndpoint(t, e)) <= Limit[e]
JointBound == \A t \in Int : \E e \in Endpoints : Cardinality(AdmittedIn(t)) <= Limit[e]
ServerBound == \A t \in Int, p \in Servers : Cardinality(Let(t, p)) <= ServerLimit
Justified ==
    \A n \in DOMAIN sent : sent[n].outcome = "rejected" =>
        Cardinality(CountedAround(n)) > Limit[sent[n].endpoint]

LimiterInv ==
    /\ LimiterTypeOK /\ Prompt /\ Remembered /\ CountedListed
    /\ EndpointBound /\ JointBound /\ ServerBound /\ Justified

-----------------------------------------------------------------------------

LEMMA SentFacts ==
    ASSUME LimiterTypeOK
    PROVE  /\ DOMAIN sent = 1 .. Len(sent) /\ Len(sent) \in Nat
           /\ IsFiniteSet(DOMAIN sent)
           /\ time \in Nat
           /\ \A n \in DOMAIN sent : /\ sent[n] \in RequestType
                                     /\ sent[n].process \in Servers /\ sent[n].endpoint \in Endpoints
                                     /\ sent[n].stamp \in Nat /\ sent[n].stamp <= time
                                     /\ sent[n].outcome \in Outcomes
<1>1. sent \in Seq(RequestType) /\ time \in Nat
  BY LimiterAssumption DEF LimiterTypeOK, RequestType
<1>2. DOMAIN sent = 1 .. Len(sent) /\ Len(sent) \in Nat
  BY <1>1
<1>3. IsFiniteSet(DOMAIN sent)
  BY <1>2, FS_Interval
<1>4. \A n \in DOMAIN sent : sent[n] \in RequestType
  BY <1>1, <1>2
<1> QED
  BY <1>1, <1>2, <1>3, <1>4 DEF RequestType

LEMMA SubsetsAreSmaller ==
    ASSUME NEW S, IsFiniteSet(S), NEW T, T \subseteq S
    PROVE  IsFiniteSet(T) /\ Cardinality(T) \in Nat /\ Cardinality(T) <= Cardinality(S)
           /\ Cardinality(S) \in Nat
BY FS_Subset, FS_CardinalityType

\* What deciding a pending request changes.
LEMMA DecideFacts ==
    ASSUME LimiterTypeOK, NEW n \in Pending, NEW o \in {"admitted", "rejected", "unchecked"},
           sent' = [sent EXCEPT ![n].outcome = o], time' = time, recent' = recent
    PROVE  /\ sent' \in Seq(RequestType)' /\ Len(sent') = Len(sent) /\ DOMAIN sent' = DOMAIN sent
           /\ n \in DOMAIN sent /\ sent[n].outcome = "pending"
           /\ \A k \in DOMAIN sent : /\ sent'[k].process = sent[k].process
                                     /\ sent'[k].endpoint = sent[k].endpoint
                                     /\ sent'[k].stamp = sent[k].stamp
                                     /\ sent'[k].outcome = IF k = n THEN o ELSE sent[k].outcome
<1> DEFINE r == [sent[n] EXCEPT !.outcome = o]
<1>1. sent \in Seq(RequestType) /\ n \in 1 .. Len(sent) /\ sent[n].outcome = "pending"
  BY SentFacts DEF LimiterTypeOK, RequestType, Pending
<1>2. sent[n] \in RequestType
  BY <1>1, SentFacts
<1>3. /\ r \in RequestType
      /\ r.process = sent[n].process /\ r.endpoint = sent[n].endpoint
      /\ r.stamp = sent[n].stamp /\ r.outcome = o
  BY <1>2 DEF RequestType, Outcomes
<1>4. sent' = [sent EXCEPT ![n] = r]
  OBVIOUS
<1>5. RequestType' = RequestType
  BY DEF RequestType, Outcomes
<1> HIDE DEF r
<1>6. /\ sent' \in Seq(RequestType) /\ Len(sent') = Len(sent)
      /\ \A j \in 1 .. Len(sent) : sent'[j] = IF j = n THEN r ELSE sent[j]
  BY <1>1, <1>3, <1>4, ExceptSeq
<1>7. DOMAIN sent' = DOMAIN sent /\ DOMAIN sent = 1 .. Len(sent)
  BY <1>1, <1>6
<1> QED
  BY <1>1, <1>3, <1>5, <1>6, <1>7
\* The typed part of the invariant after a decision.
LEMMA DecideKeepsTypes ==
    ASSUME LimiterInv, NEW n \in Pending, NEW o \in {"admitted", "rejected", "unchecked"},
           sent' = [sent EXCEPT ![n].outcome = o], time' = time, recent' = recent,
           zset' \subseteq DOMAIN sent
    PROVE  /\ LimiterTypeOK' /\ Prompt' /\ CountedListed'
           /\ ServerBound'
<1>0. LimiterTypeOK
  BY DEF LimiterInv
<1>1. /\ sent' \in Seq(RequestType)' /\ Len(sent') = Len(sent) /\ DOMAIN sent' = DOMAIN sent
      /\ n \in DOMAIN sent /\ sent[n].outcome = "pending"
      /\ \A k \in DOMAIN sent : /\ sent'[k].process = sent[k].process
                                /\ sent'[k].endpoint = sent[k].endpoint
                                /\ sent'[k].stamp = sent[k].stamp
                                /\ sent'[k].outcome = IF k = n THEN o ELSE sent[k].outcome
  BY <1>0, DecideFacts
<1>2. LimiterTypeOK'
  BY <1>0, <1>1 DEF LimiterTypeOK, RequestType, Outcomes
<1>3. Prompt'
  BY <1>1 DEF LimiterInv, Prompt, Pending
<1>4. CountedListed'
  <2>1. \A p \in Servers : \A k \in recent[p] : k \in DOMAIN sent
    BY <1>0 DEF LimiterTypeOK
  <2> QED
    BY <1>1, <2>1 DEF LimiterInv, CountedListed
<1>5. ServerBound'
  <2>1. ASSUME NEW t \in Int, NEW p \in Servers
        PROVE  Let(t, p)' = Let(t, p)
    BY <1>1 DEF Let, Within, Outcomes
  <2> QED
    BY <2>1 DEF LimiterInv, ServerBound
<1> QED
  BY <1>2, <1>3, <1>4, <1>5

-----------------------------------------------------------------------------

LEMMA LimiterInitStep == LimiterInit => LimiterInv
<1> SUFFICES ASSUME LimiterInit PROVE LimiterInv
  OBVIOUS
<1>1. sent = << >> /\ DOMAIN sent = {} /\ time = 0 /\ zset = {} /\ recent = [p \in Servers |-> {}]
  BY DEF LimiterInit
<1>2. LimiterTypeOK
  BY <1>1, LimiterAssumption DEF LimiterTypeOK
<1>3. Prompt /\ Remembered /\ CountedListed /\ Justified
  BY <1>1 DEF Prompt, Pending, Remembered, CountedListed, Justified
<1>4. \A t \in Int, p \in Servers : AdmittedIn(t) = {} /\ Let(t, p) = {}
  BY <1>1 DEF AdmittedIn, Let, Within
<1>5. \A t \in Int, e \in Endpoints : AtEndpoint(t, e) = {} /\ AdmittedIn(t) = {}
  BY <1>1 DEF AtEndpoint, AdmittedIn, Within
<1>6. EndpointBound /\ JointBound /\ ServerBound
  <2>1. Cardinality({}) = 0
    BY FS_EmptySet
  <2>2. \A e \in Endpoints : Limit[e] \in Nat /\ Limit[e] >= 0
    BY LimiterAssumption
  <2>3. EndpointBound
    BY <1>5, <2>1, <2>2 DEF EndpointBound
  <2>4. JointBound
    BY <1>5, <2>1, <2>2, LimiterAssumption DEF JointBound
  <2>5. ServerBound
    BY <1>4, <2>1, LimiterAssumption DEF ServerBound
  <2> QED
    BY <2>3, <2>4, <2>5
<1> QED
  BY <1>2, <1>3, <1>6 DEF LimiterInv

LEMMA TickStep == LimiterInv /\ Tick => LimiterInv'
<1> SUFFICES ASSUME LimiterInv, Tick PROVE LimiterInv'
  OBVIOUS
<1>0. LimiterTypeOK /\ time \in Nat
  BY SentFacts DEF LimiterInv
<1>1. /\ sent' = sent /\ recent' = recent /\ zset' = zset /\ time' = time + 1
      /\ time < MaxTime
      /\ \A n \in Pending : time < sent[n].stamp + MaxDelay
  BY DEF Tick
<1>2. LimiterTypeOK'
  <2>1. RequestType \subseteq RequestType'
    BY <1>0, <1>1 DEF RequestType, Outcomes
  <2>2. sent' \in Seq(RequestType)'
    <3>1. sent \in [1 .. Len(sent) -> RequestType]
      BY <1>0, SentFacts DEF LimiterTypeOK, RequestType
    <3>2. sent \in [1 .. Len(sent) -> RequestType'] /\ Len(sent) \in Nat
      BY <3>1, <2>1, <1>0, SentFacts
    <3> QED
      BY <3>2, <1>1, SeqDef
  <2> QED
    BY <1>0, <1>1, <2>2, LimiterAssumption DEF LimiterTypeOK, RequestType
<1>3. Prompt'
  <2>1. \A n \in DOMAIN sent : sent[n].stamp \in Nat
    BY <1>0, SentFacts
  <2> QED
    BY <1>0, <1>1, <2>1, LimiterAssumption DEF Prompt, Pending
<1>4. Remembered' /\ CountedListed'
  <2>1. \A n \in DOMAIN sent : sent[n].stamp \in Nat
    BY <1>0, SentFacts
  <2>2. Remembered'
    BY <1>0, <1>1, <2>1, LimiterAssumption DEF LimiterInv, Remembered, Counted
  <2>3. CountedListed'
    BY <1>0, <1>1, <2>1, LimiterAssumption DEF LimiterInv, CountedListed
  <2> QED
    BY <2>2, <2>3
<1>5. EndpointBound' /\ JointBound' /\ ServerBound' /\ Justified'
  BY <1>1 DEF LimiterInv, EndpointBound, JointBound, ServerBound, Justified,
              AtEndpoint, AdmittedIn, Let, CountedAround, Within
<1> QED
  BY <1>2, <1>3, <1>4, <1>5 DEF LimiterInv

LEMMA FailureStep == ASSUME LimiterInv, NEW n, RedisFails(n) PROVE LimiterInv'
<1>0. LimiterTypeOK /\ n \in Pending
  BY DEF LimiterInv, RedisFails
<1>1. /\ sent' = [sent EXCEPT ![n].outcome = "unchecked"]
      /\ time' = time /\ recent' = recent /\ zset' = zset
  BY DEF RedisFails
<1>2. zset' \subseteq DOMAIN sent
  BY <1>0, <1>1 DEF LimiterTypeOK
<1>3. LimiterTypeOK' /\ Prompt' /\ CountedListed' /\ ServerBound'
  BY <1>0, <1>1, <1>2, DecideKeepsTypes
<1>4. /\ DOMAIN sent' = DOMAIN sent /\ n \in DOMAIN sent /\ sent[n].outcome = "pending"
      /\ \A k \in DOMAIN sent : /\ sent'[k].process = sent[k].process
                                /\ sent'[k].endpoint = sent[k].endpoint
                                /\ sent'[k].stamp = sent[k].stamp
                                /\ sent'[k].outcome = IF k = n THEN "unchecked" ELSE sent[k].outcome
  BY <1>0, <1>1, DecideFacts
<1>5. Remembered'
  BY <1>1, <1>2, <1>4 DEF LimiterInv, Remembered, Counted
<1>6. ASSUME NEW t \in Int
      PROVE  /\ AdmittedIn(t)' = AdmittedIn(t)
             /\ \A e \in Endpoints : AtEndpoint(t, e)' = AtEndpoint(t, e)
  <2>1. AdmittedIn(t)' = AdmittedIn(t) /\ AdmittedIn(t) \subseteq DOMAIN sent
    BY <1>4 DEF AdmittedIn, Within
  <2> QED
    BY <1>4, <2>1 DEF AtEndpoint
<1>7. EndpointBound' /\ JointBound'
  BY <1>6 DEF LimiterInv, EndpointBound, JointBound
<1>8. Justified'
  <2>1. \A k \in DOMAIN sent : CountedAround(k)' = CountedAround(k)
    BY <1>4 DEF CountedAround, Within
  <2> QED
    BY <1>4, <2>1 DEF LimiterInv, Justified
<1> QED
  BY <1>3, <1>5, <1>7, <1>8 DEF LimiterInv
\* The middleware: what it lets through in the window that ends now is in the
\* list it counts.
LEMMA MiddlewareStep ==
    ASSUME LimiterInv, NEW p \in Servers, NEW e \in Endpoints, RateLimitMiddleware(p, e)
    PROVE  LimiterInv'
<1> DEFINE kept == {k \in recent[p] : time - sent[k].stamp < Window}
           m == Len(sent) + 1
           full == Cardinality(kept) >= ServerLimit
           o == IF full THEN "limited" ELSE "pending"
           new == [process |-> p, endpoint |-> e, stamp |-> time, outcome |-> o]
<1>0. LimiterTypeOK /\ time \in Nat
  BY SentFacts DEF LimiterInv
<1>1. /\ m <= MaxSent /\ time' = time /\ zset' = zset
      /\ recent' = [recent EXCEPT ![p] = IF full THEN kept ELSE kept \cup {m}]
      /\ sent' = Append(sent, new)
  BY DEF RateLimitMiddleware
<1>2. new \in RequestType /\ RequestType' = RequestType
      /\ new.process = p /\ new.stamp = time /\ new.outcome = o
  BY <1>0, <1>1 DEF RequestType, Outcomes
<1>3. /\ DOMAIN sent = 1 .. Len(sent) /\ Len(sent) \in Nat /\ sent \in Seq(RequestType)
      /\ \A k \in DOMAIN sent : sent[k].stamp \in Nat /\ sent[k].stamp <= time
      /\ kept \subseteq recent[p] /\ recent[p] \subseteq DOMAIN sent
  BY <1>0, SentFacts DEF LimiterTypeOK, RequestType
<1> HIDE DEF new, kept, full
<1>4. /\ sent' \in Seq(RequestType) /\ Len(sent') = m
      /\ \A k \in DOMAIN sent : sent'[k] = sent[k]
      /\ sent'[m] = new
  BY <1>1, <1>2, <1>3, AppendProperties
<1>5. DOMAIN sent' = DOMAIN sent \cup {m} /\ m \notin DOMAIN sent
  BY <1>3, <1>4
<1>6. LimiterTypeOK'
  <2>1. recent' \in [Servers -> SUBSET DOMAIN sent']
    BY <1>0, <1>1, <1>3, <1>5 DEF LimiterTypeOK
  <2>2. sent' \in Seq(RequestType)' /\ Len(sent') <= MaxSent
    BY <1>1, <1>2, <1>4
  <2> QED
    BY <2>1, <2>2, <1>0, <1>1, <1>5 DEF LimiterTypeOK, RequestType
<1>7. Prompt'
  BY <1>0, <1>1, <1>2, <1>4, <1>5, LimiterAssumption DEF LimiterInv, Prompt, Pending
<1>8. Remembered'
  <2>1. zset \subseteq DOMAIN sent
    BY <1>0 DEF LimiterTypeOK
  <2>2. sent'[m].outcome \notin {"admitted", "rejected"}
    BY <1>2, <1>4
  <2> QED
    BY <1>1, <1>3, <1>4, <1>5, <2>1, <2>2 DEF LimiterInv, Remembered, Counted
<1>9. CountedListed'
  <2>1. \A q \in Servers : recent[q] \subseteq DOMAIN sent
    BY <1>0 DEF LimiterTypeOK
  <2>2. \A q \in Servers : recent'[q] = IF q = p THEN IF full THEN kept ELSE kept \cup {m}
                                       ELSE recent[q]
    BY <1>0, <1>1 DEF LimiterTypeOK
  <2>3. ASSUME NEW q \in Servers, NEW k \in recent'[q]
        PROVE  sent'[k].process = q /\ sent'[k].outcome # "limited"
    <3>1. CASE k \in DOMAIN sent
      BY <3>1, <2>1, <2>2, <1>3, <1>4, <1>5 DEF LimiterInv, CountedListed
    <3>2. CASE k \notin DOMAIN sent
      BY <3>2, <2>1, <2>2, <1>2, <1>3, <1>4, <1>5
    <3> QED
      BY <3>1, <3>2
  <2>4. ASSUME NEW k \in DOMAIN sent', sent'[k].outcome # "limited", k \notin recent'[sent'[k].process]
        PROVE  sent'[k].stamp + Window <= time'
    <3>1. CASE k = m
      BY <3>1, <2>2, <2>4, <1>2, <1>4
    <3>2. CASE k \in DOMAIN sent /\ k \in recent[sent[k].process]
      <4>1. sent[k].process \in Servers /\ sent'[k] = sent[k]
        BY <3>2, <1>0, <1>4, SentFacts
      <4>2. sent[k].process = p /\ k \notin kept /\ k \in recent[p]
        BY <3>2, <4>1, <2>2, <2>4
      <4>3. ~(time - sent[k].stamp < Window)
        BY <4>2 DEF kept
      <4> QED
        BY <4>1, <4>3, <3>2, <1>0, <1>1, <1>3, LimiterAssumption
    <3>3. CASE k \in DOMAIN sent /\ k \notin recent[sent[k].process]
      BY <3>3, <2>4, <1>1, <1>4 DEF LimiterInv, CountedListed
    <3> QED
      BY <3>1, <3>2, <3>3, <1>5
  <2> QED
    BY <2>3, <2>4 DEF CountedListed
<1>10. EndpointBound' /\ JointBound'
  <2>1. ASSUME NEW t \in Int
        PROVE  AdmittedIn(t)' = AdmittedIn(t) /\ AdmittedIn(t) \subseteq DOMAIN sent
    BY <1>2, <1>4, <1>5 DEF AdmittedIn, Within
  <2>2. ASSUME NEW t \in Int, NEW f \in Endpoints
        PROVE  AtEndpoint(t, f)' = AtEndpoint(t, f)
    BY <2>1, <1>4 DEF AtEndpoint
  <2> QED
    BY <2>1, <2>2 DEF LimiterInv, EndpointBound, JointBound
<1>11. ServerBound'
  <2> SUFFICES ASSUME NEW t \in Int, NEW q \in Servers
               PROVE  Cardinality(Let(t, q)') <= ServerLimit
    BY DEF ServerBound
  <2>1. CASE m \notin Let(t, q)'
    <3>1. Let(t, q)' = Let(t, q)
      BY <2>1, <1>4, <1>5 DEF Let, Within
    <3> QED
      BY <3>1 DEF LimiterInv, ServerBound
  <2>2. CASE m \in Let(t, q)'
    <3>1. q = p /\ ~full /\ time \in t .. t + Window - 1
      BY <2>2, <1>2, <1>4 DEF Let, Within, Outcomes
    <3>2. Let(t, q)' \subseteq kept \cup {m}
      <4> SUFFICES ASSUME NEW k \in Let(t, q)', k # m
                   PROVE  k \in kept
        OBVIOUS
      <4>1. /\ k \in DOMAIN sent /\ sent[k].outcome # "limited" /\ sent[k].process = p
            /\ sent[k].stamp >= t
        BY <1>4, <1>5, <3>1, <1>3 DEF Let, Within
      <4>2. time - sent[k].stamp < Window
        BY <4>1, <3>1, <1>0, <1>3, LimiterAssumption
      <4>3. k \in recent[p]
        BY <4>1, <4>2, <1>0, <1>3, LimiterAssumption DEF LimiterInv, CountedListed
      <4> QED
        BY <4>2, <4>3 DEF kept
    <3>3. IsFiniteSet(kept) /\ Cardinality(kept) \in Nat
      BY <1>0, <1>3, SentFacts, SubsetsAreSmaller
    <3>4. /\ IsFiniteSet(kept \cup {m})
          /\ Cardinality(kept \cup {m}) <= Cardinality(kept) + 1
      <4>1. /\ IsFiniteSet(kept \cup {m})
            /\ Cardinality(kept \cup {m}) = IF m \in kept THEN Cardinality(kept) ELSE Cardinality(kept) + 1
        BY <3>3, FS_AddElement
      <4> HIDE DEF m
      <4> QED
        BY <4>1, <3>3
    <3>5. Cardinality(kept) < ServerLimit
      BY <3>1, <3>3, LimiterAssumption DEF full
    <3>6. Cardinality(Let(t, q)') \in Nat /\ Cardinality(kept \cup {m}) \in Nat
          /\ Cardinality(Let(t, q)') <= Cardinality(kept \cup {m})
      BY <3>2, <3>4, SubsetsAreSmaller
    <3> QED
      BY <3>3, <3>4, <3>5, <3>6, LimiterAssumption
  <2> QED
    BY <2>1, <2>2
<1>12. Justified'
  <2>1. \A k \in DOMAIN sent : CountedAround(k)' = CountedAround(k)
    BY <1>2, <1>4, <1>5 DEF CountedAround, Within
  <2> QED
    BY <1>2, <1>4, <1>5, <2>1 DEF LimiterInv, Justified
<1> QED
  BY <1>6, <1>7, <1>8, <1>9, <1>10, <1>11, <1>12 DEF LimiterInv

\* The pipeline: whatever was admitted in a window shorter by the delay, before
\* a request of the same window is counted, is in the set that is counted.
LEMMA WindowStep ==
    ASSUME LimiterInv, NEW n, SlidingWindow(n)
    PROVE  LimiterInv'
<1> DEFINE kept == {k \in zset : sent[k].stamp > sent[n].stamp - Window} \cup {n}
           over == Cardinality(kept) > Limit[sent[n].endpoint]
           o == IF over THEN "rejected" ELSE "admitted"
<1>0. LimiterTypeOK /\ time \in Nat /\ n \in Pending
  BY SentFacts DEF LimiterInv, SlidingWindow
<1>1. /\ sent' = [sent EXCEPT ![n].outcome = o]
      /\ time' = time /\ recent' = recent /\ zset' = kept
  BY DEF SlidingWindow
<1>2. /\ zset \subseteq DOMAIN sent /\ n \in DOMAIN sent /\ kept \subseteq DOMAIN sent
      /\ \A k \in DOMAIN sent : sent[k].stamp \in Nat /\ sent[k].stamp <= time
      /\ sent[n].endpoint \in Endpoints
      /\ time <= sent[n].stamp + MaxDelay
      /\ Limit[sent[n].endpoint] \in Nat
  BY <1>0, SentFacts, LimiterAssumption DEF LimiterTypeOK, LimiterInv, Prompt, Pending
<1>3. IsFiniteSet(kept) /\ Cardinality(kept) \in Nat
  BY <1>0, <1>2, SentFacts, SubsetsAreSmaller
<1> HIDE DEF kept, over
<1>4. LimiterTypeOK' /\ Prompt' /\ CountedListed' /\ ServerBound'
  BY <1>0, <1>1, <1>2, DecideKeepsTypes
<1>5. /\ DOMAIN sent' = DOMAIN sent /\ sent[n].outcome = "pending"
      /\ \A k \in DOMAIN sent : /\ sent'[k].process = sent[k].process
                                /\ sent'[k].endpoint = sent[k].endpoint
                                /\ sent'[k].stamp = sent[k].stamp
                                /\ sent'[k].outcome = IF k = n THEN o ELSE sent[k].outcome
  <2>1. o \in {"admitted", "rejected", "unchecked"}
    OBVIOUS
  <2> HIDE DEF o
  <2> QED
    BY <2>1, <1>0, <1>1, DecideFacts
<1>6. Remembered'
  <2>1. \A k \in kept : Counted(k)'
    BY <1>2, <1>5 DEF LimiterInv, Remembered, Counted, kept
  <2>2. ASSUME NEW k \in DOMAIN sent, Counted(k)', k \notin kept
        PROVE  sent[k].stamp + Window <= time
    <3>1. k # n /\ Counted(k)
      BY <2>2, <1>5 DEF Counted, kept
    <3>2. CASE k \in zset
      BY <3>1, <3>2, <2>2, <1>0, <1>2, LimiterAssumption DEF kept
    <3>3. CASE k \notin zset
      BY <3>1, <3>3 DEF LimiterInv, Remembered
    <3> QED
      BY <3>2, <3>3
  <2> QED
    BY <2>1, <2>2, <1>1, <1>5 DEF Remembered
<1>7. ASSUME NEW t \in Int, n \notin AdmittedIn(t)'
      PROVE  /\ AdmittedIn(t)' = AdmittedIn(t)
             /\ \A e \in Endpoints : AtEndpoint(t, e)' = AtEndpoint(t, e)
  <2>1. AdmittedIn(t)' = AdmittedIn(t) /\ AdmittedIn(t) \subseteq DOMAIN sent
    BY <1>5, <1>7 DEF AdmittedIn, Within
  <2> QED
    BY <1>5, <2>1 DEF AtEndpoint
<1>8. ASSUME NEW t \in Int, n \in AdmittedIn(t)'
      PROVE  /\ AdmittedIn(t)' \subseteq kept
             /\ Cardinality(kept) <= Limit[sent[n].endpoint]
  <2>1. sent[n].stamp \in t .. t + (Window - MaxDelay) - 1 /\ o = "admitted"
    BY <1>2, <1>5, <1>8 DEF AdmittedIn, Within
  <2>2. ASSUME NEW k \in AdmittedIn(t)', k # n
        PROVE  k \in kept
    <3>1. k \in DOMAIN sent /\ Counted(k) /\ sent[k].stamp >= t
      BY <2>2, <1>2, <1>5 DEF AdmittedIn, Within, Counted
    <3>2. sent[k].stamp + Window > time /\ sent[k].stamp > sent[n].stamp - Window
      BY <3>1, <2>1, <1>0, <1>2, LimiterAssumption
    <3>3. k \in zset
      BY <3>1, <3>2, <1>0, <1>2, LimiterAssumption DEF LimiterInv, Remembered
    <3> QED
      BY <3>2, <3>3 DEF kept
  <2>3. n \in kept
    BY DEF kept
  <2>4. ~over
    BY <2>1
  <2> QED
    BY <2>2, <2>3, <2>4, <1>2, <1>3 DEF over
<1>9. EndpointBound' /\ JointBound'
  <2>1. ASSUME NEW t \in Int, NEW e \in Endpoints
        PROVE  Cardinality(AtEndpoint(t, e)') <= Limit[e]
    <3>1. CASE n \notin AdmittedIn(t)'
      BY <3>1, <1>7 DEF LimiterInv, EndpointBound
    <3>2. CASE n \in AdmittedIn(t)' /\ e = sent[n].endpoint
      <4>1. AtEndpoint(t, e)' \subseteq kept
        BY <3>2, <1>8 DEF AtEndpoint
      <4>2. /\ Cardinality(AtEndpoint(t, e)') \in Nat
            /\ Cardinality(AtEndpoint(t, e)') <= Cardinality(kept)
        BY <4>1, <1>3, SubsetsAreSmaller
      <4> QED
        BY <4>2, <3>2, <1>2, <1>3, <1>8
    <3>3. CASE n \in AdmittedIn(t)' /\ e # sent[n].endpoint
      <4>1. AtEndpoint(t, e)' = AtEndpoint(t, e)
        BY <3>3, <1>2, <1>5 DEF AtEndpoint, AdmittedIn, Within
      <4> QED
        BY <4>1 DEF LimiterInv, EndpointBound
    <3> QED
      BY <3>1, <3>2, <3>3
  <2>2. ASSUME NEW t \in Int
        PROVE  \E e \in Endpoints : Cardinality(AdmittedIn(t)') <= Limit[e]
    <3>1. CASE n \notin AdmittedIn(t)'
      BY <3>1, <1>7 DEF LimiterInv, JointBound
    <3>2. CASE n \in AdmittedIn(t)'
      <4>1. /\ Cardinality(AdmittedIn(t)') \in Nat
            /\ Cardinality(AdmittedIn(t)') <= Cardinality(kept)
        BY <3>2, <1>3, <1>8, SubsetsAreSmaller
      <4> QED
        BY <4>1, <3>2, <1>2, <1>3, <1>8
    <3> QED
      BY <3>1, <3>2
  <2> QED
    BY <2>1, <2>2 DEF EndpointBound, JointBound
<1>10. Justified'
  <2> SUFFICES ASSUME NEW k \in DOMAIN sent, sent'[k].outcome = "rejected"
               PROVE  Cardinality(CountedAround(k)') > Limit[sent[k].endpoint]
    BY <1>5 DEF Justified
  <2>0. /\ CountedAround(k)' \subseteq DOMAIN sent /\ IsFiniteSet(CountedAround(k)')
        /\ Limit[sent[k].endpoint] \in Nat
    <3>1. CountedAround(k)' \subseteq DOMAIN sent
      BY <1>5 DEF CountedAround, Within
    <3> QED
      BY <3>1, <1>0, SentFacts, SubsetsAreSmaller, LimiterAssumption
  <2>1. CASE k # n
    <3>1. sent[k].outcome = "rejected"
      BY <2>1, <1>5
    <3>2. CountedAround(k) \subseteq CountedAround(k)'
      BY <1>5 DEF CountedAround, Within
    <3>3. /\ Cardinality(CountedAround(k)) <= Cardinality(CountedAround(k)')
          /\ Cardinality(CountedAround(k)) \in Nat /\ Cardinality(CountedAround(k)') \in Nat
      BY <3>2, <2>0, SubsetsAreSmaller
    <3> QED
      BY <3>1, <3>3, <2>0 DEF LimiterInv, Justified
  <2>2. CASE k = n
    <3>1. over
      BY <2>2, <1>2, <1>5
    <3>2. kept \subseteq CountedAround(k)'
      <4> SUFFICES ASSUME NEW j \in kept PROVE j \in CountedAround(k)'
        OBVIOUS
      <4>1. j \in DOMAIN sent /\ sent'[j].outcome \in {"admitted", "rejected"}
        BY <1>2, <1>5 DEF kept, LimiterInv, Remembered, Counted
      <4>2. sent[j].stamp > sent[n].stamp - Window /\ sent[j].stamp <= time
        BY <4>1, <1>2, LimiterAssumption DEF kept
      <4>3. sent[j].stamp \in sent[n].stamp - Window + 1 ..
                                 sent[n].stamp - Window + 1 + (2 * Window - 1) - 1
        BY <4>1, <4>2, <1>0, <1>2, LimiterAssumption
      <4> QED
        BY <4>1, <4>3, <2>2, <1>2, <1>5 DEF CountedAround, Within
    <3>3. /\ Cardinality(kept) <= Cardinality(CountedAround(k)')
          /\ Cardinality(CountedAround(k)') \in Nat
      BY <3>2, <2>0, SubsetsAreSmaller
    <3> QED
      BY <3>1, <3>3, <2>2, <1>2, <1>3 DEF over
  <2> QED
    BY <2>1, <2>2
<1> QED
  BY <1>4, <1>6, <1>9, <1>10 DEF LimiterInv

-----------------------------------------------------------------------------

LEMMA LimiterNextStep == LimiterInv /\ [LimiterNext]_limiterVars => LimiterInv'
<1> SUFFICES ASSUME LimiterInv, [LimiterNext]_limiterVars PROVE LimiterInv'
  OBVIOUS
<1>1. CASE UNCHANGED limiterVars
  <2>1. time' = time /\ sent' = sent /\ recent' = recent /\ zset' = zset
    BY <1>1 DEF limiterVars
  <2>2. LimiterTypeOK' /\ Prompt' /\ Remembered' /\ CountedListed'
    BY <2>1 DEF LimiterInv, LimiterTypeOK, Prompt, Pending, Remembered, Counted, CountedListed
  <2>3. EndpointBound' /\ JointBound' /\ ServerBound' /\ Justified'
    BY <2>1 DEF LimiterInv, EndpointBound, JointBound, ServerBound, Justified,
                AtEndpoint, AdmittedIn, Let, CountedAround, Within
  <2> QED
    BY <2>2, <2>3 DEF LimiterInv
<1>2. CASE Tick
  BY <1>2, TickStep
<1>3. CASE \E p \in Servers, e \in Endpoints : RateLimitMiddleware(p, e)
  BY <1>3, MiddlewareStep
<1>4. CASE \E n \in 1 .. MaxSent : SlidingWindow(n) \/ RedisFails(n)
  BY <1>4, WindowStep, FailureStep
<1> QED
  BY <1>1, <1>2, <1>3, <1>4 DEF LimiterNext

\* The inductive invariant of the limiters holds in every reachable state.
THEOREM LimiterHolds == LimiterSpec => []LimiterInv
<1> QED
  BY LimiterInitStep, LimiterNextStep, PTL DEF LimiterSpec

\* Every variable has its type (rate_limiter.py, main.py:86-109).
THEOREM LimiterTypesHold == LimiterSpec => []LimiterTypeOK
<1>1. LimiterInv => LimiterTypeOK
  BY DEF LimiterInv
<1> QED
  BY <1>1, LimiterHolds, PTL

\* FR8.1, for any limits: what the processes' pipelines admit, in whatever order
\* Redis executes them, stays below the limits, what a process lets through
\* below its own, and nobody is rejected who sent less (rate_limiter.py:48-76).
THEOREM AdmissionIsBounded == LimiterSpec => []AdmittedIsBounded
<1>1. LimiterInv => AdmittedIsBounded
  <2> SUFFICES ASSUME LimiterInv PROVE AdmittedIsBounded
    OBVIOUS
  <2>1. \A t \in 0 .. time : t \in Int
    BY SentFacts DEF LimiterInv
  <2>2. \A t \in Int, e \in Endpoints : Cardinality(
            {n \in Within(t, Window - MaxDelay, {"admitted"}) : sent[n].endpoint = e}) <= Limit[e]
    BY DEF LimiterInv, EndpointBound, AtEndpoint, AdmittedIn
  <2>3. \A t \in Int : \E e \in Endpoints :
            Cardinality(Within(t, Window - MaxDelay, {"admitted"})) <= Limit[e]
    BY DEF LimiterInv, JointBound, AdmittedIn
  <2>4. \A t \in Int, p \in Servers : Cardinality(
            {n \in Within(t, Window, Outcomes \ {"limited"}) : sent[n].process = p}) <= ServerLimit
    BY DEF LimiterInv, ServerBound, Let
  <2>5. \A n \in DOMAIN sent : sent[n].outcome = "rejected" =>
            Cardinality(Within(sent[n].stamp - Window + 1, 2 * Window - 1, {"admitted", "rejected"}))
                > Limit[sent[n].endpoint]
    BY DEF LimiterInv, Justified, CountedAround
  <2> QED
    BY <2>1, <2>2, <2>3, <2>4, <2>5 DEF AdmittedIsBounded
<1> QED
  BY <1>1, LimiterHolds, PTL
=============================================================================
