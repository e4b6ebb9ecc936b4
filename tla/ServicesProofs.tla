--------------------------- MODULE ServicesProofs ---------------------------
(***************************************************************************)
(* Proofs about the accounts, the event stream and all components together *)
(* as Services composes them, for any values of their constants.  The      *)
(* other components have a proof module each.                              *)
(***************************************************************************)
EXTENDS Services, DeliverablesProofs, ModelRegistryProofs, RateLimiterProofs, ConversationsProofs,
        FiniteSetTheorems, SequenceTheorems, WellFoundedInduction, TLAPS

(***************************************************************************)
(* Proofs about Accounts, for any number of processes and visitors and any *)
(* names.                                                                  *)
(*                                                                         *)
(* Both tests are made before the write and without a lock; the unique     *)
(* constraints decide.  AllOrNothing is why losing the race for the seed   *)
(* is harmless: a table that has one of the default users has all of them, *)
(* because nobody else can register before a process serves.               *)
(***************************************************************************)

AllOrNothing == users = {} \/ DefaultUsers \subseteq users

\* A process serves, and a registration is under way, only with the accounts.
SeededFirst ==
    /\ Serving => DefaultUsers \subseteq users
    /\ \A v \in Visitors : visit[v].at = "checked" => DefaultUsers \subseteq users

UniqueNames == \A u, v \in users : u.username = v.username => u = v

\* The administrator is the one that was seeded.
OneAdmin == \A u \in users : u.role = "ADMIN" <=> u.username = "admin"

\* A registration under way is that of a viewer.
VisitsType ==
    /\ visit \in [Visitors -> [at: {"new", "ended"}] \cup [at: {"checked"},
                     user: {User(n, e, "VIEWER", {"general"}) : n, e \in Names}]]
    /\ boot \in [Workers -> {"down", "seeding", "up"}]
    /\ users \subseteq DefaultUsers \cup {User(n, e, "VIEWER", {"general"}) : n, e \in Names}

\* A token names an account that is there.
TokensKnown == tokens \subseteq users

AccountsInv == VisitsType /\ AllOrNothing /\ SeededFirst /\ UniqueNames /\ OneAdmin /\ TokensKnown

-----------------------------------------------------------------------------

\* The default users have different names; one of them is the administrator.
LEMMA DefaultFacts ==
    /\ \A u, v \in DefaultUsers : u.username = v.username => u = v
    /\ \A u \in DefaultUsers : u.role = "ADMIN" <=> u.username = "admin"
    /\ \E u \in DefaultUsers : u.username = "admin"
    /\ DefaultUsers # {}
BY DEF DefaultUsers, User

\* A step that leaves the accounts and the registrations alone.
LEMMA AccountsStay ==
    ASSUME AccountsInv, users' = users, visit' = visit, tokens' \subseteq users,
           boot' \in [Workers -> {"down", "seeding", "up"}],
           Serving' => DefaultUsers \subseteq users
    PROVE  AccountsInv'
<1>1. VisitsType' /\ AllOrNothing' /\ UniqueNames' /\ OneAdmin' /\ TokensKnown'
  BY DEF AccountsInv, VisitsType, AllOrNothing, UniqueNames, OneAdmin, TokensKnown
<1>2. SeededFirst'
  BY DEF AccountsInv, SeededFirst
<1> QED
  BY <1>1, <1>2 DEF AccountsInv

LEMMA AccountsInitStep == AccountInit => AccountsInv
<1> SUFFICES ASSUME AccountInit PROVE AccountsInv
  OBVIOUS
<1>1. users = {} /\ tokens = {} /\ boot = [p \in Workers |-> "down"]
      /\ visit = [v \in Visitors |-> [at |-> "new"]]
  BY DEF AccountInit
<1>2. VisitsType
  BY <1>1 DEF VisitsType
<1>3. SeededFirst
  BY <1>1 DEF SeededFirst, Serving
<1> QED
  BY <1>1, <1>2, <1>3 DEF AccountsInv, AllOrNothing, UniqueNames, OneAdmin, TokensKnown

LEMMA CheckStep == ASSUME AccountsInv, NEW p \in Workers, CheckSeeds(p) PROVE AccountsInv'
<1>1. /\ boot' = [boot EXCEPT ![p] = IF Named("admin") = {} THEN "seeding" ELSE "up"]
      /\ users' = users /\ visit' = visit /\ tokens' = tokens
  BY DEF CheckSeeds
<1>2. boot' \in [Workers -> {"down", "seeding", "up"}]
  BY <1>1 DEF AccountsInv, VisitsType
<1>3. Serving' => DefaultUsers \subseteq users
  <2>1. CASE Named("admin") = {}
    BY <2>1, <1>1 DEF AccountsInv, VisitsType, SeededFirst, Serving
  <2>2. CASE Named("admin") # {}
    BY <2>2 DEF AccountsInv, AllOrNothing, Named
  <2> QED
    BY <2>1, <2>2
<1> QED
  BY <1>1, <1>2, <1>3, AccountsStay DEF AccountsInv, TokensKnown

LEMMA SeedStep == ASSUME AccountsInv, NEW p \in Workers, SeedDefaultUsers(p) PROVE AccountsInv'
<1>1. /\ users' = IF Taken(DefaultUsers) THEN users ELSE users \cup DefaultUsers
      /\ boot' = [boot EXCEPT ![p] = "up"] /\ visit' = visit /\ tokens' = tokens
  BY DEF SeedDefaultUsers
<1>2. boot' \in [Workers -> {"down", "seeding", "up"}]
  BY <1>1 DEF AccountsInv, VisitsType
<1>3. CASE Taken(DefaultUsers)
  <2>1. DefaultUsers \subseteq users /\ users' = users
    BY <1>1, <1>3 DEF Taken, AccountsInv, AllOrNothing
  <2> QED
    BY <1>1, <1>2, <2>1, AccountsStay DEF AccountsInv, TokensKnown
<1>4. CASE ~Taken(DefaultUsers)
  <2>1. users = {} \/ DefaultUsers \subseteq users
    BY DEF AccountsInv, AllOrNothing
  <2>2. users = {}
    BY <1>4, <2>1, DefaultFacts DEF Taken
  <2>3. users' = DefaultUsers
    BY <1>1, <1>4, <2>2
  <2>4. VisitsType'
    BY <1>1, <1>2, <2>3 DEF AccountsInv, VisitsType
  <2>5. AllOrNothing' /\ SeededFirst'
    BY <2>3 DEF AllOrNothing, SeededFirst
  <2>6. UniqueNames' /\ OneAdmin'
    BY <2>3, DefaultFacts DEF UniqueNames, OneAdmin
  <2>7. TokensKnown'
    BY <1>1, <2>2 DEF AccountsInv, TokensKnown
  <2> QED
    BY <2>4, <2>5, <2>6, <2>7 DEF AccountsInv
<1> QED
  BY <1>3, <1>4

LEMMA StopStep == ASSUME AccountsInv, NEW p \in Workers, Stop(p) PROVE AccountsInv'
<1>1. /\ boot' = [boot EXCEPT ![p] = "down"]
      /\ users' = users /\ visit' = visit /\ tokens' = tokens
  BY DEF Stop
<1>2. boot' \in [Workers -> {"down", "seeding", "up"}]
  BY <1>1 DEF AccountsInv, VisitsType
<1>3. Serving' => Serving
  BY <1>1 DEF AccountsInv, VisitsType, Serving
<1> QED
  BY <1>1, <1>2, <1>3, AccountsStay DEF AccountsInv, TokensKnown, SeededFirst

LEMMA RegisterStep ==
    ASSUME AccountsInv, NEW v \in Visitors, NEW n \in Names, NEW e \in Names, RegisterUser(v, n, e)
    PROVE  AccountsInv'
<1>1. /\ Serving
      /\ visit' = [visit EXCEPT ![v] = IF Named(n) # {} THEN [at |-> "ended"]
                                      ELSE [at |-> "checked", user |-> User(n, e, "VIEWER", {"general"})]]
      /\ users' = users /\ boot' = boot /\ tokens' = tokens
  BY DEF RegisterUser
<1>2. DefaultUsers \subseteq users
  BY <1>1 DEF AccountsInv, SeededFirst
<1>3. VisitsType'
  BY <1>1 DEF AccountsInv, VisitsType
<1>4. AllOrNothing' /\ SeededFirst' /\ UniqueNames' /\ OneAdmin' /\ TokensKnown'
  BY <1>1, <1>2 DEF AccountsInv, AllOrNothing, SeededFirst, UniqueNames, OneAdmin, TokensKnown
<1> QED
  BY <1>3, <1>4 DEF AccountsInv

LEMMA InsertStep == ASSUME AccountsInv, NEW v \in Visitors, InsertUser(v) PROVE AccountsInv'
<1> DEFINE new == visit[v].user
<1>1. /\ visit[v].at = "checked"
      /\ users' = IF Taken({new}) THEN users ELSE users \cup {new}
      /\ visit' = [visit EXCEPT ![v] = [at |-> "ended"]]
      /\ boot' = boot /\ tokens' = tokens
  BY DEF InsertUser
<1>2. PICK n \in Names, e \in Names : new = User(n, e, "VIEWER", {"general"})
  BY <1>1 DEF AccountsInv, VisitsType
<1>3. DefaultUsers \subseteq users /\ users \subseteq users'
  BY <1>1 DEF AccountsInv, SeededFirst
<1> HIDE DEF new
<1>4. VisitsType'
  BY <1>1, <1>2 DEF AccountsInv, VisitsType
<1>5. AllOrNothing' /\ SeededFirst' /\ TokensKnown'
  BY <1>1, <1>3 DEF AccountsInv, AllOrNothing, SeededFirst, TokensKnown
<1>6. UniqueNames' /\ OneAdmin'
  <2>1. CASE Taken({new})
    BY <1>1, <2>1 DEF AccountsInv, UniqueNames, OneAdmin
  <2>2. CASE ~Taken({new})
    <3>1. \A u \in users : u.username # new.username
      BY <2>2 DEF Taken
    <3>2. new.username # "admin" /\ new.role = "VIEWER"
      BY <1>2, <1>3, <3>1, DefaultFacts DEF User
    <3> QED
      BY <1>1, <2>2, <3>1, <3>2 DEF AccountsInv, UniqueNames, OneAdmin
  <2> QED
    BY <2>1, <2>2
<1> QED
  BY <1>4, <1>5, <1>6 DEF AccountsInv

LEMMA TokenStep ==
    ASSUME AccountsInv, (\E n \in Names : Login(n)) \/ (\E t \in tokens : Expire(t))
    PROVE  AccountsInv'
<1>1. users' = users /\ visit' = visit /\ boot' = boot /\ tokens' \subseteq users
  BY DEF Login, Expire, Named, AccountsInv, TokensKnown
<1> QED
  BY <1>1, AccountsStay DEF AccountsInv, VisitsType, SeededFirst, Serving

LEMMA AccountsNextStep == AccountsInv /\ [AccountNext]_accountVars => AccountsInv'
<1> SUFFICES ASSUME AccountsInv, [AccountNext]_accountVars PROVE AccountsInv'
  OBVIOUS
<1>1. CASE UNCHANGED accountVars
  BY <1>1, AccountsStay DEF accountVars, AccountsInv, VisitsType, SeededFirst, Serving, TokensKnown
<1>2. CASE \E p \in Workers : CheckSeeds(p) \/ SeedDefaultUsers(p) \/ Stop(p)
  BY <1>2, CheckStep, SeedStep, StopStep
<1>3. CASE \E v \in Visitors : InsertUser(v) \/ \E n, e \in Names : RegisterUser(v, n, e)
  BY <1>3, InsertStep, RegisterStep
<1>4. CASE (\E n \in Names : Login(n)) \/ (\E t \in tokens : Expire(t))
  BY <1>4, TokenStep
<1> QED
  BY <1>1, <1>2, <1>3, <1>4 DEF AccountNext

\* The inductive invariant of the accounts holds in every reachable state.
THEOREM AccountsHold == AccountSpec => []AccountsInv
<1> QED
  BY AccountsInitStep, AccountsNextStep, PTL DEF AccountSpec

\* However many processes seed at once and whoever registers: a serving process
\* has the default accounts, names are unique, and a token administers only if
\* it is the seeded admin's (main.py:156-210, router.py:51-102, auth.py:108-129).
THEOREM AccountsSound == AccountSpec => []AccountsAreSound
<1>1. AccountsInv => AccountsAreSound
  <2> SUFFICES ASSUME AccountsInv PROVE AccountsAreSound
    OBVIOUS
  <2>1. Serving => DefaultUsers \subseteq users
    BY DEF AccountsInv, SeededFirst
  <2>2. ASSUME NEW t \in tokens PROVE MayAdminister(t) <=> t.username = "admin"
    BY <2>2 DEF AccountsInv, TokensKnown, OneAdmin, UniqueNames, MayAdminister, CurrentUser, Named
  <2> QED
    BY <2>1, <2>2 DEF AccountsInv, UniqueNames, AccountsAreSound
<1> QED
  BY <1>1, AccountsHold, PTL

-----------------------------------------------------------------------------
(***************************************************************************)
(* Proofs about TaskStream, for any connections and any number of events.  *)
(*                                                                         *)
(* A broadcast walks over a list that others change.  Nobody is sent an    *)
(* event twice because a removal moves connections only towards the front, *)
(* over the place the walk has reached and never back behind it; and a     *)
(* connection is skipped only by such a move, which is what shrunk says.   *)
(***************************************************************************)

CastType ==
    [at : {"idle", "next", "send", "clean"}, list : ListIds \cup {NoList},
     next : Nat \ {0}, failed : Seq(Clients), to : SUBSET Clients,
     event : 0 .. MaxEvents, audience : SUBSET Clients, shrunk : BOOLEAN]

StreamTypes ==
    /\ lists \in [ListIds -> Seq(Clients)]
    /\ \A l \in ListIds : IsInjective(lists[l])
    /\ current \in ListIds \cup {NoList}
    /\ client \in [Clients -> ClientStates]
    /\ received \in [Clients -> Seq(0 .. MaxEvents)]
    /\ cast \in CastType

\* Only the list in ws_connections has members, and their handlers run.
MembersRun ==
    /\ \A l \in ListIds : l # current => lists[l] = << >>
    /\ \A l \in ListIds : \A i \in DOMAIN lists[l] : client[lists[l][i]] \notin {"new", "left"}

\* The connection at i of the list is one the walk will still come to.
Ahead(c) == \E i \in DOMAIN lists[cast.list] : i >= cast.next /\ lists[cast.list][i] = c

Walking ==
    /\ cast.at # "idle" => cast.list \in ListIds
    /\ cast.at = "send" => \E c \in Clients : cast.to = {c} /\ client[c] # "new" /\ ~Ahead(c)

Coming(c) ==
    \/ cast.at = "send" /\ c \in cast.to
    \/ cast.at \in {"next", "send"} /\ Ahead(c)

\* The events come in order, and the one under way not to one it is coming to.
InOrder ==
    \A c \in Clients :
        /\ \A i, j \in DOMAIN received[c] : i < j => received[c][i] < received[c][j]
        /\ \A i \in DOMAIN received[c] : received[c][i] <= cast.event
        /\ Coming(c) => \A i \in DOMAIN received[c] : received[c][i] < cast.event
        /\ client[c] = "new" => received[c] = << >>

\* Where no connection was removed, who has not got the event will get it.
Reaching ==
    /\ \A c \in cast.audience : client[c] # "new"
    /\ cast.at # "idle" /\ ~cast.shrunk =>
         \A c \in cast.audience : client[c] = "open" => cast.event \in Range(received[c]) \/ Coming(c)

SInv == StreamTypes /\ MembersRun /\ Walking /\ InOrder /\ Reaching

----------------------------------------------------------------------------
(***************************************************************************)
(* What is left of a list.                                                 *)
(***************************************************************************)

\* A growing sequence of places is nowhere below its index.
LEMMA GrowingPlaces ==
    ASSUME NEW n \in Nat, NEW place, \A k \in 1 .. n : place[k] \in Nat \ {0},
           \A k, l \in 1 .. n : k < l => place[k] < place[l]
    PROVE  \A k \in 1 .. n : place[k] >= k
<1> SUFFICES ASSUME NEW x \in 1 .. n, ~ (place[x] >= x)
             PROVE  FALSE
  OBVIOUS
<1>1. PICK T : T = {k \in 1 .. n : ~ (place[k] >= k)}
  OBVIOUS
<1>2. T \subseteq Nat /\ T # {}
  BY <1>1
<1>3. PICK k \in T : \A j \in T : k <= j
  BY <1>2, Least
<1>4. k \in 1 .. n /\ place[k] < k /\ place[k] \in Nat \ {0}
  BY <1>1
<1>5. k - 1 \in 1 .. n /\ k - 1 < k
  BY <1>4
<1>6. k - 1 \notin T
  <2> SUFFICES ASSUME k - 1 \in T PROVE FALSE
    OBVIOUS
  <2>1. k <= k - 1
    BY <1>3
  <2> QED
    BY <1>4, <2>1
<1>7. place[k - 1] >= k - 1 /\ place[k - 1] < place[k]
  BY <1>1, <1>4, <1>5, <1>6
<1>8. place[k - 1] \in Nat
  BY <1>5
<1> QED
  BY <1>4, <1>7, <1>8

\* What is left of a list: nothing new, nothing twice, everything that should
\* stay, and nothing further from the front than it was.
LEMMA RestIsCloser ==
    ASSUME NEW s \in Seq(Clients), IsInjective(s), NEW gone, NEW t \in Rest(s, gone)
    PROVE  /\ t \in Seq(Clients) /\ IsInjective(t)
           /\ \A k \in DOMAIN t : t[k] \notin gone /\ \E i \in DOMAIN s : i >= k /\ t[k] = s[i]
<1>1. PICK n \in Nat : DOMAIN s = 1 .. n
  OBVIOUS
<1>2. PICK S : S = Range(s) \ gone
  OBVIOUS
<1>3. t \in SetToSeqs(S)
        /\ \A i, j \in DOMAIN s, k, l \in DOMAIN t : i < j /\ t[k] = s[i] /\ t[l] = s[j] => k < l
  BY <1>2 DEF Rest
<1>4. IsFiniteSet(S)
  <2>1. s \in Surjection(1 .. n, Range(s))
    BY <1>1 DEF Surjection, Range
  <2>2. IsFiniteSet(Range(s))
    BY <2>1, FS_Interval, FS_Surjection
  <2> QED
    BY <1>2, <2>2, FS_Subset
<1>5. t \in Seq(S) /\ IsInjective(t)
  BY <1>3, <1>4, AllThere DEF IsInjective
<1>6. S \subseteq Clients
  BY <1>2 DEF Range
<1>7. t \in Seq(Clients)
  BY <1>5, <1>6
<1>8. PICK m \in Nat : DOMAIN t = 1 .. m
  BY <1>5
<1>9. PICK place : place = [k \in 1 .. m |-> CHOOSE i \in DOMAIN s : s[i] = t[k]]
  OBVIOUS
<1>10. \A k \in 1 .. m : t[k] \notin gone /\ place[k] \in DOMAIN s /\ s[place[k]] = t[k]
  <2> TAKE k \in 1 .. m
  <2>1. t[k] \in S
    BY <1>5, <1>8
  <2>2. \E i \in DOMAIN s : s[i] = t[k]
    BY <1>2, <2>1 DEF Range
  <2> QED
    BY <1>2, <1>9, <2>1, <2>2
<1>11. \A k, l \in 1 .. m : k < l => place[k] < place[l]
  <2> SUFFICES ASSUME NEW k \in 1 .. m, NEW l \in 1 .. m, k < l
               PROVE  place[k] < place[l]
    OBVIOUS
  <2>1. /\ place[k] \in 1 .. n /\ s[place[k]] = t[k]
        /\ place[l] \in 1 .. n /\ s[place[l]] = t[l]
    BY <1>1, <1>10
  <2>2. place[k] # place[l]
    <3>1. t[k] # t[l]
      BY <1>5, <1>8 DEF IsInjective
    <3> QED
      BY <2>1, <3>1
  <2>3. ~ (place[l] < place[k])
    BY <1>1, <1>3, <1>8, <2>1
  <2> QED
    BY <2>1, <2>2, <2>3
<1>12. \A k \in 1 .. m : place[k] >= k
  <2>1. \A k \in 1 .. m : place[k] \in Nat \ {0}
    BY <1>1, <1>10
  <2> QED
    BY <1>11, <2>1, GrowingPlaces
<1> QED
  BY <1>5, <1>7, <1>8, <1>10, <1>12

----------------------------------------------------------------------------
(***************************************************************************)
(* The steps.                                                              *)
(***************************************************************************)

LEMMA StreamInits == StreamInit => SInv
<1> SUFFICES ASSUME StreamInit PROVE SInv
  OBVIOUS
<1>1. StreamTypes
  BY EventsAssumption DEF StreamInit, StreamTypes, CastType, ListIds, NoList, ClientStates, Quiet, IsInjective
<1>2. MembersRun /\ Walking
  BY DEF StreamInit, MembersRun, Walking, Quiet
<1>3. InOrder
  BY DEF StreamInit, InOrder, Coming, Quiet
<1>4. Reaching
  BY DEF StreamInit, Reaching, Quiet
<1> QED
  BY <1>1, <1>2, <1>3, <1>4 DEF SInv

\* The list a first connection gets is not the one a broadcast walks over.
LEMMA Fresh ==
    ASSUME StreamTypes
    PROVE  current = NoList =>
             /\ FreshList \in ListIds /\ FreshList # current
             /\ cast.at = "idle" \/ FreshList # cast.list
<1> SUFFICES ASSUME current = NoList
             PROVE  \E l \in ListIds : l # current /\ (cast.at = "idle" \/ l # cast.list)
  BY DEF FreshList
<1>1. 1 \in ListIds /\ 2 \in ListIds /\ 1 # current /\ 2 # current
  BY DEF ListIds, NoList
<1>2. CASE cast.list = 1
  BY <1>1, <1>2
<1>3. CASE cast.list # 1
  BY <1>1, <1>3
<1> QED
  BY <1>2, <1>3

\* A connection that others do not know yet is appended to the list.
LEMMA ConnectStep ==
    ASSUME SInv, NEW c \in Clients, Connect(c)
    PROVE  SInv'
<1>1. PICK l, old : /\ l = (IF current = NoList THEN FreshList ELSE current)
                    /\ old = (IF current = NoList THEN << >> ELSE lists[l])
  OBVIOUS
<1>2. /\ client[c] = "new" /\ current' = l
      /\ lists' = [lists EXCEPT ![l] = Append(old, c)]
      /\ client' = [client EXCEPT ![c] = "open"]
      /\ received' = received /\ cast' = cast
  BY <1>1 DEF Connect
<1>3. /\ l \in ListIds /\ old = lists[l]
      /\ current = l \/ (current = NoList /\ (cast.at = "idle" \/ l # cast.list))
  BY <1>1, Fresh DEF SInv, StreamTypes, CastType, MembersRun
<1>4. lists[l] \in Seq(Clients) /\ IsInjective(lists[l])
  BY <1>3 DEF SInv, StreamTypes, CastType
<1>5. \A i \in DOMAIN lists[l] : lists[l][i] # c
  BY <1>2, <1>3 DEF SInv, MembersRun
<1>6. PICK n \in Nat, new \in Seq(Clients) :
        /\ DOMAIN lists[l] = 1 .. n /\ DOMAIN new = 1 .. n + 1 /\ new = Append(lists[l], c)
        /\ new[n + 1] = c /\ \A i \in 1 .. n : new[i] = lists[l][i]
  <2>1. PICK n \in Nat : n = Len(lists[l])
    BY <1>4
  <2>2. DOMAIN lists[l] = 1 .. n
    BY <1>4, <2>1
  <2>3. PICK new : new = Append(lists[l], c)
    OBVIOUS
  <2>4. /\ new \in Seq(Clients) /\ Len(new) = n + 1 /\ new[n + 1] = c
        /\ \A i \in 1 .. n : new[i] = lists[l][i]
    BY <1>4, <2>1, <2>3, AppendProperties
  <2> QED
    BY <2>2, <2>3, <2>4
<1>7. lists' = [lists EXCEPT ![l] = new]
  BY <1>2, <1>3, <1>6
<1>8. /\ lists'[l] = new
      /\ \A k \in ListIds : k # l => lists'[k] = lists[k]
  BY <1>3, <1>7 DEF SInv, StreamTypes, CastType
<1>9. IsInjective(new)
  <2>1. \A i \in 1 .. n + 1 : i \in 1 .. n \/ i = n + 1
    OBVIOUS
  <2> QED
    BY <1>4, <1>5, <1>6, <2>1 DEF IsInjective
<1>10. StreamTypes'
  <2>1. \A k \in ListIds : lists'[k] \in Seq(Clients) /\ IsInjective(lists'[k])
    BY <1>6, <1>8, <1>9 DEF SInv, StreamTypes, CastType
  <2>2. lists' \in [ListIds -> Seq(Clients)]
    BY <1>6, <1>7 DEF SInv, StreamTypes, CastType
  <2>3. client' \in [Clients -> ClientStates]
    BY <1>2 DEF SInv, StreamTypes, CastType, ClientStates
  <2> QED
    BY <1>2, <1>3, <2>1, <2>2, <2>3 DEF SInv, StreamTypes, CastType
<1>11. \A d \in Clients : client'[d] = IF d = c THEN "open" ELSE client[d]
  BY <1>2 DEF SInv, StreamTypes, CastType
<1>12. MembersRun'
  <2>1. ASSUME NEW k \in ListIds, k # l PROVE lists'[k] = << >>
    BY <1>3, <1>8, <2>1 DEF SInv, MembersRun, ListIds, NoList
  <2>2. ASSUME NEW k \in ListIds, NEW i \in DOMAIN lists'[k]
        PROVE  client'[lists'[k][i]] \notin {"new", "left"}
    <3>1. CASE k # l
      BY <2>1, <2>2, <3>1
    <3>2. CASE k = l /\ i = n + 1
      BY <1>6, <1>8, <1>11, <3>2
    <3>3. CASE k = l /\ i # n + 1
      <4>1. i \in 1 .. n /\ lists'[k][i] = lists[l][i]
        BY <1>6, <1>8, <2>2, <3>3
      <4>2. client[lists[l][i]] \notin {"new", "left"} /\ lists[l][i] \in Clients
        BY <1>3, <1>4, <1>6, <4>1 DEF SInv, MembersRun
      <4> QED
        BY <1>11, <4>1, <4>2
    <3> QED
      BY <3>1, <3>2, <3>3
  <2> QED
    BY <1>2, <2>1, <2>2 DEF MembersRun
<1>13. ASSUME cast.at # "idle", NEW d \in Clients
       PROVE  /\ Ahead(d) => Ahead(d)'
              /\ Ahead(d)' => Ahead(d) \/ d = c
  <2>1. cast.list \in ListIds
    BY <1>13 DEF SInv, Walking
  <2>2. CASE cast.list # l
    BY <1>2, <1>8, <2>1, <2>2 DEF Ahead
  <2>3. CASE cast.list = l
    <3>1. lists[cast.list] = lists[l] /\ lists'[cast'.list] = new /\ cast'.next = cast.next
      BY <1>2, <1>8, <2>3
    <3>2. \A i \in 1 .. n + 1 : i \in 1 .. n \/ i = n + 1
      OBVIOUS
    <3>3. 1 .. n \subseteq 1 .. n + 1
      OBVIOUS
    <3> QED
      BY <1>6, <3>1, <3>2, <3>3 DEF Ahead
  <2> QED
    BY <2>2, <2>3
<1>14. Walking'
  BY <1>2, <1>11, <1>13 DEF SInv, Walking
<1>15. InOrder'
  <2>1. ASSUME NEW d \in Clients, Coming(d)' PROVE Coming(d) \/ d = c
    BY <1>2, <1>13, <2>1 DEF Coming
  <2> QED
    BY <1>2, <1>11, <2>1 DEF SInv, InOrder
<1>16. Reaching'
  <2>1. cast.audience \subseteq Clients
    BY DEF SInv, StreamTypes, CastType
  <2>2. ASSUME NEW d \in cast.audience PROVE d # c /\ client'[d] = client[d]
    BY <1>2, <1>11, <2>1 DEF SInv, Reaching
  <2>3. ASSUME NEW d \in Clients, Coming(d) PROVE Coming(d)'
    BY <1>2, <1>13, <2>3 DEF Coming
  <2> QED
    BY <1>2, <2>1, <2>2, <2>3 DEF SInv, Reaching
<1> QED
  BY <1>10, <1>12, <1>14, <1>15, <1>16 DEF SInv

\* A client closes, or its handler fails: the lists stay.
LEMMA ClientMoves ==
    ASSUME SInv, NEW c \in Clients, GoAway(c) \/ PingFails(c)
    PROVE  SInv'
<1>1. PICK x \in {"gone", "lost"} : client[c] # "new" /\ client' = [client EXCEPT ![c] = x]
  BY DEF GoAway, PingFails
<1>2. lists' = lists /\ current' = current /\ received' = received /\ cast' = cast
  BY DEF GoAway, PingFails
<1>3. \A d \in Clients : client'[d] = IF d = c THEN x ELSE client[d]
  BY <1>1 DEF SInv, StreamTypes, CastType
<1>4. \A d : (Ahead(d)' <=> Ahead(d)) /\ (Coming(d)' <=> Coming(d))
  BY <1>2 DEF Ahead, Coming
<1>5. StreamTypes'
  <2>1. client' \in [Clients -> ClientStates]
    BY <1>1 DEF SInv, StreamTypes, CastType, ClientStates
  <2> QED
    BY <1>2, <2>1 DEF SInv, StreamTypes, CastType
<1>6. MembersRun'
  <2>1. \A l \in ListIds : \A i \in DOMAIN lists[l] : lists[l][i] \in Clients
    BY DEF SInv, StreamTypes, CastType
  <2> QED
    BY <1>2, <1>3, <2>1 DEF SInv, MembersRun
<1>7. Walking'
  BY <1>1, <1>2, <1>3, <1>4 DEF SInv, Walking
<1>8. InOrder'
  BY <1>1, <1>2, <1>3, <1>4 DEF SInv, InOrder
<1>9. Reaching'
  <2>1. cast.audience \subseteq Clients
    BY DEF SInv, StreamTypes, CastType
  <2> QED
    BY <1>1, <1>2, <1>3, <1>4, <2>1 DEF SInv, Reaching
<1> QED
  BY <1>5, <1>6, <1>7, <1>8, <1>9 DEF SInv

\* Connections leave the list in ws_connections: types and members.
Shrinks(gone, rest) ==
    /\ lists' \in [ListIds -> Seq(Clients)] /\ \A l \in ListIds : IsInjective(lists'[l])
    /\ lists'[current] = rest /\ \A l \in ListIds : l # current => lists'[l] = << >>
    /\ \A k \in DOMAIN rest : /\ rest[k] \notin gone /\ rest[k] \in Clients
                             /\ client[rest[k]] \notin {"new", "left"}
    /\ \A d, n : (\E k \in DOMAIN rest : k >= n /\ rest[k] = d) /\ n \in Nat
                  => \E i \in DOMAIN lists[current] : i >= n /\ lists[current][i] = d

LEMMA ListShrinks ==
    ASSUME SInv, current \in ListIds, NEW gone, NEW rest \in Rest(lists[current], gone),
           lists' = [lists EXCEPT ![current] = rest]
    PROVE  Shrinks(gone, rest)
<1>1. PICK s : s = lists[current]
  OBVIOUS
<1>2. s \in Seq(Clients) /\ IsInjective(s) /\ rest \in Rest(s, gone)
  BY <1>1 DEF SInv, StreamTypes, CastType
<1>3. /\ rest \in Seq(Clients) /\ IsInjective(rest)
      /\ \A k \in DOMAIN rest : rest[k] \notin gone /\ \E i \in DOMAIN s : i >= k /\ rest[k] = s[i]
  BY <1>2, RestIsCloser
<1>4. lists'[current] = rest /\ \A l \in ListIds : l # current => lists'[l] = lists[l]
  BY DEF SInv, StreamTypes, CastType
<1>5. lists' \in [ListIds -> Seq(Clients)]
  BY <1>3 DEF SInv, StreamTypes, CastType
<1>6. \A l \in ListIds : IsInjective(lists'[l])
  BY <1>3, <1>4 DEF SInv, StreamTypes, CastType
<1>7. \A l \in ListIds : l # current => lists'[l] = << >>
  BY <1>4 DEF SInv, MembersRun
<1>8. \A k \in DOMAIN rest : /\ rest[k] \notin gone /\ rest[k] \in Clients
                             /\ client[rest[k]] \notin {"new", "left"}
  <2> TAKE k \in DOMAIN rest
  <2>1. PICK i \in DOMAIN s : rest[k] = s[i]
    BY <1>3
  <2>2. client[s[i]] \notin {"new", "left"} /\ s[i] \in Clients
    BY <1>1, <1>2 DEF SInv, MembersRun
  <2> QED
    BY <1>3, <2>1, <2>2
<1>9. ASSUME NEW d, NEW n \in Nat, NEW k \in DOMAIN rest, k >= n, rest[k] = d
      PROVE  \E i \in DOMAIN s : i >= n /\ s[i] = d
  <2>1. PICK i \in DOMAIN s : i >= k /\ rest[k] = s[i]
    BY <1>3
  <2>2. i \in Nat /\ k \in Nat
    BY <1>2, <1>3
  <2>3. i >= n
    BY <1>9, <2>1, <2>2
  <2> QED
    BY <1>9, <2>1, <2>3
<1> QED
  BY <1>1, <1>4, <1>5, <1>6, <1>7, <1>8, <1>9 DEF Shrinks

\* The handler ends: it may move the connections under the walk.
LEMMA LeaveStep ==
    ASSUME SInv, NEW c \in Clients, Leave(c)
    PROVE  SInv'
<1>1. client[c] = "gone" /\ client' = [client EXCEPT ![c] = "left"] /\ received' = received
  BY DEF Leave
<1>2. \A d \in Clients : client'[d] = IF d = c THEN "left" ELSE client[d]
  BY <1>1 DEF SInv, StreamTypes, CastType
<1>3. client' \in [Clients -> ClientStates]
  BY <1>1 DEF SInv, StreamTypes, CastType, ClientStates
<1>4. \A l \in ListIds : \A i \in DOMAIN lists[l] : lists[l][i] \in Clients
  BY DEF SInv, StreamTypes, CastType
<1>5. cast.audience \subseteq Clients
  BY DEF SInv, StreamTypes, CastType
<1>6. CASE current # NoList /\ c \in Range(lists[current])
  <2>1. PICK rest \in Rest(lists[current], {c}) :
          /\ lists' = [lists EXCEPT ![current] = rest]
          /\ current' = IF rest = << >> THEN NoList ELSE current
    BY <1>6 DEF Leave
  <2>2. cast' = [cast EXCEPT !.shrunk = (cast.shrunk \/ cast.list = current)]
    BY <1>6 DEF Leave
  <2>3. current \in ListIds
    BY <1>6 DEF SInv, StreamTypes, CastType
  <2>4. /\ lists' \in [ListIds -> Seq(Clients)] /\ \A l \in ListIds : IsInjective(lists'[l])
        /\ lists'[current] = rest /\ \A l \in ListIds : l # current => lists'[l] = << >>
        /\ \A k \in DOMAIN rest : /\ rest[k] \notin {c} /\ rest[k] \in Clients
                                 /\ client[rest[k]] \notin {"new", "left"}
        /\ \A d, n : (\E k \in DOMAIN rest : k >= n /\ rest[k] = d) /\ n \in Nat
                      => \E i \in DOMAIN lists[current] : i >= n /\ lists[current][i] = d
    <3>1. Shrinks({c}, rest)
      BY <2>1, <2>3, ListShrinks
    <3> QED
      BY <3>1 DEF Shrinks
  <2>5. /\ cast'.at = cast.at /\ cast'.list = cast.list /\ cast'.next = cast.next
        /\ cast'.failed = cast.failed /\ cast'.to = cast.to /\ cast'.event = cast.event
        /\ cast'.audience = cast.audience
        /\ cast'.shrunk <=> (cast.shrunk \/ cast.list = current)
    BY <2>2 DEF SInv, StreamTypes, CastType
  <2>6. StreamTypes'
    <3>1. cast' \in CastType
      BY <2>2 DEF SInv, StreamTypes, CastType
    <3>2. current' \in ListIds \cup {NoList}
      BY <2>1, <2>3
    <3> QED
      BY <1>1, <1>3, <2>4, <3>1, <3>2 DEF SInv, StreamTypes, CastType
  <2>7. MembersRun'
    <3>1. ASSUME NEW l \in ListIds, l # current' PROVE lists'[l] = << >>
      BY <2>1, <2>4, <3>1
    <3>2. ASSUME NEW l \in ListIds, NEW i \in DOMAIN lists'[l]
          PROVE  client'[lists'[l][i]] \notin {"new", "left"}
      <4>1. l = current
        BY <2>4, <3>2
      <4>2. /\ rest[i] # c /\ rest[i] \in Clients /\ lists'[l][i] = rest[i]
            /\ client[rest[i]] \notin {"new", "left"}
        BY <2>4, <3>2, <4>1
      <4> QED
        BY <1>2, <4>2
    <3> QED
      BY <3>1, <3>2 DEF MembersRun
  <2>8. ASSUME cast.at # "idle", NEW d, Ahead(d)' PROVE Ahead(d)
    <3>1. cast.list \in ListIds /\ cast.next \in Nat
      BY <2>8 DEF SInv, Walking, StreamTypes, CastType
    <3>2. CASE cast.list = current
      <4>1. \E k \in DOMAIN rest : k >= cast.next /\ rest[k] = d
        BY <2>4, <2>5, <2>8, <3>2 DEF Ahead
      <4>2. \E i \in DOMAIN lists[current] : i >= cast.next /\ lists[current][i] = d
        BY <2>4, <3>1, <4>1
      <4> QED
        BY <3>2, <4>2 DEF Ahead
    <3>3. CASE cast.list # current
      <4>1. lists'[cast'.list] = << >>
        BY <2>4, <2>5, <3>1, <3>3
      <4> QED
        BY <2>8, <4>1 DEF Ahead
    <3> QED
      BY <3>2, <3>3
  <2>9. ASSUME cast.at # "idle", cast.list # current, NEW d PROVE ~Ahead(d)
    <3>1. lists[cast.list] = << >>
      BY <2>9 DEF SInv, Walking, MembersRun
    <3> QED
      BY <3>1 DEF Ahead
  <2>10. Walking'
    BY <1>1, <1>2, <2>5, <2>8 DEF SInv, Walking
  <2>11. InOrder'
    <3>1. ASSUME NEW d \in Clients, Coming(d)' PROVE Coming(d)
      BY <2>5, <2>8, <3>1 DEF Coming
    <3> QED
      BY <1>1, <1>2, <2>5, <3>1 DEF SInv, InOrder
  <2>12. Reaching'
    <3>1. ASSUME cast.at # "idle", cast.list # current, NEW d, Coming(d) PROVE Coming(d)'
      BY <2>5, <2>9, <3>1 DEF Coming
    <3> QED
      BY <1>1, <1>2, <1>5, <2>5, <3>1 DEF SInv, Reaching
  <2> QED
    BY <2>6, <2>7, <2>10, <2>11, <2>12 DEF SInv
<1>7. CASE ~ (current # NoList /\ c \in Range(lists[current]))
  <2>1. lists' = lists /\ current' = current /\ cast' = cast
    BY <1>7 DEF Leave
  <2>2. \A d : (Ahead(d)' <=> Ahead(d)) /\ (Coming(d)' <=> Coming(d))
    BY <2>1 DEF Ahead, Coming
  <2>3. \A l \in ListIds : \A i \in DOMAIN lists[l] : lists[l][i] # c
    <3> SUFFICES ASSUME NEW l \in ListIds, NEW i \in DOMAIN lists[l], lists[l][i] = c
                 PROVE  FALSE
      OBVIOUS
    <3>1. lists[l] # << >>
      OBVIOUS
    <3>2. l = current
      BY <3>1 DEF SInv, MembersRun
    <3>3. c \in Range(lists[current]) /\ current # NoList
      BY <3>2 DEF Range, ListIds, NoList
    <3> QED
      BY <1>7, <3>3
  <2>4. StreamTypes'
    BY <1>1, <1>3, <2>1 DEF SInv, StreamTypes, CastType
  <2>5. MembersRun'
    BY <1>2, <1>4, <2>1, <2>3 DEF SInv, MembersRun
  <2>6. Walking'
    BY <1>1, <1>2, <2>1, <2>2 DEF SInv, Walking
  <2>7. InOrder'
    BY <1>1, <1>2, <2>1, <2>2 DEF SInv, InOrder
  <2>8. Reaching'
    BY <1>1, <1>2, <1>5, <2>1, <2>2 DEF SInv, Reaching
  <2> QED
    BY <2>4, <2>5, <2>6, <2>7, <2>8 DEF SInv
<1> QED
  BY <1>6, <1>7

LEMMA EventsSent ==
    ASSUME SInv, NEW d \in Clients, NEW i \in DOMAIN received[d]
    PROVE  received[d][i] <= cast.event /\ received[d][i] \in 0 .. MaxEvents
<1>1. PICK E, r : E = 0 .. MaxEvents /\ r = received[d]
  OBVIOUS
<1>2. received[d][i] <= cast.event
  BY DEF SInv, InOrder
<1>3. r \in Seq(E) /\ i \in DOMAIN r
  BY <1>1 DEF SInv, StreamTypes
<1>4. r[i] \in E
  BY <1>3
<1> QED
  BY <1>1, <1>2, <1>4

LEMMA BroadcastStep ==
    ASSUME SInv, BroadcastEvent
    PROVE  SInv'
<1>1. lists' = lists /\ current' = current /\ received' = received /\ client' = client
  BY DEF BroadcastEvent
<1>2. cast.at = "idle" /\ cast.event \in 0 .. MaxEvents /\ cast.event + 1 \in 0 .. MaxEvents
  BY EventsAssumption DEF BroadcastEvent, SInv, StreamTypes, CastType
<1>3. CASE current = NoList
  <2>1. cast' = [cast EXCEPT !.event = cast.event + 1, !.audience = {}, !.list = NoList]
    BY <1>3 DEF BroadcastEvent
  <2>2. cast'.at = "idle" /\ cast'.event = cast.event + 1 /\ cast'.audience = {}
    BY <1>2, <2>1 DEF SInv, StreamTypes, CastType
  <2>3. StreamTypes'
    <3>1. cast' \in CastType
      BY <1>2, <2>1 DEF SInv, StreamTypes, CastType
    <3> QED
      BY <1>1, <3>1 DEF SInv, StreamTypes, CastType
  <2>4. MembersRun' /\ Walking' /\ Reaching'
    BY <1>1, <2>2 DEF SInv, MembersRun, Walking, Reaching
  <2>5. InOrder'
    <3>1. ASSUME NEW d \in Clients, NEW i \in DOMAIN received[d] PROVE received[d][i] <= cast.event + 1
      <4>1. received[d][i] <= cast.event /\ received[d][i] \in 0 .. MaxEvents
        BY EventsSent
      <4> QED
        BY <1>2, <4>1
    <3>2. \A d : ~Coming(d)'
      BY <2>2 DEF Coming
    <3> QED
      BY <1>1, <2>2, <3>1, <3>2 DEF SInv, InOrder
  <2> QED
    BY <2>3, <2>4, <2>5 DEF SInv
<1>4. CASE current # NoList
  <2>1. PICK heard : heard = {c \in Range(lists[current]) : client[c] = "open"}
    OBVIOUS
  <2>2. cast' = [Quiet EXCEPT !.at = "next", !.list = current, !.event = cast.event + 1,
                   !.audience = heard]
    BY <1>4, <2>1 DEF BroadcastEvent
  <2>3. current \in ListIds
    BY <1>4 DEF SInv, StreamTypes, CastType
  <2>4. /\ cast'.at = "next" /\ cast'.list = current /\ cast'.event = cast.event + 1
        /\ cast'.audience = heard /\ cast'.next = 1
    BY <2>2 DEF Quiet
  <2>5. heard \subseteq Clients
    BY <2>1, <2>3 DEF SInv, StreamTypes, CastType, Range
  <2>6. StreamTypes'
    <3>1. cast' \in CastType
      <4>1. cast' = [at |-> "next", list |-> current, next |-> 1, failed |-> << >>, to |-> {},
                     event |-> cast.event + 1, audience |-> heard, shrunk |-> FALSE]
        BY <2>2 DEF Quiet
      <4>2. << >> \in Seq(Clients) /\ 1 \in Nat \ {0} /\ {} \in SUBSET Clients /\ heard \in SUBSET Clients
        BY <2>5
      <4> QED
        BY <1>2, <2>3, <4>1, <4>2 DEF CastType
    <3> QED
      BY <1>1, <3>1 DEF SInv, StreamTypes, CastType
  <2>7. MembersRun' /\ Walking'
    BY <1>1, <2>3, <2>4 DEF SInv, MembersRun, Walking
  <2>8. InOrder'
    <3>1. ASSUME NEW d \in Clients, NEW i \in DOMAIN received[d]
          PROVE  received[d][i] < cast.event + 1 /\ received[d][i] <= cast.event + 1
      <4>1. received[d][i] <= cast.event /\ received[d][i] \in 0 .. MaxEvents
        BY EventsSent
      <4> QED
        BY <1>2, <4>1
    <3> QED
      BY <1>1, <2>4, <3>1 DEF SInv, InOrder
  <2>9. Reaching'
    <3>1. ASSUME NEW c \in heard PROVE client[c] = "open" /\ Ahead(c)'
      <4>1. PICK i \in DOMAIN lists[current] : lists[current][i] = c /\ client[c] = "open"
        BY <2>1 DEF Range
      <4>2. i >= 1
        BY <2>3 DEF SInv, StreamTypes, CastType
      <4> QED
        BY <1>1, <2>4, <4>1, <4>2 DEF Ahead
    <3> QED
      BY <1>1, <2>4, <3>1 DEF Reaching, Coming
  <2> QED
    BY <2>6, <2>7, <2>8, <2>9 DEF SInv
<1> QED
  BY <1>3, <1>4

LEMMA NextConnectionStep ==
    ASSUME SInv, NextConnection
    PROVE  SInv'
<1>1. /\ cast.at = "next" /\ lists' = lists /\ current' = current /\ received' = received
      /\ client' = client
  BY DEF NextConnection
<1>2. PICK s \in Seq(Clients), k \in Nat \ {0} :
        s = lists[cast.list] /\ k = cast.next /\ IsInjective(s) /\ cast.list \in ListIds
  BY <1>1 DEF SInv, StreamTypes, CastType, Walking
<1>3. \A d : Ahead(d) <=> \E i \in DOMAIN s : i >= k /\ s[i] = d
  BY <1>2 DEF Ahead
<1>4. MembersRun'
  BY <1>1 DEF SInv, MembersRun
<1>5. CASE k <= Len(s)
  <2>1. PICK c : c = s[k]
    OBVIOUS
  <2>2. cast' = [cast EXCEPT !.at = "send", !.to = {c}, !.next = k + 1]
    BY <1>2, <1>5, <2>1 DEF NextConnection
  <2>3. /\ cast'.at = "send" /\ cast'.to = {c} /\ cast'.next = k + 1 /\ cast'.list = cast.list
        /\ cast'.event = cast.event /\ cast'.audience = cast.audience /\ cast'.shrunk = cast.shrunk
    BY <2>2 DEF SInv, StreamTypes, CastType
  <2>4. k \in DOMAIN s /\ c \in Clients
    BY <1>5, <2>1
  <2>5. StreamTypes'
    <3>1. cast' \in CastType
      <4>1. k + 1 \in Nat \ {0} /\ {c} \in SUBSET Clients /\ cast \in CastType
        BY <2>4 DEF SInv, StreamTypes
      <4> HIDE <1>2, <1>5
      <4> QED
        BY <2>2, <4>1 DEF CastType
    <3> QED
      BY <1>1, <3>1 DEF SInv, StreamTypes, CastType
  <2>6. \A d : Ahead(d)' <=> \E i \in DOMAIN s : i >= k + 1 /\ s[i] = d
    BY <1>1, <1>2, <2>3 DEF Ahead
  <2>7. ~Ahead(c)'
    <3> SUFFICES ASSUME NEW i \in DOMAIN s, i >= k + 1, s[i] = c
                 PROVE  FALSE
      BY <2>6
    <3>1. i = k
      BY <1>2, <2>1, <2>4 DEF IsInjective
    <3> QED
      BY <3>1
  <2>8. \A d : Ahead(d) <=> (Ahead(d)' \/ d = c)
    <3> TAKE d
    <3>1. \A i \in DOMAIN s : i >= k <=> (i = k \/ i >= k + 1)
      OBVIOUS
    <3> QED
      BY <1>3, <2>1, <2>4, <2>6, <3>1
  <2>9. \A d \in Clients : Coming(d)' <=> Coming(d)
    BY <1>1, <2>3, <2>8 DEF Coming
  <2>10. client[c] # "new"
    BY <1>2, <2>1, <2>4 DEF SInv, MembersRun
  <2>11. Walking'
    BY <1>1, <1>2, <2>3, <2>4, <2>7, <2>10 DEF Walking
  <2>12. InOrder'
    BY <1>1, <2>3, <2>9 DEF SInv, InOrder
  <2>13. Reaching'
    <3>1. cast.audience \subseteq Clients
      BY DEF SInv, StreamTypes, CastType
    <3> QED
      BY <1>1, <2>3, <2>9, <3>1 DEF SInv, Reaching
  <2> QED
    BY <1>4, <2>5, <2>11, <2>12, <2>13 DEF SInv
<1>6. CASE ~ (k <= Len(s))
  <2>1. cast' = [cast EXCEPT !.at = "clean"]
    BY <1>2, <1>6 DEF NextConnection
  <2>2. /\ cast'.at = "clean" /\ cast'.list = cast.list
        /\ cast'.event = cast.event /\ cast'.audience = cast.audience /\ cast'.shrunk = cast.shrunk
    BY <2>1 DEF SInv, StreamTypes, CastType
  <2>3. StreamTypes'
    <3>1. cast' \in CastType
      BY <2>1 DEF SInv, StreamTypes, CastType
    <3> QED
      BY <1>1, <3>1 DEF SInv, StreamTypes, CastType
  <2>4. \A d : ~Coming(d)
    BY <1>1, <1>3, <1>6 DEF Coming
  <2>5. \A d : ~Coming(d)'
    BY <2>2 DEF Coming
  <2>6. Walking'
    BY <1>2, <2>2 DEF Walking
  <2>7. InOrder'
    BY <1>1, <2>2, <2>5 DEF SInv, InOrder
  <2>8. Reaching'
    BY <1>1, <2>2, <2>4 DEF SInv, Reaching
  <2> QED
    BY <1>4, <2>3, <2>6, <2>7, <2>8 DEF SInv
<1> QED
  BY <1>5, <1>6

\* A connection is sent the event if its client is there, and once.
LEMMA SendStep ==
    ASSUME SInv, NEW c \in Clients, SendJson(c)
    PROVE  SInv'
<1>1. /\ cast.at = "send" /\ cast.to = {c} /\ lists' = lists /\ current' = current
      /\ client' = client
      /\ received' = [received EXCEPT ![c] = IF client[c] = "open" THEN Append(received[c], cast.event)
                                                                ELSE received[c]]
  BY DEF SendJson
<1>2. PICK failed \in Seq(Clients) : cast' = [cast EXCEPT !.at = "next", !.to = {}, !.failed = failed]
  <2>1. PICK raises \in BOOLEAN :
          cast' = [cast EXCEPT !.at = "next", !.to = {},
                               !.failed = IF raises THEN Append(cast.failed, c) ELSE cast.failed]
    BY DEF SendJson
  <2>2. cast.failed \in Seq(Clients) /\ Append(cast.failed, c) \in Seq(Clients)
    BY DEF SInv, StreamTypes, CastType
  <2> QED
    BY <2>1, <2>2
<1>3. /\ cast'.at = "next" /\ cast'.to = {} /\ cast'.next = cast.next /\ cast'.list = cast.list
      /\ cast'.event = cast.event /\ cast'.audience = cast.audience /\ cast'.shrunk = cast.shrunk
  BY <1>2 DEF SInv, StreamTypes, CastType
<1>4. PICK old \in Seq(0 .. MaxEvents) : old = received[c]
  BY DEF SInv, StreamTypes
<1>5. cast.event \in 0 .. MaxEvents
  BY DEF SInv, StreamTypes, CastType
<1>6. \A d : (Ahead(d)' <=> Ahead(d))
  BY <1>1, <1>3 DEF Ahead
<1>7. client[c] # "new" /\ ~Ahead(c)
  BY <1>1 DEF SInv, Walking
<1>8. \A d : Coming(d)' <=> (Coming(d) /\ d # c)
  BY <1>1, <1>3, <1>6, <1>7 DEF Coming
<1>9. Coming(c)
  BY <1>1 DEF Coming
<1>10. \A d \in Clients : d # c => received'[d] = received[d]
  BY <1>1 DEF SInv, StreamTypes
<1>11. PICK new : /\ new \in Seq(0 .. MaxEvents) /\ received'[c] = new
                  /\ \A i, j \in DOMAIN new : i < j => new[i] < new[j]
                  /\ \A i \in DOMAIN new : new[i] <= cast.event
                  /\ client[c] = "open" => cast.event \in Range(new)
  <2>1. /\ \A i, j \in DOMAIN old : i < j => old[i] < old[j]
        /\ \A i \in DOMAIN old : old[i] < cast.event /\ old[i] <= cast.event
    BY <1>4, <1>9 DEF SInv, InOrder
  <2>2. CASE client[c] # "open"
    <3>1. received'[c] = old
      BY <1>1, <1>4, <2>2 DEF SInv, StreamTypes
    <3> QED
      BY <2>1, <2>2, <3>1
  <2>3. CASE client[c] = "open"
    <3>1. PICK new : new = Append(old, cast.event)
      OBVIOUS
    <3>2. received'[c] = new
      BY <1>1, <1>4, <2>3, <3>1 DEF SInv, StreamTypes
    <3>0. PICK n \in Nat : n = Len(old)
      BY <1>4
    <3>3. PICK e, E : n = Len(old) /\ e = cast.event /\ E = 0 .. MaxEvents
      BY <3>0
    <3>4. /\ new \in Seq(E) /\ Len(new) = n + 1 /\ new[n + 1] = e
          /\ \A i \in 1 .. n : new[i] = old[i]
      <4>1. old \in Seq(E) /\ e \in E
        BY <1>5, <3>3
      <4> QED
        BY <3>1, <3>3, <4>1, AppendProperties
    <3>5. DOMAIN new = 1 .. n + 1 /\ DOMAIN old = 1 .. n
      BY <1>4, <3>3, <3>4
    <3>6. \A i \in 1 .. n + 1 : i \in 1 .. n \/ i = n + 1
      OBVIOUS
    <3>7. ASSUME NEW i \in DOMAIN new, NEW j \in DOMAIN new, i < j
          PROVE  new[i] < new[j]
      <4>1. i \in 1 .. n
        BY <3>5, <3>7
      <4>2. CASE j \in 1 .. n
        BY <2>1, <3>4, <3>5, <3>7, <4>1, <4>2
      <4>3. CASE j = n + 1
        BY <2>1, <3>3, <3>4, <3>5, <4>1, <4>3
      <4> QED
        BY <3>5, <3>6, <4>2, <4>3
    <3>8. ASSUME NEW i \in DOMAIN new
          PROVE  new[i] <= cast.event
      <4>1. CASE i \in 1 .. n
        BY <2>1, <3>4, <3>5, <4>1
      <4>2. CASE i = n + 1
        BY <1>5, <3>3, <3>4, <4>2
      <4> QED
        BY <3>5, <3>6, <4>1, <4>2
    <3>9. cast.event \in Range(new)
      <4>1. n + 1 \in DOMAIN new /\ new[n + 1] = cast.event
        BY <3>3, <3>4, <3>5
      <4> QED
        BY <4>1 DEF Range
    <3>10. new \in Seq(0 .. MaxEvents)
      BY <3>3, <3>4
    <3> QED
      BY <3>2, <3>7, <3>8, <3>9, <3>10
  <2> QED
    BY <2>2, <2>3
<1>12. StreamTypes'
  <2>1. cast' \in CastType
    BY <1>2 DEF SInv, StreamTypes, CastType
  <2>2. received' \in [Clients -> Seq(0 .. MaxEvents)]
    <3>1. received' = [received EXCEPT ![c] = new]
      BY <1>1, <1>11 DEF SInv, StreamTypes
    <3> QED
      BY <1>11, <3>1 DEF SInv, StreamTypes
  <2> QED
    BY <1>1, <2>1, <2>2 DEF SInv, StreamTypes
<1>13. MembersRun' /\ Walking'
  BY <1>1, <1>3 DEF SInv, MembersRun, Walking
<1>14. InOrder'
  <2>1. ASSUME NEW d \in Clients, d # c
        PROVE  /\ \A i, j \in DOMAIN received'[d] : i < j => received'[d][i] < received'[d][j]
               /\ \A i \in DOMAIN received'[d] : received'[d][i] <= cast'.event
               /\ Coming(d)' => \A i \in DOMAIN received'[d] : received'[d][i] < cast'.event
               /\ client'[d] = "new" => received'[d] = << >>
    BY <1>1, <1>3, <1>8, <1>10, <2>1 DEF SInv, InOrder
  <2> QED
    BY <1>1, <1>3, <1>7, <1>8, <1>11, <2>1 DEF InOrder
<1>15. Reaching'
  <2>1. cast.audience \subseteq Clients
    BY DEF SInv, StreamTypes, CastType
  <2>2. ASSUME ~cast.shrunk, NEW d \in cast.audience, client[d] = "open"
        PROVE  cast.event \in Range(received'[d]) \/ Coming(d)'
    <3>1. cast.event \in Range(received[d]) \/ Coming(d)
      BY <1>1, <2>2 DEF SInv, Reaching
    <3>2. CASE d = c
      BY <1>11, <2>2, <3>2
    <3>3. CASE d # c
      BY <1>8, <1>10, <2>1, <3>1, <3>3
    <3> QED
      BY <3>2, <3>3
  <2> QED
    BY <1>1, <1>3, <2>2 DEF SInv, Reaching
<1> QED
  BY <1>12, <1>13, <1>14, <1>15 DEF SInv

LEMMA RemoveDisconnectedStep ==
    ASSUME SInv, RemoveDisconnected
    PROVE  SInv'
<1>1. /\ current' = current /\ client' = client /\ received' = received
      /\ cast' = [Quiet EXCEPT !.event = cast.event]
  BY DEF RemoveDisconnected
<1>2. cast' = [at |-> "idle", list |-> NoList, next |-> 1, failed |-> << >>, to |-> {},
               event |-> cast.event, audience |-> {}, shrunk |-> FALSE]
  BY <1>1 DEF Quiet
<1>3. /\ cast'.at = "idle" /\ cast'.event = cast.event /\ cast'.audience = {}
      /\ \A d : ~Coming(d)'
  BY <1>2 DEF Coming
<1>4. cast' \in CastType
  <2>1. cast.event \in 0 .. MaxEvents
    BY DEF SInv, StreamTypes, CastType
  <2> QED
    BY <1>2, <2>1 DEF CastType
<1>5. /\ lists' \in [ListIds -> Seq(Clients)] /\ \A l \in ListIds : IsInjective(lists'[l])
      /\ MembersRun'
  <2>1. CASE current = NoList
    <3>1. lists' = lists
      BY <2>1 DEF RemoveDisconnected
    <3> QED
      BY <1>1, <3>1 DEF SInv, StreamTypes, MembersRun
  <2>2. CASE current # NoList
    <3>1. current \in ListIds
      BY <2>2 DEF SInv, StreamTypes
    <3>2. PICK gone : \E rest \in Rest(lists[current], gone) : lists' = [lists EXCEPT ![current] = rest]
      BY <2>2 DEF RemoveDisconnected
    <3>3. PICK rest \in Rest(lists[current], gone) : lists' = [lists EXCEPT ![current] = rest]
      BY <3>2
    <3>4. Shrinks(gone, rest)
      BY <3>1, <3>3, ListShrinks
    <3>5. ASSUME NEW l \in ListIds, NEW i \in DOMAIN lists'[l]
          PROVE  client[lists'[l][i]] \notin {"new", "left"}
      <4>1. l = current
        BY <3>4, <3>5 DEF Shrinks
      <4> QED
        BY <3>4, <3>5, <4>1 DEF Shrinks
    <3>6. MembersRun'
      BY <1>1, <3>4, <3>5 DEF MembersRun, Shrinks
    <3> QED
      BY <3>4, <3>6 DEF Shrinks
  <2> QED
    BY <2>1, <2>2
<1>6. StreamTypes'
  BY <1>1, <1>4, <1>5 DEF SInv, StreamTypes
<1>7. Walking' /\ Reaching'
  BY <1>3 DEF Walking, Reaching
<1>8. InOrder'
  BY <1>1, <1>3 DEF SInv, InOrder
<1> QED
  BY <1>5, <1>6, <1>7, <1>8 DEF SInv

LEMMA StreamSteps == SInv /\ [StreamNext]_streamVars => SInv'
<1> SUFFICES ASSUME SInv, [StreamNext]_streamVars PROVE SInv'
  OBVIOUS
<1>1. ASSUME NEW c \in Clients, Connect(c) PROVE SInv'
  BY <1>1, ConnectStep
<1>2. ASSUME NEW c \in Clients, GoAway(c) PROVE SInv'
  BY <1>2, ClientMoves
<1>3. ASSUME NEW c \in Clients, Leave(c) PROVE SInv'
  BY <1>3, LeaveStep
<1>4. ASSUME NEW c \in Clients, PingFails(c) PROVE SInv'
  BY <1>4, ClientMoves
<1>5. ASSUME NEW c \in Clients, SendJson(c) PROVE SInv'
  BY <1>5, SendStep
<1>6. CASE BroadcastEvent
  BY <1>6, BroadcastStep
<1>7. CASE NextConnection
  BY <1>7, NextConnectionStep
<1>8. CASE RemoveDisconnected
  BY <1>8, RemoveDisconnectedStep
<1>9. CASE UNCHANGED streamVars
  <2>1. UNCHANGED <<lists, current, client, received, cast>>
    BY <1>9 DEF streamVars
  <2>2. \A d : (Ahead(d)' <=> Ahead(d)) /\ (Coming(d)' <=> Coming(d))
    BY <2>1 DEF Ahead, Coming
  <2> QED
    BY <2>1, <2>2 DEF SInv, StreamTypes, MembersRun, Walking, InOrder, Reaching
<1> QED
  BY <1>1, <1>2, <1>3, <1>4, <1>5, <1>6, <1>7, <1>8, <1>9 DEF StreamNext

LEMMA Stream == StreamSpec => []SInv
BY StreamInits, StreamSteps, PTL DEF StreamSpec

\* Every variable of the stream has its type; no connection is twice in a list.
THEOREM StreamTypesHold == StreamSpec => []StreamTypeOK
<1>1. SInv => StreamTypeOK
  <2> SUFFICES ASSUME SInv PROVE StreamTypeOK
    OBVIOUS
  <2>1. ASSUME NEW l \in ListIds PROVE Range(lists[l]) \subseteq Clients /\ IsInjective(lists[l])
    BY DEF SInv, StreamTypes, Range
  <2>2. /\ cast.at \in {"idle", "next", "send", "clean"}
        /\ cast.event \in 0 .. MaxEvents /\ cast.list \in ListIds \cup {NoList}
        /\ cast.to \subseteq Clients /\ cast.failed \in Seq(Clients)
    BY DEF SInv, StreamTypes, CastType
  <2>3. Range(cast.failed) \subseteq Clients
    BY <2>2 DEF Range
  <2> QED
    BY <2>1, <2>2, <2>3 DEF SInv, StreamTypes, StreamTypeOK
<1> QED
  BY <1>1, Stream, PTL

\* _broadcast_event and task_stream on one list: no client is sent an event twice
\* or after a later one, who has left is not in the list, and a broadcast reaches
\* everyone who was there and still is, unless a handler removed a connection
\* from the list meanwhile.
THEOREM SentOnce == StreamSpec => []DeliveredOnce
<1>1. SInv => DeliveredOnce
  <2> SUFFICES ASSUME SInv PROVE DeliveredOnce
    OBVIOUS
  <2>1. \A c \in Clients : \A i, j \in DOMAIN received[c] : i < j => received[c][i] < received[c][j]
    BY DEF SInv, InOrder
  <2>2. current # NoList => \A c \in Range(lists[current]) : client[c] # "left"
    BY DEF SInv, StreamTypes, MembersRun, Range
  <2>3. cast.at = "clean" /\ ~cast.shrunk =>
          \A c \in cast.audience : client[c] = "open" => cast.event \in Range(received[c])
    BY DEF SInv, Reaching, Coming
  <2> QED
    BY <2>1, <2>2, <2>3 DEF DeliveredOnce
<1> QED
  BY <1>1, Stream, PTL

-----------------------------------------------------------------------------
(***************************************************************************)
(* All components, as Services composes them: a behaviour of all is one of *)
(* each, so that what is proved of each holds of all.                      *)
(***************************************************************************)

LEMMA DeliverablesTypeOK == DeliverablesInv => TypeOK
<1> SUFFICES ASSUME DeliverablesInv PROVE TypeOK
  OBVIOUS
<1>1. DeliverablesTypes /\ NamesUsed
  BY DEF DeliverablesInv, Filed
<1>2. ASSUME NEW t \in Tasks PROVE run[t].tool \in Tools /\ run[t].file \in Exports \cup {0}
  BY <1>1 DEF DeliverablesTypes, RunType
<1>3. ASSUME NEW h \in Approvers PROVE req[h].at \in {"idle", "read", "flushed"}
  BY <1>1 DEF DeliverablesTypes, ReqType
<1>4. artifacts \in [Exports -> [status: ArtifactStatuses, task: Tasks \cup {"none"},
                                components: 0 .. MaxComponents, sources: {{}},
                                errors: SUBSET Errors]]
  BY <1>1 DEF DeliverablesTypes, Artifact
<1> QED
  BY <1>1, <1>2, <1>3, <1>4 DEF DeliverablesTypes, NamesUsed, TypeOK

LEMMA ConversationsTypeOK == ConversationsInv => ConversationTypeOK
<1> SUFFICES ASSUME ConversationsInv PROVE ConversationTypeOK
  OBVIOUS
<1>1. ConversationsTypes
  BY DEF ConversationsInv
<1>2. ASSUME NEW m \in messages PROVE m.session \in SessionIds /\ m.turn \in Requests
  BY <1>1 DEF ConversationsTypes, Messages
<1>3. ASSUME NEW s \in SessionIds PROVE sessions[s].state \in {"unused", "there", "deleted"}
  <2>1. sessions[s] \in SessionRows
    BY <1>1 DEF ConversationsTypes
  <2> QED
    BY <2>1 DEF SessionRows, Unused, DeletedBy
<1>4. ASSUME NEW r \in Requests
      PROVE  request[r].at \in {"new", "inserted", "found", "asked", "marked", "orphaned",
                                "cascaded", "ended"}
  <2>1. request[r] \in {Unsent} \cup Inserted \cup Found \cup Asked \cup Marked
                          \cup Deleting \cup Deleted \cup Finished
    BY <1>1 DEF ConversationsTypes
  <2> QED
    BY <2>1 DEF Unsent, Inserted, Found, Asked, Marked, Deleting, Deleted, Finished
<1> QED
  BY <1>1, <1>2, <1>3, <1>4 DEF ConversationsTypes, ConversationTypeOK

LEMMA AccountsTypeOK == AccountsInv => AccountTypeOK
<1> SUFFICES ASSUME AccountsInv PROVE AccountTypeOK
  OBVIOUS
<1>1. VisitsType /\ TokensKnown
  BY DEF AccountsInv
<1>2. ASSUME NEW v \in Visitors PROVE visit[v].at \in {"new", "checked", "ended"}
  BY <1>1 DEF VisitsType
<1> QED
  BY <1>1, <1>2 DEF VisitsType, TokensKnown, AccountTypeOK

\* Services is its components, each on its own: no step of one is a step of
\* another, and what is true of every behaviour of one is true of all of them.
THEOREM EachOnItsOwn ==
    ServicesSpec => Spec /\ RegistrySpec /\ StreamSpec /\ LimiterSpec
                      /\ ConversationSpec /\ AccountSpec
<1>1. ServicesInit => Init /\ RegistryInit /\ StreamInit /\ LimiterInit /\ ConversationInit /\ AccountInit
  BY DEF ServicesInit
<1>2. [ServicesNext]_servicesVars =>
        /\ [Next]_vars /\ [RegistryNext]_registryVars /\ [StreamNext]_streamVars
        /\ [LimiterNext]_limiterVars /\ [ConversationNext]_conversationVars
        /\ [AccountNext]_accountVars
  BY DEF ServicesNext, servicesVars
<1> QED
  BY <1>1, <1>2, PTL DEF ServicesSpec, Spec, RegistrySpec, StreamSpec, LimiterSpec,
                         ConversationSpec, AccountSpec

\* Every variable of every component has its type, whichever component moves.
THEOREM ServicesTypesHold == ServicesSpec => []ServicesTypeOK
<1>1. ServicesInit => moving \in Components
  BY DEF ServicesInit
<1>2. moving \in Components /\ [ServicesNext]_servicesVars => (moving \in Components)'
  BY DEF ServicesNext, servicesVars
<1>3. ServicesSpec => [](moving \in Components)
  BY <1>1, <1>2, PTL DEF ServicesSpec
<1>4. /\ moving \in Components /\ DeliverablesInv /\ RegistryTypeOK /\ StreamTypeOK
      /\ LimiterTypeOK /\ ConversationsInv /\ AccountsInv
      => ServicesTypeOK
  BY DeliverablesTypeOK, ConversationsTypeOK, AccountsTypeOK DEF ServicesTypeOK
<1> QED
  BY <1>3, <1>4, EachOnItsOwn, DeliverablesHold, RegistryTypesHold, StreamTypesHold,
     LimiterTypesHold, ConversationsHold, AccountsHold, PTL
=============================================================================
