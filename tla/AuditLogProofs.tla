--------------------------- MODULE AuditLogProofs ---------------------------
(***************************************************************************)
(* Proofs about AuditLog, for any number of writers and every bound.       *)
(*                                                                         *)
(* The unique index is all that orders the writers.  The invariant that    *)
(* makes it enough is Dense: the committed numbers are 1..n, and those of  *)
(* an open transaction go on from n + 1, so two transactions that both     *)
(* have entries would both have n + 1.                                     *)
(***************************************************************************)
EXTENDS AuditLog, SequenceTheorems, TLAPS

\* The numbers of an open transaction, when 1..n are committed.
GoesOn(n, rows) == rows # {} => \E m \in Nat : m > n /\ Seqs(rows) = (n + 1)..m

DenseUpTo(n) == Seqs(log) = 1..n /\ \A a \in Writers : GoesOn(n, open[a].own)

Dense == \E n \in Nat : DenseUpTo(n)

\* An entry follows another one of the rows, or is the first.
Follows(e, rows) == \/ e.seq = 1 /\ e.prev = Genesis
                    \/ \E d \in rows : d.seq + 1 = e.seq /\ d.hash = e.prev

Linked(rows) == /\ \A e \in rows : Follows(e, rows)
                /\ \A d, e \in rows : d.seq = e.seq => d = e

Chained == /\ Linked(log)
           /\ \A a \in Writers : Linked(Visible(a))

\* The entry about to be inserted follows the latest one the writer saw.
NextFollows ==
    \A a \in Writers : open[a].pc = "insert" =>
        LET e == open[a].next
        IN  IF open[a].own = {} THEN Follows(e, log)
            ELSE /\ \E d \in open[a].own : d.seq + 1 = e.seq /\ d.hash = e.prev
                 /\ e.seq \notin Seqs(open[a].own)

\* Marks and entries agree, in the database and in each transaction.
Marked(rows, marks) ==
    /\ \A c \in marks : \E e \in rows : e.seq = c.upTo /\ e.hash = c.hash
    /\ \A e \in rows : e.seq % Interval = 0 => \E c \in marks : c.upTo = e.seq

AllMarked == /\ Marked(log, checkpoints)
             /\ \A a \in Writers : Marked(open[a].own, open[a].cps)

IInv == /\ TypeOK /\ Dense /\ OneTransactionAhead /\ Chained /\ NextFollows /\ AllMarked

----------------------------------------------------------------------------

LEMMA OpensType ==
    ASSUME TypeOK, NEW a \in Writers
    PROVE  /\ open[a] \in Opens
           /\ \A e \in Visible(a) : e \in Entries /\ e.seq \in Nat \ {0}
           /\ \A e \in log : e \in Entries /\ e.seq \in Nat \ {0}
BY DEF TypeOK, Opens, Visible, Entries

\* A step that rewrites one transaction and nothing else that IInv is about.
LEMMA BecomeFacts ==
    ASSUME TypeOK, NEW a \in Writers, NEW r, Become(a, r)
    PROVE  /\ \A b \in Writers : open'[b] = IF b = a THEN r ELSE open[b]
           /\ UNCHANGED <<log, checkpoints, clock>>
BY DEF TypeOK, Become

\* A transaction without entries may begin, or be given up, at any time.
LEMMA ClearStep ==
    ASSUME IInv, NEW a \in Writers, NEW r \in Opens, Become(a, r),
           r.own = {}, r.cps = {}, r.pc # "insert",
           modesSet' \in Nat, errors' \in Nat
    PROVE  IInv'
<1>1. /\ \A b \in Writers : open'[b] = IF b = a THEN r ELSE open[b]
      /\ UNCHANGED <<log, checkpoints, clock>>
  BY BecomeFacts DEF IInv
<1>2. TypeOK'
  BY <1>1 DEF IInv, TypeOK, Become
<1>3. Dense'
  BY <1>1 DEF IInv, Dense, DenseUpTo, GoesOn, Seqs
<1>4. OneTransactionAhead'
  BY <1>1 DEF IInv, OneTransactionAhead
<1>5. Chained'
  BY <1>1 DEF IInv, Chained, Linked, Visible, Follows
<1>6. NextFollows'
  BY <1>1 DEF IInv, NextFollows, Follows, Seqs
<1>7. AllMarked'
  BY <1>1 DEF IInv, AllMarked, Marked
<1> QED
  BY <1>2, <1>3, <1>4, <1>5, <1>6, <1>7 DEF IInv

LEMMA IdleType == NoOne \in Opens /\ NoOne.own = {} /\ NoOne.cps = {} /\ NoOne.pc = "idle"
BY DEF NoOne, Opens, Kinds

LEMMA BeginStep ==
    ASSUME IInv, NEW a \in Writers, Begin(a)
    PROVE  IInv'
<1>1. PICK k \in Kinds : Become(a, [NoOne EXCEPT !.pc = "open", !.kind = k, !.began = clock])
  BY DEF Begin
<1> DEFINE r == [NoOne EXCEPT !.pc = "open", !.kind = k, !.began = clock]
<1>2. clock \in Nat /\ UNCHANGED <<modesSet, errors>> /\ modesSet \in Nat /\ errors \in Nat
  BY DEF IInv, TypeOK, Begin
<1>3. r \in Opens /\ r.own = {} /\ r.cps = {} /\ r.pc # "insert"
  BY <1>2, IdleType DEF Opens
<1> QED
  BY <1>1, <1>2, <1>3, ClearStep

LEMMA GiveUpStep ==
    ASSUME IInv, NEW a \in Writers, InsertFails(a) \/ Rollback(a)
    PROVE  IInv'
<1>1. Become(a, NoOne) /\ modesSet' \in Nat /\ errors' \in Nat
  BY DEF InsertFails, Rollback, IInv, TypeOK
<1> QED
  BY <1>1, IdleType, ClearStep

\* The entry made from the latest one follows it, in the rows it was read from.
LEMMA PrepareStep ==
    ASSUME IInv, NEW a \in Writers, Prepare(a)
    PROVE  IInv'
<1>1. PICK l \in Visible(a) \cup {Origin} :
        /\ Latest(a, l)
        /\ Become(a, [open[a] EXCEPT !.pc = "insert", !.next = NewEntry(a, l)])
  BY DEF Prepare
<1> DEFINE e == NewEntry(a, l)
           r == [open[a] EXCEPT !.pc = "insert", !.next = e]
           own == open[a].own
<1>2. open[a] \in Opens /\ (\A d \in Visible(a) : d \in Entries /\ d.seq \in Nat \ {0})
  BY OpensType DEF IInv
<1>3. l.seq \in Nat /\ l.hash \in Seq(Payloads)
  <2>1. CASE l \in Visible(a)
    BY <1>2, <2>1 DEF Entries
  <2>2. CASE l = Origin
    <3>1. Origin.seq = 0 /\ Origin.hash = <<>>
      BY DEF Origin, Genesis
    <3> QED
      BY <2>2, <3>1, EmptySeq
  <2> QED
    BY <1>1, <2>1, <2>2
<1>4. e \in Entries /\ e.seq = l.seq + 1 /\ e.prev = l.hash
  <2> DEFINE p == [seq |-> l.seq + 1, kind |-> open[a].kind, timestamp |-> clock]
  <2>1. p \in Payloads /\ open[a].kind \in Kinds /\ open[a].began \in Nat
    BY <1>2, <1>3 DEF Payloads, Opens, IInv, TypeOK
  <2>2. Hash(l.hash, p) \in Seq(Payloads)
    BY <1>3, <2>1 DEF Hash
  <2>3. e = [seq |-> l.seq + 1, kind |-> open[a].kind, created |-> open[a].began,
             prev |-> l.hash, hash |-> Hash(l.hash, p)]
    BY DEF NewEntry
  <2> HIDE DEF p, e
  <2> QED
    BY <1>3, <2>1, <2>2, <2>3 DEF Entries
<1> HIDE DEF e
<1>5. r \in Opens /\ r.own = own /\ r.cps = open[a].cps /\ r.next = e /\ r.pc = "insert"
  BY <1>2, <1>4 DEF Opens
<1>6. \A d \in Visible(a) : d.seq <= l.seq
  BY <1>1 DEF Latest
<1>7. IF own = {} THEN Follows(e, log)
      ELSE (\E d \in own : d.seq + 1 = e.seq /\ d.hash = e.prev) /\ e.seq \notin Seqs(own)
  <2>1. CASE own = {}
    <3>1. l \in log \/ l = Origin
      BY <2>1 DEF Visible
    <3> QED
      BY <1>3, <1>4, <2>1, <3>1 DEF Follows, Origin
  <2>2. CASE own # {}
    <3>1. PICK n \in Nat : DenseUpTo(n)
      BY DEF IInv, Dense
    <3>2. PICK m \in Nat : m > n /\ Seqs(own) = (n + 1)..m
      BY <2>2, <3>1 DEF DenseUpTo, GoesOn
    <3>3. PICK d \in own : d.seq = m
      BY <3>2 DEF Seqs
    <3>4. l.seq >= m
      BY <1>6, <3>3 DEF Visible
    <3>5. l \in own
      <4>1. l # Origin
        BY <3>2, <3>4 DEF Origin
      <4>2. l \in log => l.seq \in 1..n
        BY <3>1 DEF DenseUpTo, Seqs
      <4> QED
        BY <3>2, <3>4, <4>1, <4>2 DEF Visible
    <3>6. e.seq \notin Seqs(own)
      BY <1>3, <1>4, <1>6 DEF Seqs, Visible
    <3> QED
      BY <1>4, <2>2, <3>5, <3>6
  <2> QED
    BY <2>1, <2>2
<1> HIDE DEF r, own
<1>8. Become(a, r)
  BY <1>1 DEF r, e
<1>9. /\ \A b \in Writers : open'[b] = IF b = a THEN r ELSE open[b]
      /\ UNCHANGED <<log, checkpoints, clock>>
  BY <1>8, BecomeFacts DEF IInv
<1>10. \A b \in Writers : open'[b].own = open[b].own /\ open'[b].cps = open[b].cps
  BY <1>5, <1>9 DEF own
<1>11. TypeOK'
  <2>1. modesSet' \in Nat /\ errors' \in Nat
    BY DEF Prepare, IInv, TypeOK
  <2> QED
    BY <1>4, <1>5, <1>8, <1>9, <2>1 DEF IInv, TypeOK, Become
<1>12. Dense'
  BY <1>9, <1>10 DEF IInv, Dense, DenseUpTo, GoesOn, Seqs
<1>13. OneTransactionAhead'
  BY <1>10 DEF IInv, OneTransactionAhead
<1>14. Chained'
  BY <1>9, <1>10 DEF IInv, Chained, Linked, Visible, Follows
<1>15. NextFollows'
  BY <1>5, <1>7, <1>9 DEF IInv, NextFollows, Follows, Seqs, own
<1>16. AllMarked'
  BY <1>9, <1>10 DEF IInv, AllMarked, Marked
<1> QED
  BY <1>11, <1>12, <1>13, <1>14, <1>15, <1>16 DEF IInv

\* An insert takes the number after the last committed one, or after the writer's
\* own last; nobody else has entries.
LEMMA InsertFacts ==
    ASSUME IInv, NEW a \in Writers, Insert(a), NEW n \in Nat, DenseUpTo(n)
    PROVE  LET e == open[a].next
               own == open[a].own \cup {e}
           IN  /\ e \in Entries
               /\ GoesOn(n, own)
               /\ \A b \in Writers \ {a} : open[b].own = {}
               /\ Linked(log \cup own)
<1> DEFINE e == open[a].next
           old == open[a].own
           own == old \cup {e}
<1>1. e \in Entries /\ e.seq \in Nat \ {0}
  BY DEF IInv, TypeOK, Insert, Entries
<1>2. \A d \in Visible(a) : d \in Entries /\ d.seq \in Nat \ {0}
  BY OpensType DEF IInv
<1>3. e.seq \notin Seqs(log)
  BY DEF Insert, Taken, Seqs
<1>4. CASE old = {}
  <2>1. Follows(e, log)
    BY <1>4 DEF IInv, NextFollows, Insert
  <2>2. e.seq = n + 1
    BY <1>1, <1>2, <1>3, <2>1 DEF Follows, DenseUpTo, Seqs, Visible
  <2>3. Seqs(own) = (n + 1)..(n + 1)
    BY <1>4, <2>2 DEF Seqs
  <2>4. GoesOn(n, own)
    <3>1. n + 1 \in Nat /\ n + 1 > n
      OBVIOUS
    <3> HIDE DEF own
    <3> QED
      BY <2>3, <3>1 DEF GoesOn
  <2>5. ASSUME NEW b \in Writers \ {a}, open[b].own # {}
        PROVE  FALSE
    <3>1. PICK m \in Nat : m > n /\ Seqs(open[b].own) = (n + 1)..m
      BY <2>5 DEF DenseUpTo, GoesOn
    <3>2. n + 1 \in Seqs(open[b].own)
      BY <3>1
    <3> QED
      BY <2>2, <3>2 DEF Insert, SeqFree, Seqs
  <2>6. Linked(log \cup own)
    BY <1>3, <1>4, <2>1 DEF IInv, Chained, Linked, Follows, Seqs
  <2> QED
    BY <1>1, <2>4, <2>5, <2>6
<1>5. CASE old # {}
  <2>1. PICK m \in Nat : m > n /\ Seqs(old) = (n + 1)..m
    BY <1>5 DEF DenseUpTo, GoesOn
  <2>2. /\ \E d \in old : d.seq + 1 = e.seq /\ d.hash = e.prev
        /\ e.seq \notin Seqs(old)
    BY <1>5 DEF IInv, NextFollows, Insert
  <2>3. e.seq = m + 1
    BY <1>1, <1>2, <2>1, <2>2 DEF Seqs, Visible
  <2>4. Seqs(own) = Seqs(old) \cup {m + 1}
    BY <2>3 DEF Seqs
  <2>5. Seqs(own) = (n + 1)..(m + 1)
    <3> HIDE DEF own, old
    <3>1. Seqs(own) = ((n + 1)..m) \cup {m + 1}
      BY <2>1, <2>4
    <3> QED
      BY <2>1, <3>1
  <2>6. GoesOn(n, own)
    <3>1. m + 1 \in Nat /\ m + 1 > n
      BY <2>1
    <3> HIDE DEF own
    <3> QED
      BY <2>5, <3>1 DEF GoesOn
  <2>7. \A b \in Writers \ {a} : open[b].own = {}
    BY <1>5 DEF IInv, OneTransactionAhead
  <2>8. Linked(log \cup own)
    BY <1>3, <2>2 DEF IInv, Chained, Linked, Follows, Visible, Seqs
  <2> QED
    BY <1>1, <2>6, <2>7, <2>8
<1> QED
  BY <1>4, <1>5

\* What an insert writes to the writer's transaction.
LEMMA InsertEffect ==
    ASSUME IInv, NEW a \in Writers, Insert(a)
    PROVE  LET e == open[a].next
           IN  /\ open'[a] \in Opens /\ open'[a].pc = "open"
               /\ open'[a].own = open[a].own \cup {e}
               /\ open'[a].cps = IF Due(e.seq)
                                 THEN open[a].cps \cup {[upTo |-> e.seq, hash |-> e.hash]}
                                 ELSE open[a].cps
               /\ \A b \in Writers \ {a} : open'[b] = open[b]
               /\ DOMAIN open' = Writers /\ open' = [open EXCEPT ![a] = open'[a]]
               /\ UNCHANGED <<log, checkpoints, clock, modesSet, errors>>
<1> DEFINE e == open[a].next
           cps == IF Due(e.seq) THEN open[a].cps \cup {[upTo |-> e.seq, hash |-> e.hash]}
                  ELSE open[a].cps
           r == [open[a] EXCEPT !.pc = "open", !.own = open[a].own \cup {e}, !.next = Origin,
                                !.cps = cps]
<1>1. open[a] \in Opens /\ e \in Entries
  BY OpensType DEF IInv, TypeOK, Insert
<1>2. open[a].own \cup {e} \in SUBSET Entries /\ cps \in SUBSET Marks
  BY <1>1 DEF Opens, Marks, Entries
<1>3. Become(a, r) /\ UNCHANGED <<modesSet, errors>>
  BY <1>1 DEF Insert, Opens
<1> HIDE DEF e, cps
<1>4. r \in Opens /\ r.pc = "open" /\ r.own = open[a].own \cup {e} /\ r.cps = cps
  BY <1>1, <1>2 DEF Opens
<1> HIDE DEF r
<1> QED
  BY <1>3, <1>4 DEF Become, IInv, TypeOK, e, cps

LEMMA InsertStep ==
    ASSUME IInv, NEW a \in Writers, Insert(a)
    PROVE  IInv'
<1>1. PICK n \in Nat : DenseUpTo(n)
  BY DEF IInv, Dense
<1> DEFINE e == open[a].next
           own == open[a].own \cup {e}
<1>2. /\ e \in Entries
      /\ GoesOn(n, own)
      /\ \A b \in Writers \ {a} : open[b].own = {}
      /\ Linked(log \cup own)
  BY <1>1, InsertFacts
<1>3. /\ open'[a] \in Opens /\ open'[a].pc = "open"
      /\ open'[a].own = own
      /\ open'[a].cps = IF Due(e.seq)
                        THEN open[a].cps \cup {[upTo |-> e.seq, hash |-> e.hash]}
                        ELSE open[a].cps
      /\ \A b \in Writers \ {a} : open'[b] = open[b]
      /\ open' = [open EXCEPT ![a] = open'[a]]
      /\ UNCHANGED <<log, checkpoints, clock, modesSet, errors>>
  BY InsertEffect
<1>4. \A c \in open[a].cps : \E d \in open[a].own : d.seq = c.upTo /\ d.hash = c.hash
  BY DEF IInv, AllMarked, Marked
<1>5. Marked(own, open'[a].cps)
  <2>1. \A c \in open'[a].cps : \E d \in own : d.seq = c.upTo /\ d.hash = c.hash
    BY <1>3, <1>4
  <2>2. \A d \in own : d.seq % Interval = 0 => \E c \in open'[a].cps : c.upTo = d.seq
    <3> SUFFICES ASSUME NEW d \in own, d.seq % Interval = 0
                 PROVE  \E c \in open'[a].cps : c.upTo = d.seq
      OBVIOUS
    <3>1. CASE d \in open[a].own
      <4>1. \E c \in open[a].cps : c.upTo = d.seq
        BY <3>1 DEF IInv, AllMarked, Marked
      <4> QED
        BY <1>3, <4>1
    <3>2. CASE d = e
      <4>1. [upTo |-> e.seq, hash |-> e.hash] \in open'[a].cps
        BY <1>3, <3>2 DEF Due
      <4> QED
        BY <3>2, <4>1
    <3> QED
      BY <3>1, <3>2
  <2> QED
    BY <2>1, <2>2 DEF Marked
<1> HIDE DEF e, own
<1>6. TypeOK'
  BY <1>3 DEF IInv, TypeOK
<1>7. DenseUpTo(n)'
  <2>1. \A b \in Writers : GoesOn(n, open'[b].own)
    BY <1>1, <1>2, <1>3 DEF DenseUpTo
  <2> QED
    BY <1>1, <1>3, <2>1 DEF DenseUpTo, GoesOn, Seqs
<1>8. Dense'
  BY <1>7 DEF Dense
<1>9. OneTransactionAhead'
  BY <1>2, <1>3 DEF OneTransactionAhead
<1>10. Chained'
  <2>1. Linked(Visible(a))'
    BY <1>2, <1>3 DEF Visible, Linked, Follows
  <2>2. ASSUME NEW b \in Writers \ {a}
        PROVE  Linked(Visible(b))'
    BY <1>3, <2>2 DEF IInv, Chained, Visible, Linked, Follows
  <2>3. Linked(log)'
    BY <1>3 DEF IInv, Chained, Linked, Follows
  <2> QED
    BY <2>1, <2>2, <2>3 DEF Chained
<1>11. NextFollows'
  BY <1>3 DEF IInv, NextFollows, Follows, Seqs
<1>12. AllMarked'
  BY <1>3, <1>5 DEF IInv, AllMarked, Marked
<1> QED
  BY <1>6, <1>8, <1>9, <1>10, <1>11, <1>12 DEF IInv

LEMMA CommitStep ==
    ASSUME IInv, NEW a \in Writers, Commit(a)
    PROVE  IInv'
<1> DEFINE own == open[a].own
<1>1. PICK n \in Nat : DenseUpTo(n)
  BY DEF IInv, Dense
<1>2. /\ log' = log \cup own /\ checkpoints' = checkpoints \cup open[a].cps
      /\ open' = [open EXCEPT ![a] = NoOne]
      /\ UNCHANGED <<clock, modesSet, errors>>
  BY DEF Commit
<1>3. \A b \in Writers : open'[b] = IF b = a THEN NoOne ELSE open[b]
  BY <1>2 DEF IInv, TypeOK
<1>4. own # {} => \A b \in Writers : open'[b].own = {}
  BY <1>3, IdleType DEF IInv, OneTransactionAhead
<1>5. TypeOK'
  BY <1>2, <1>3, IdleType, OpensType DEF IInv, TypeOK, Opens
<1>6. Dense'
  <2>1. CASE own = {}
    <3>1. log' = log
      BY <1>2, <2>1
    <3>2. DenseUpTo(n)'
      BY <1>1, <1>3, <3>1, IdleType DEF DenseUpTo, GoesOn, Seqs
    <3> QED
      BY <3>2 DEF Dense
  <2>2. CASE own # {}
    <3>1. PICK m \in Nat : m > n /\ Seqs(own) = (n + 1)..m
      BY <1>1, <2>2 DEF DenseUpTo, GoesOn
    <3>2. Seqs(log)' = Seqs(log) \cup Seqs(own)
      BY <1>2 DEF Seqs
    <3>3. Seqs(log)' = 1..m
      <4>1. Seqs(log)' = (1..n) \cup ((n + 1)..m)
        BY <1>1, <3>1, <3>2 DEF DenseUpTo
      <4> QED
        BY <3>1, <4>1
    <3>4. DenseUpTo(m)'
      BY <1>4, <2>2, <3>3 DEF DenseUpTo, GoesOn
    <3> QED
      BY <3>4 DEF Dense
  <2> QED
    BY <2>1, <2>2
<1>7. OneTransactionAhead'
  BY <1>3, IdleType DEF IInv, OneTransactionAhead
<1>8. Chained'
  <2>1. Linked(log)'
    BY <1>2 DEF IInv, Chained, Linked, Visible, Follows
  <2>2. ASSUME NEW b \in Writers
        PROVE  Linked(Visible(b))'
    <3>1. CASE own # {} \/ b = a
      <4>1. Visible(b)' = log'
        BY <1>3, <1>4, <3>1, IdleType DEF Visible
      <4> QED
        BY <2>1, <4>1 DEF Linked, Follows
    <3>2. CASE own = {} /\ b # a
      <4>1. Visible(b)' = Visible(b)
        BY <1>2, <1>3, <3>2 DEF Visible
      <4> QED
        BY <4>1 DEF IInv, Chained, Linked, Follows
    <3> QED
      BY <3>1, <3>2
  <2> QED
    BY <2>1, <2>2 DEF Chained
<1>9. NextFollows'
  BY <1>2, <1>3, IdleType DEF IInv, NextFollows, Follows, Seqs
<1>10. AllMarked'
  BY <1>2, <1>3, IdleType DEF IInv, AllMarked, Marked
<1> QED
  BY <1>5, <1>6, <1>7, <1>8, <1>9, <1>10 DEF IInv

----------------------------------------------------------------------------
(***************************************************************************)
(* The theorems.                                                           *)
(***************************************************************************)

LEMMA InitIInv == Init => IInv
<1> SUFFICES ASSUME Init
             PROVE  IInv
  OBVIOUS
<1>1. TypeOK
  BY IdleType DEF Init, TypeOK
<1>2. Dense
  <2>1. DenseUpTo(0)
    BY IdleType DEF Init, DenseUpTo, GoesOn, Seqs
  <2> QED
    BY <2>1 DEF Dense
<1>3. OneTransactionAhead /\ NextFollows /\ AllMarked
  BY IdleType DEF Init, OneTransactionAhead, NextFollows, AllMarked, Marked
<1>4. Chained
  BY IdleType DEF Init, Chained, Linked, Visible
<1> QED
  BY <1>1, <1>2, <1>3, <1>4 DEF IInv

\* A step that leaves the rows and the transactions alone.
LEMMA QuietStep ==
    ASSUME IInv, UNCHANGED <<log, checkpoints, open>>,
           clock' \in Nat, modesSet' \in Nat, errors' \in Nat
    PROVE  IInv'
BY DEF IInv, TypeOK, Dense, DenseUpTo, GoesOn, Seqs, OneTransactionAhead, Chained, Linked,
       Visible, Follows, NextFollows, AllMarked, Marked

LEMMA NextIInv == IInv /\ [Next]_vars => IInv'
<1> SUFFICES ASSUME IInv, [Next]_vars
             PROVE  IInv'
  OBVIOUS
<1>1. CASE Tick
  BY <1>1, QuietStep DEF Tick, IInv, TypeOK
<1>2. ASSUME NEW a \in Writers, Begin(a) \/ Rollback(a)
      PROVE  IInv'
  BY <1>2, BeginStep, GiveUpStep
<1>3. ASSUME NEW a \in Writers, Write(a)
      PROVE  IInv'
  BY <1>3, PrepareStep, InsertStep, GiveUpStep, CommitStep DEF Write
<1>4. CASE UNCHANGED vars
  BY <1>4, QuietStep DEF vars, IInv, TypeOK
<1> QED
  BY <1>1, <1>2, <1>3, <1>4 DEF Next

THEOREM InvariantHolds == Spec => []IInv
BY InitIInv, NextIInv, PTL DEF Spec

\* Rows and transactions keep their types.
THEOREM TypeCorrect == Spec => []TypeOK
<1>1. IInv => TypeOK
  BY DEF IInv
<1> QED
  BY <1>1, InvariantHolds, PTL

\* Only one open transaction has entries: the writers of the log take turns.
THEOREM OneAhead == Spec => []OneTransactionAhead
<1>1. IInv => OneTransactionAhead
  BY DEF IInv
<1> QED
  BY <1>1, InvariantHolds, PTL

\* The verifier finds no gap and no broken link in the committed log.
THEOREM ChainHolds == Spec => []ChainIsLinked
<1>1. IInv => ChainIsLinked
  <2> SUFFICES ASSUME IInv, NEW e \in log, NEW d \in log \cup {Origin}, IsBefore(log, d, e)
               PROVE  e.seq = d.seq + 1 /\ e.prev = d.hash
    BY DEF ChainIsLinked, HasGap, HasBrokenLink
  <2>1. Follows(e, log) /\ (\A b, c \in log : b.seq = c.seq => b = c)
    BY DEF IInv, Chained, Linked
  <2>2. /\ e.seq \in Nat \ {0} /\ d.seq < e.seq
        /\ \A c \in log : c.seq < e.seq => c.seq <= d.seq
        /\ \A c \in log : c.seq \in Nat \ {0}
    BY OpensType DEF IInv, TypeOK, Entries, IsBefore
  <2>3. CASE e.seq = 1 /\ e.prev = Genesis
    <3>1. d = Origin
      BY <2>2, <2>3
    <3> QED
      BY <2>3, <3>1 DEF Origin
  <2>4. CASE \E c \in log : c.seq + 1 = e.seq /\ c.hash = e.prev
    <3>1. PICK c \in log : c.seq + 1 = e.seq /\ c.hash = e.prev
      BY <2>4
    <3>2. c.seq <= d.seq
      BY <2>2, <3>1
    <3>3. d \in log
      BY <2>2, <3>2 DEF Origin
    <3>4. d = c
      BY <2>1, <2>2, <3>1, <3>2, <3>3
    <3> QED
      BY <3>1, <3>4
  <2> QED
    BY <2>1, <2>3, <2>4 DEF Follows
<1> QED
  BY <1>1, InvariantHolds, PTL

\* A checkpoint has the hash of the entry it names, and none is left out.
THEOREM CheckpointsHold == Spec => []CheckpointsMatch
<1>1. IInv => CheckpointsMatch
  BY DEF IInv, AllMarked, Marked, CheckpointsMatch
<1> QED
  BY <1>1, InvariantHolds, PTL

\* The log grows at its end only.
THEOREM LogGrows == Spec => GrowsAtItsEnd
<1> DEFINE Grows == /\ log \subseteq log'
                    /\ \A e \in log' \ log, d \in log : d.seq < e.seq
<1>1. IInv /\ [Next]_vars => [Grows]_vars
  <2> SUFFICES ASSUME IInv, Next
               PROVE  Grows
    OBVIOUS
  <2>1. ASSUME NEW a \in Writers, Commit(a)
        PROVE  Grows
    <3>1. log' = log \cup open[a].own
      BY <2>1 DEF Commit
    <3>2. PICK n \in Nat : DenseUpTo(n)
      BY DEF IInv, Dense
    <3>3. \A d \in log : d.seq \in 1..n
      BY <3>2 DEF DenseUpTo, Seqs
    <3>4. \A e \in open[a].own : e.seq \in Nat /\ e.seq > n
      <4> SUFFICES ASSUME NEW e \in open[a].own
                   PROVE  e.seq \in Nat /\ e.seq > n
        OBVIOUS
      <4>1. PICK m \in Nat : m > n /\ Seqs(open[a].own) = (n + 1)..m
        BY <3>2 DEF DenseUpTo, GoesOn
      <4>2. e.seq \in (n + 1)..m
        BY <4>1 DEF Seqs
      <4> QED
        BY <4>1, <4>2
    <3> QED
      BY <3>1, <3>3, <3>4
  <2>2. (\E a \in Writers : Commit(a)) \/ UNCHANGED log
    BY DEF Next, Tick, Begin, Write, Prepare, Insert, InsertFails, Rollback, Become
  <2> QED
    BY <2>1, <2>2
<1> QED
  BY <1>1, InvariantHolds, PTL DEF Spec, GrowsAtItsEnd

\* An entry that is lost, and is not the last, leaves a gap the verifier finds.
THEOREM LossShows == Spec => []LossIsNoticed
<1>1. IInv => LossIsNoticed
  <2> SUFFICES ASSUME IInv, NEW e \in log, NEW l \in log, l.seq > e.seq
               PROVE  HasGap(log \ {e})
    BY DEF LossIsNoticed
  <2>1. PICK n \in Nat : Seqs(log) = 1..n
    BY DEF IInv, Dense, DenseUpTo
  <2>2. /\ \A c \in log : c.seq \in Nat \ {0} /\ c.seq \in 1..n
        /\ \A b, c \in log : b.seq = c.seq => b = c
    BY <2>1, OpensType DEF IInv, TypeOK, Entries, Seqs, Chained, Linked
  <2>3. PICK f \in log : f.seq = e.seq + 1
    <3>1. e.seq + 1 \in Seqs(log)
      BY <2>1, <2>2
    <3> QED
      BY <3>1 DEF Seqs
  <2>4. PICK g \in log \cup {Origin} : g.seq = e.seq - 1 /\ g # e
    <3>1. CASE e.seq = 1
      <4>1. Origin.seq = 0
        BY DEF Origin
      <4>2. Origin.seq = e.seq - 1 /\ Origin # e
        BY <3>1, <4>1
      <4> QED
        BY <4>2
    <3>2. CASE e.seq # 1
      <4>1. e.seq - 1 \in Seqs(log)
        BY <2>1, <2>2, <3>2
      <4> QED
        BY <2>2, <4>1 DEF Seqs
    <3> QED
      BY <3>1, <3>2
  <2>5. \A c \in log \ {e} : c.seq < f.seq => c.seq <= g.seq
    BY <2>2, <2>3, <2>4
  <2>6. IsBefore(log \ {e}, g, f) /\ f.seq # g.seq + 1 /\ f \in log \ {e}
    BY <2>2, <2>3, <2>4, <2>5 DEF IsBefore
  <2> QED
    BY <2>6 DEF HasGap, IsBefore
<1> QED
  BY <1>1, InvariantHolds, PTL
============================================================================
