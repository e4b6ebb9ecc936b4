------------------------------ MODULE AuditLog ------------------------------
(***************************************************************************)
(* The hash-chained audit log (security/audit_log.py under                 *)
(* src/backend/src) and the transactions that write it.                    *)
(*                                                                         *)
(* An entry is written inside the caller's transaction: a request that     *)
(* changes the mode or approves an artifact writes one, a worker driving a *)
(* task writes one per model call, and none is visible before the commit.  *)
(* To write, AuditService.log reads the latest entry it can see, hashes    *)
(* the new one over it, and inserts it; the unique index on                *)
(* sequence_number makes an insert wait for another open transaction that  *)
(* has the number, and fail once that has committed.                       *)
(*                                                                         *)
(* A hash is modelled by all that was hashed, in order, so equal hashes    *)
(* are hashes of equal chains.                                             *)
(***************************************************************************)
EXTENDS Naturals, Sequences

CONSTANTS
    Writers,   \* the transactions that may be open at once
    Interval,  \* settings.audit_checkpoint_interval
    MaxSeq,    \* bound: the highest sequence number written
    MaxTime,   \* bound: the readings of the clock
    MaxModes,  \* bound: the calls of set_mode in a behaviour
    MaxErrors  \* bound: the errors of callers in a behaviour

ASSUME IntervalAssumption == Interval \in Nat \ {0}
ASSUME MaximaAssumption   == /\ MaxSeq \in Nat /\ MaxTime \in Nat
                             /\ MaxModes \in Nat /\ MaxErrors \in Nat

VARIABLES
    log,          \* committed: the rows of audit_log
    checkpoints,  \* committed: the rows of audit_checkpoints
    open,         \* the transaction of each writer
    clock,        \* the time
    modesSet,     \* how often the mode was set, in memory (gateway.py, set_mode)
    errors        \* number of errors so far

vars == <<log, checkpoints, open, clock, modesSet, errors>>

\* What a transaction is for, which is also the entry_type it writes.
Kinds == {"mode_change", "approval_decision", "model_invoke"}

Genesis == <<>>

\* sha256(prev_hash || payload)
Hash(prev, payload) == Append(prev, payload)

\* Stands for the entry before the first.
Origin == [seq |-> 0, hash |-> Genesis]

NoOne == [pc |-> "idle", kind |-> "model_invoke", began |-> 0, own |-> {},
          cps |-> {}, next |-> Origin]

Init ==
    /\ log = {} /\ checkpoints = {}
    /\ open = [a \in Writers |-> NoOne]
    /\ clock = 0
    /\ modesSet = 0 /\ errors = 0

----------------------------------------------------------------------------

Become(a, r) ==
    /\ open' = [open EXCEPT ![a] = r]
    /\ UNCHANGED <<log, checkpoints, clock>>

\* The caller's first statement: now() is fixed for the whole transaction.
Begin(a) ==
    /\ open[a].pc = "idle"
    /\ \E k \in Kinds : Become(a, [NoOne EXCEPT !.pc = "open", !.kind = k, !.began = clock])
    /\ UNCHANGED <<modesSet, errors>>

\* The rows the statements of a transaction see: the committed ones and its own.
Visible(a) == log \cup open[a].own

\* A request writes one entry, a worker's transaction as many as it calls models.
MayLog(a) == open[a].own = {} \/ open[a].kind = "model_invoke"

\* Faulty variant: the transaction's own rows are left out of the query.
LatestCommitted(a, e) == /\ e \in log \cup {Origin}
                         /\ \A d \in log : d.seq <= e.seq

\* ORDER BY sequence_number DESC LIMIT 1
Latest(a, e) == /\ e \in Visible(a) \cup {Origin}
                /\ \A d \in Visible(a) : d.seq <= e.seq

\* Faulty variant: the latest number is taken again.
NewEntrySameSeq(a, latest) ==
    [seq |-> latest.seq, kind |-> open[a].kind, created |-> open[a].began,
     prev |-> latest.hash,
     hash |-> Hash(latest.hash, [seq |-> latest.seq, kind |-> open[a].kind,
                                 timestamp |-> clock])]

\* log: the latest entry is read and the next one hashed, with the time by the
\* application's clock; the row gets its created_at from the database's.
NewEntry(a, latest) ==
    LET seq     == latest.seq + 1
        payload == [seq |-> seq, kind |-> open[a].kind, timestamp |-> clock]
    IN  [seq |-> seq, kind |-> open[a].kind, created |-> open[a].began,
         prev |-> latest.hash, hash |-> Hash(latest.hash, payload)]

\* set_security_mode sets the mode before it writes the entry.
Prepare(a) ==
    /\ open[a].pc = "open" /\ MayLog(a)
    /\ \E e \in Visible(a) \cup {Origin} :
         /\ Latest(a, e)
         /\ e.seq < MaxSeq
         /\ Become(a, [open[a] EXCEPT !.pc = "insert", !.next = NewEntry(a, e)])
    /\ IF open[a].kind = "mode_change"
       THEN modesSet < MaxModes /\ modesSet' = modesSet + 1
       ELSE UNCHANGED modesSet
    /\ UNCHANGED errors

\* Faulty variant: the index is there, but not unique.
SeqFreeAlways(a, s) == TRUE

\* Faulty variant: the table is locked against everybody who is about to write.
SeqFreeAlone(a, s) == \A b \in Writers \ {a} : open[b].pc = "idle"

\* No other open transaction has inserted the number.
SeqFree(a, s) == \A b \in Writers \ {a} : \A d \in open[b].own : d.seq # s

\* Faulty variant: a conflict is not noticed.
TakenNever(s) == FALSE

Taken(s) == \E d \in log : d.seq = s

\* Faulty variant: a checkpoint after the entry that follows the interval.
DueOneLate(s) == s % Interval = 1 % Interval

Due(s) == s % Interval = 0

Insert(a) ==
    LET e == open[a].next
    IN  /\ open[a].pc = "insert" /\ SeqFree(a, e.seq)
        /\ ~Taken(e.seq)
        /\ Become(a, [open[a] EXCEPT
                        !.pc = "open", !.own = @ \cup {e}, !.next = Origin,
                        !.cps = IF Due(e.seq) THEN @ \cup {[upTo |-> e.seq, hash |-> e.hash]}
                                ELSE @])
        /\ UNCHANGED <<modesSet, errors>>

\* IntegrityError: the session has rolled the transaction back.
InsertFails(a) ==
    /\ open[a].pc = "insert" /\ SeqFree(a, open[a].next.seq)
    /\ Taken(open[a].next.seq)
    /\ Become(a, NoOne)
    /\ UNCHANGED <<modesSet, errors>>

Commit(a) ==
    /\ open[a].pc = "open"
    /\ open[a].own = {} => open[a].kind = "model_invoke"
    /\ log' = log \cup open[a].own
    /\ checkpoints' = checkpoints \cup open[a].cps
    /\ open' = [open EXCEPT ![a] = NoOne]
    /\ UNCHANGED <<clock, modesSet, errors>>

\* An error in the caller, or a statement of it that fails, wherever it is.
Rollback(a) ==
    /\ open[a].pc # "idle" /\ errors < MaxErrors
    /\ errors' = errors + 1
    /\ Become(a, NoOne)
    /\ UNCHANGED modesSet

Tick ==
    /\ clock < MaxTime
    /\ clock' = clock + 1
    /\ UNCHANGED <<log, checkpoints, open, modesSet, errors>>

Write(a) == Prepare(a) \/ Insert(a) \/ InsertFails(a) \/ Commit(a)

Next == Tick \/ \E a \in Writers : Begin(a) \/ Write(a) \/ Rollback(a)

Spec == Init /\ [][Next]_vars

\* A statement that is not waiting for a lock ends, and so does a request; the
\* caller goes on.  Nothing makes a request come, or the caller fail.
FairSpec == Spec /\ \A a \in Writers : WF_vars(Write(a))

----------------------------------------------------------------------------
(***************************************************************************)
(* verify_chain, over a set of rows.                                       *)
(***************************************************************************)

\* The entry that comes before e when the rows are read in order.
IsBefore(rows, d, e) ==
    /\ d \in rows \cup {Origin} /\ d.seq < e.seq
    /\ \A c \in rows : c.seq < e.seq => c.seq <= d.seq

HasGap(rows) ==
    \E e \in rows, d \in rows \cup {Origin} : IsBefore(rows, d, e) /\ e.seq # d.seq + 1

HasBrokenLink(rows) ==
    \E e \in rows, d \in rows \cup {Origin} : IsBefore(rows, d, e) /\ e.prev # d.hash

\* The verifier hashes the created_at of the row.
Rehash(e) == Hash(e.prev, [seq |-> e.seq, kind |-> e.kind, timestamp |-> e.created])

ChainIntegrity(rows) ==
    IF HasGap(rows) \/ HasBrokenLink(rows) \/ \E e \in rows : Rehash(e) # e.hash
    THEN "FAIL" ELSE "PASS"

----------------------------------------------------------------------------
(***************************************************************************)
(* Properties.                                                             *)
(***************************************************************************)

Seqs(rows) == {e.seq : e \in rows}

Payloads == [seq : Nat, kind : Kinds, timestamp : Nat]
Entries  == [seq : Nat \ {0}, kind : Kinds, created : Nat, prev : Seq(Payloads),
             hash : Seq(Payloads)]
Marks    == [upTo : Nat \ {0}, hash : Seq(Payloads)]
Opens    == [pc : {"idle", "open", "insert"}, kind : Kinds, began : Nat,
             own : SUBSET Entries, cps : SUBSET Marks, next : Entries \cup {Origin}]

\* Rows and transactions have their types; an insert always has an entry at hand.
TypeOK ==
    /\ log \in SUBSET Entries
    /\ checkpoints \in SUBSET Marks
    /\ open \in [Writers -> Opens]
    /\ \A a \in Writers : open[a].pc = "insert" => open[a].next \in Entries
    /\ clock \in Nat
    /\ modesSet \in Nat /\ errors \in Nat

\* However transactions interleave and roll back, the verifier finds neither a gap
\* in the committed numbers nor a link to another entry than the one before
\* (audit_log.py:69-79 reads, :113-115 inserts, with other writers in between).
ChainIsLinked == ~HasGap(log) /\ ~HasBrokenLink(log)

\* The log only grows, and at its end: what one transaction commits comes after all
\* that was committed before it.
GrowsAtItsEnd ==
    [][ /\ log \subseteq log'
        /\ \A e \in log' \ log, d \in log : d.seq < e.seq ]_vars

\* At most one open transaction has entries, so every other writer waits for it,
\* and its entries follow on the committed ones.
OneTransactionAhead ==
    \A a, b \in Writers : open[a].own # {} /\ open[b].own # {} => a = b

\* A checkpoint names a committed entry and has its hash, and every multiple of the
\* interval has one (audit_log.py:117-125).
CheckpointsMatch ==
    /\ \A c \in checkpoints : \E e \in log : e.seq = c.upTo /\ e.hash = c.hash
    /\ \A e \in log : e.seq % Interval = 0 => \E c \in checkpoints : c.upTo = e.seq

\* The loss of an entry that is not the last is noticed by the sequence check
\* (project.md:85).
LossIsNoticed ==
    \A e \in log : (\E d \in log : d.seq > e.seq) => HasGap(log \ {e})

\* A writer is never stuck on the index: whoever has an entry to insert is done in
\* the end, one way or the other.
WritersFinish == \A a \in Writers : open[a].pc = "insert" ~> open[a].pc = "idle"

(***************************************************************************)
(* What the documents promise and the code does not keep.                  *)
(***************************************************************************)

\* "/api/v1/audit/verify showing sequence-gap and hash-chain checks passing"
\* (project.md:811): on a log nobody has touched.
VerifyPasses == ChainIntegrity(log) = "PASS"

\* "admin-only toggle, separately authenticated, fully audited" (project.md:604):
\* when no request is under way, every change of the mode has its entry.
ModeChangesAudited ==
    (\A a \in Writers : open[a].pc = "idle")
        => (modesSet > 0 => \E e \in log : e.kind = "mode_change")
============================================================================
