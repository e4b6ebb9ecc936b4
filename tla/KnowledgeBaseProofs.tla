------------------------- MODULE KnowledgeBaseProofs -------------------------
(***************************************************************************)
(* Proofs about KnowledgeBase, for every finite set of documents, tags and *)
(* requests, every text, every answer of the vision model and every bound. *)
(***************************************************************************)
EXTENDS KnowledgeBase, FiniteSetTheorems, SequenceTheorems, TLAPS

Classifications ==
    [at: {"idle", "loaded", "tagged", "ingesting", "done"}, doc: Docs, seen: Row, mine: Row,
     annotates: BOOLEAN, todo: 0 .. MaxChunks, next: 1 .. MaxChunks + 1, ingested: 0 .. MaxChunks]

\* How far a request has come with the chunks, and that it changes its row only
\* forward: it marks the document as reviewed and adds rows of extractions.
PlaceInv(r) ==
    /\ r.ingested < r.next /\ r.next <= r.todo + 1
    /\ r.at \in {"idle", "loaded", "tagged"} => r.next = 1 /\ r.todo = 0
    /\ r.seen.rows <= r.mine.rows
    /\ r.at # "idle" => /\ r.mine.confirmed /\ r.mine.tag \in Tags
                        /\ r.seen.confirmed => docs[r.doc].confirmed

PlacesInv == TypeOK /\ \A h \in Requests : PlaceInv(req[h])

----------------------------------------------------------------------------
(***************************************************************************)
(* The operators.                                                          *)
(***************************************************************************)

LEMMA RowTypes ==
    /\ NoRow \in Row /\ NewRow \in Row
    /\ NoRow.confirmed = FALSE /\ NewRow.confirmed = FALSE
    /\ NewRow.chunks = NoRow.chunks /\ NoRow.chunks = 0
<1>1. NoRow \in Row
  BY LimitAssumption DEF NoRow, Row, ProcessingStatuses
<1>2. NewRow = [NoRow EXCEPT !.status = "pending"] /\ "pending" \in ProcessingStatuses
  BY DEF NewRow, ProcessingStatuses
<1> QED
  BY <1>1, <1>2 DEF NoRow, Row

LEMMA IdleType == Idle \in Classifications /\ PlaceInv(Idle) /\ Idle.at = "idle"
<1>1. (CHOOSE d \in Docs : TRUE) \in Docs
  BY FiniteAssumption
<1>2. NoRow \in Row /\ NoRow.rows <= NoRow.rows
  BY RowTypes DEF NoRow
<1>3. 0 \in 0 .. MaxChunks /\ 1 \in 1 .. MaxChunks + 1
  BY LimitAssumption
<1> QED
  BY <1>1, <1>2, <1>3 DEF Idle, Classifications, PlaceInv

\* One more of something.
LEMMA AddOne ==
    ASSUME NEW S, NEW f \in [S -> Nat], NEW p \in S
    PROVE  /\ [f EXCEPT ![p] = @ + 1] \in [S -> Nat]
           /\ \A q \in S : [f EXCEPT ![p] = @ + 1][q] = IF q = p THEN f[q] + 1 ELSE f[q]
OBVIOUS

\* What a commit writes: the columns the request has changed.
WrittenRow(new, row, seen, mine) ==
    /\ new \in Row
    /\ new.confirmed = IF mine.confirmed = seen.confirmed THEN row.confirmed ELSE mine.confirmed
    /\ new.chunks \in {row.chunks, mine.chunks}
    /\ new.status \in {row.status, mine.status}

LEMMA WrittenType ==
    ASSUME NEW row \in Row, NEW seen \in Row, NEW mine \in Row, seen.rows <= mine.rows
    PROVE  WrittenRow(Written(row, seen, mine), row, seen, mine)
<1> DEFINE new(c) == IF mine[c] = seen[c] THEN row[c] ELSE mine[c]
           rows == row.rows + (mine.rows - seen.rows)
<1>1. rows \in Nat
  BY DEF Row
<1>2. DOMAIN row = {"status", "tag", "confirmed", "chunks", "rows"}
  BY DEF Row
<1> HIDE DEF rows
<1>3. Written(row, seen, mine) = [status |-> new("status"), tag |-> new("tag"),
                                  confirmed |-> new("confirmed"), chunks |-> new("chunks"),
                                  rows |-> rows]
  BY <1>2 DEF Written, rows
<1>4. /\ new("status") \in {row.status, mine.status} /\ new("tag") \in {row.tag, mine.tag}
      /\ new("chunks") \in {row.chunks, mine.chunks}
      /\ new("confirmed") = IF mine.confirmed = seen.confirmed THEN row.confirmed ELSE mine.confirmed
  OBVIOUS
<1> HIDE DEF new
<1> QED
  BY <1>1, <1>3, <1>4 DEF Row, WrittenRow

----------------------------------------------------------------------------
(***************************************************************************)
(* Types, and how far a request has come.                                  *)
(***************************************************************************)

\* What a step makes of the request, of which the other requests see nothing.
OnlyReq(h, r) == \A g \in Requests : req'[g] = IF g = h THEN r ELSE req[g]

\* A step of a request that leaves the rows alone keeps PlacesInv when what it has
\* then in hand is in place.
LEMMA PlaceStep ==
    ASSUME PlacesInv, NEW h \in Requests, NEW r \in Classifications,
           req' = [req EXCEPT ![h] = r], PlaceInv(r), UNCHANGED <<docs, files>>,
           points' \in [Docs \X ChunkNos \X Tags -> Nat], asked' \in [Docs \X Tags -> Nat],
           interrupted' \subseteq Docs, faults' \in 0 .. MaxFaults
    PROVE  PlacesInv' /\ OnlyReq(h, r)
<1>1. req \in [Requests -> Classifications]
  BY DEF PlacesInv, TypeOK, Classifications
<1>2. OnlyReq(h, r) /\ req' \in [Requests -> Classifications]
  BY <1>1 DEF OnlyReq
<1>3. TypeOK'
  BY <1>2 DEF PlacesInv, TypeOK, Classifications
<1>4. \A g \in Requests : PlaceInv(req'[g])
  BY <1>2 DEF PlacesInv, OnlyReq
<1>5. \A g \in Requests : PlaceInv(req[g])'
  BY <1>4 DEF PlaceInv
<1> QED
  BY <1>2, <1>3, <1>5 DEF PlacesInv

LEMMA ReqType ==
    ASSUME PlacesInv, NEW h \in Requests
    PROVE  req[h] \in Classifications /\ PlaceInv(req[h]) /\ req \in [Requests -> Classifications]
BY DEF PlacesInv, TypeOK, Classifications

LEMMA FaultType == ASSUME PlacesInv, Fault PROVE faults' \in 0 .. MaxFaults
BY LimitAssumption DEF PlacesInv, TypeOK, Fault

\* The request as each step leaves it.
Loaded(d, tag, annotates) ==
    [Idle EXCEPT !.at = "loaded", !.doc = d, !.seen = docs[d], !.annotates = annotates,
                 !.mine = [docs[d] EXCEPT !.tag = tag, !.confirmed = TRUE]]

LEMMA LoadShape ==
    ASSUME PlacesInv, NEW h \in Requests, NEW d \in Docs, NEW tag \in Tags,
           NEW annotates \in BOOLEAN, LoadDocument(h, d, tag, annotates)
    PROVE  /\ PlacesInv' /\ OnlyReq(h, Loaded(d, tag, annotates))
           /\ ~Working(h)
           /\ LET r == Loaded(d, tag, annotates)
              IN  /\ r.at = "loaded" /\ r.doc = d /\ r.next = 1 /\ r.ingested = 0 /\ r.todo = 0
                  /\ r.seen = docs[d] /\ r.mine.tag = tag /\ r.mine.chunks = docs[d].chunks
                  /\ r.mine.status = docs[d].status
<1> DEFINE r == Loaded(d, tag, annotates)
           m == [docs[d] EXCEPT !.tag = tag, !.confirmed = TRUE]
<1>1. docs[d] \in Row /\ docs[d].rows \in Nat
  BY DEF PlacesInv, TypeOK, Row
<1>2. /\ m \in Row /\ m.rows = docs[d].rows /\ m.confirmed /\ m.tag = tag
      /\ m.chunks = docs[d].chunks /\ m.status = docs[d].status
  BY <1>1 DEF Row
<1>3. r = [Idle EXCEPT !.at = "loaded", !.doc = d, !.seen = docs[d], !.annotates = annotates,
                       !.mine = m]
  BY DEF Loaded
<1>4. req' = [req EXCEPT ![h] = r] /\ UNCHANGED <<docs, files, points, asked, interrupted, faults>>
      /\ ~Working(h)
  BY <1>3 DEF LoadDocument
<1> HIDE DEF m, r
<1>5. /\ r \in Classifications /\ r.at = "loaded" /\ r.doc = d /\ r.next = 1 /\ r.ingested = 0
      /\ r.todo = 0 /\ r.seen = docs[d] /\ r.mine = m
  BY <1>1, <1>2, <1>3, IdleType DEF Idle, Classifications
<1>6. PlaceInv(r)
  BY <1>1, <1>2, <1>5 DEF PlaceInv
<1>7. PlacesInv' /\ OnlyReq(h, r)
  BY <1>4, <1>5, <1>6, PlaceStep DEF PlacesInv, TypeOK
<1> QED
  BY <1>2, <1>4, <1>5, <1>7 DEF r

LEMMA FlushShape ==
    ASSUME PlacesInv, NEW h \in Requests, FlushTag(h)
    PROVE  /\ PlacesInv'
           /\ req[h].at = "loaded" /\ UNCHANGED <<docs, points, interrupted>>
           /\ \A d \in Docs, t \in Tags :
                asked'[<<d, t>>] = IF d = req[h].doc /\ t = req[h].mine.tag THEN asked[<<d, t>>] + 1
                               ELSE asked[<<d, t>>]
           /\ \E at \in {"tagged", "done"} : OnlyReq(h, [req[h] EXCEPT !.at = at])
<1>1. req[h] \in Classifications /\ PlaceInv(req[h]) /\ req \in [Requests -> Classifications]
  BY ReqType
<1>2. /\ req[h].at = "loaded" /\ UNCHANGED <<docs, files, points, interrupted, faults>>
      /\ asked' = [asked EXCEPT ![<<req[h].doc, req[h].mine.tag>>] = @ + 1]
  BY DEF FlushTag
<1>3. PICK at \in {"tagged", "done"} : req' = [req EXCEPT ![h] = [req[h] EXCEPT !.at = at]]
  BY <1>1 DEF FlushTag, Classifications
<1> DEFINE r == [req[h] EXCEPT !.at = at]
<1>4. /\ r \in Classifications /\ r.at = at /\ r.doc = req[h].doc /\ r.seen = req[h].seen
      /\ r.mine = req[h].mine /\ r.next = req[h].next /\ r.todo = req[h].todo
      /\ r.ingested = req[h].ingested
  BY <1>1 DEF Classifications
<1>5. req' = [req EXCEPT ![h] = r]
  BY <1>3
<1> HIDE DEF r
<1>6. PlaceInv(r)
  BY <1>1, <1>2, <1>4 DEF PlaceInv
<1>7. asked \in [Docs \X Tags -> Nat] /\ req[h].doc \in Docs
  BY <1>1 DEF PlacesInv, TypeOK, Classifications
<1>t. req[h].mine.tag \in Tags
  BY <1>1, <1>2 DEF PlaceInv
<1>8. /\ asked' \in [Docs \X Tags -> Nat]
      /\ \A d \in Docs, t \in Tags :
           asked'[<<d, t>>] = IF d = req[h].doc /\ t = req[h].mine.tag THEN asked[<<d, t>>] + 1
                          ELSE asked[<<d, t>>]
  <2>1. PICK p \in Docs \X Tags : p = <<req[h].doc, req[h].mine.tag>>
    BY <1>7, <1>t
  <2>2. /\ asked' \in [Docs \X Tags -> Nat]
        /\ \A q \in Docs \X Tags : asked'[q] = IF q = p THEN asked[q] + 1 ELSE asked[q]
    BY <1>2, <1>7, <2>1, AddOne
  <2>3. \A d \in Docs, t \in Tags : <<d, t>> = p <=> d = req[h].doc /\ t = req[h].mine.tag
    BY <2>1
  <2> QED
    BY <2>2, <2>3
<1>9. PlacesInv' /\ OnlyReq(h, r)
  BY <1>2, <1>4, <1>5, <1>6, <1>8, PlaceStep DEF PlacesInv, TypeOK
<1> QED
  BY <1>2, <1>8, <1>9 DEF r

\* The same request about the same document, under the same tag.
SameWork(r, q) == r.doc = q.doc /\ r.seen = q.seen /\ r.mine.tag = q.mine.tag

LEMMA ReadShape ==
    ASSUME PlacesInv, NEW h \in Requests,
           NEW answers \in [DOMAIN Pages(Content[req[h].doc]) -> Answers], ReadDocument(h, answers)
    PROVE  /\ PlacesInv'
           /\ req[h].at = "tagged" /\ UNCHANGED <<docs, points, asked, interrupted>>
           /\ \E r : /\ OnlyReq(h, r) /\ SameWork(r, req[h]) /\ r.at \in {"ingesting", "done"}
                     /\ r.next = 1 /\ r.ingested = 0 /\ r.mine.chunks = req[h].mine.chunks
                     /\ r.at = "ingesting" /\ Content[r.doc].kind = "text" =>
                          r.todo = Len(ChunkText(Content[r.doc].words))
<1> DEFINE q == req[h]
           result == IngestDocumentPipeline(Content[q.doc], answers)
           read == IF q.doc \in files THEN result ELSE [raises |-> TRUE, rows |-> 0, words |-> 0]
           at == IF read.raises THEN "done" ELSE "ingesting"
           todo == IF read.raises THEN 0 ELSE Len(ChunkText(read.words))
           rows == q.seen.rows + read.rows
           status == IF read.raises THEN "failed" ELSE q.mine.status
<1>1. q \in Classifications /\ PlaceInv(q) /\ req \in [Requests -> Classifications]
  BY ReqType
<1>2. q.doc \in Docs /\ q.seen.rows \in Nat /\ q.mine \in Row /\ q.seen \in Row
  BY <1>1 DEF Classifications, Row
<1>3. read.rows \in Nat /\ (read.raises \/ (read = result /\ q.doc \in files))
  BY <1>2, ContentAssumption
<1>4. todo \in 0 .. MaxChunks
  BY <1>2, <1>3, ContentAssumption, LimitAssumption
<1>5. rows \in Nat /\ q.seen.rows <= rows
  BY <1>2, <1>3
<1>6. status \in ProcessingStatuses
  BY <1>2 DEF ProcessingStatuses, Row
<1>7. at = "ingesting" /\ Content[q.doc].kind = "text" => todo = Len(ChunkText(Content[q.doc].words))
  <2> SUFFICES ASSUME ~read.raises, Content[q.doc].kind = "text"
               PROVE  Len(ChunkText(read.words)) = Len(ChunkText(Content[q.doc].words))
    OBVIOUS
  <2>1. result = [raises |-> FALSE, rows |-> 0, words |-> Content[q.doc].words]
    BY DEF IngestDocumentPipeline
  <2> QED
    BY <1>3, <2>1
<1>8. /\ req' = [req EXCEPT ![h].at = at, ![h].todo = todo, ![h].mine.rows = rows,
                            ![h].mine.status = status]
      /\ q.at = "tagged" /\ UNCHANGED <<docs, files, points, asked, interrupted, faults>>
  BY DEF ReadDocument
<1>9. at \in {"ingesting", "done"} /\ (at = "done" \/ at = "ingesting")
  OBVIOUS
<1> HIDE DEF read, at, todo, rows, status
<1> DEFINE m == [q.mine EXCEPT !.rows = rows, !.status = status]
           r == [q EXCEPT !.at = at, !.todo = todo, !.mine = m]
<1>10. m \in Row /\ m.rows = rows /\ m.tag = q.mine.tag /\ m.confirmed = q.mine.confirmed
       /\ m.chunks = q.mine.chunks
  BY <1>2, <1>5, <1>6 DEF Row
<1>11. req' = [req EXCEPT ![h] = r]
  BY <1>1, <1>8
<1> HIDE DEF m
<1>12. /\ r \in Classifications /\ r.at = at /\ r.todo = todo /\ r.mine = m /\ r.doc = q.doc
       /\ r.seen = q.seen /\ r.next = q.next /\ r.ingested = q.ingested
  BY <1>1, <1>4, <1>9, <1>10 DEF Classifications
<1>13. q.next = 1 /\ q.ingested = 0
  BY <1>1, <1>8 DEF PlaceInv, Classifications
<1> HIDE DEF r
<1>14. PlaceInv(r)
  BY <1>1, <1>4, <1>5, <1>8, <1>9, <1>10, <1>12, <1>13 DEF PlaceInv
<1>15. PlacesInv' /\ OnlyReq(h, r)
  BY <1>8, <1>11, <1>12, <1>14, PlaceStep DEF PlacesInv, TypeOK
<1>16. SameWork(r, q)
  BY <1>10, <1>12 DEF SameWork
<1> QED
  BY <1>7, <1>8, <1>9, <1>10, <1>12, <1>13, <1>15, <1>16

LEMMA UnavailableShape ==
    ASSUME PlacesInv, NEW h \in Requests, QdrantUnavailable(h)
    PROVE  /\ PlacesInv'
           /\ req[h].at = "ingesting" /\ UNCHANGED <<docs, points, asked, interrupted>>
           /\ \E r : /\ OnlyReq(h, r) /\ SameWork(r, req[h]) /\ r.at = "ingesting"
                     /\ req[h].next = 1 /\ r.next = 1 /\ r.ingested = 0 /\ r.todo = 0
                     /\ r.mine = req[h].mine
<1>1. req[h] \in Classifications /\ PlaceInv(req[h]) /\ req \in [Requests -> Classifications]
  BY ReqType
<1> DEFINE r == [req[h] EXCEPT !.todo = 0]
<1>2. /\ req' = [req EXCEPT ![h] = r] /\ req[h].at = "ingesting" /\ req[h].next = 1
      /\ UNCHANGED <<docs, files, points, asked, interrupted>> /\ Fault
  BY <1>1 DEF QdrantUnavailable
<1>3. /\ r \in Classifications /\ r.at = "ingesting" /\ r.todo = 0 /\ r.next = 1
      /\ r.ingested = req[h].ingested /\ r.doc = req[h].doc /\ r.seen = req[h].seen
      /\ r.mine = req[h].mine
  BY <1>1, <1>2, LimitAssumption DEF Classifications
<1> HIDE DEF r
<1>4. req[h].ingested = 0
  BY <1>1, <1>2 DEF PlaceInv, Classifications
<1>5. PlaceInv(r)
  BY <1>1, <1>2, <1>3, <1>4 DEF PlaceInv
<1>6. PlacesInv' /\ OnlyReq(h, r)
  BY <1>2, <1>3, <1>5, FaultType, PlaceStep DEF PlacesInv, TypeOK
<1> QED
  BY <1>2, <1>3, <1>4, <1>6 DEF SameWork

\* One turn of the loop over the chunks: one point more, or none.
LEMMA TurnShape ==
    ASSUME PlacesInv, NEW h \in Requests, IngestChunk(h) \/ SkipChunk(h)
    PROVE  /\ PlacesInv'
           /\ req[h].at = "ingesting" /\ req[h].next \in ChunkNos /\ req[h].next <= req[h].todo
           /\ req[h].mine.tag \in Tags
           /\ UNCHANGED <<docs, asked, interrupted>>
           /\ \E r, n : /\ OnlyReq(h, r) /\ SameWork(r, req[h]) /\ r.at = "ingesting"
                        /\ n \in {0, 1} /\ r.next = req[h].next + 1
                        /\ r.ingested = req[h].ingested + n
                        /\ r.todo = req[h].todo /\ r.mine = req[h].mine
                        /\ \A d \in Docs, k \in ChunkNos, t \in Tags :
                             points'[<<d, k, t>>] =
                               IF d = r.doc /\ k = req[h].next /\ t = r.mine.tag
                               THEN points[<<d, k, t>>] + n ELSE points[<<d, k, t>>]
<1> DEFINE q == req[h]
<1>1. q \in Classifications /\ PlaceInv(q) /\ req \in [Requests -> Classifications]
  BY ReqType
<1>2. /\ q.at = "ingesting" /\ q.next <= q.todo /\ UNCHANGED <<docs, files, asked, interrupted>>
      /\ faults' \in 0 .. MaxFaults
  BY FaultType DEF IngestChunk, SkipChunk, PlacesInv, TypeOK
<1>3. /\ q.next \in ChunkNos /\ q.todo \in 0 .. MaxChunks /\ q.ingested \in 0 .. MaxChunks
      /\ q.doc \in Docs /\ q.mine.tag \in Tags /\ q.ingested < q.next
  BY <1>1, <1>2, LimitAssumption DEF Classifications, PlaceInv, ChunkNos
<1>4. points \in [Docs \X ChunkNos \X Tags -> Nat]
  BY DEF PlacesInv, TypeOK
<1>5. PICK n \in {0, 1} :
        /\ req' = [req EXCEPT ![h] = [q EXCEPT !.next = q.next + 1, !.ingested = q.ingested + n]]
        /\ points' \in [Docs \X ChunkNos \X Tags -> Nat]
        /\ \A d \in Docs, k \in ChunkNos, t \in Tags :
             points'[<<d, k, t>>] = IF d = q.doc /\ k = q.next /\ t = q.mine.tag
                                    THEN points[<<d, k, t>>] + n ELSE points[<<d, k, t>>]
  <2>1. CASE SkipChunk(h)
    <3>1. UNCHANGED points /\ req' = [req EXCEPT ![h].next = @ + 1]
      BY <2>1 DEF SkipChunk
    <3>2. q.ingested = q.ingested + 0
      BY <1>3
    <3>3. req' = [req EXCEPT ![h] = [q EXCEPT !.next = q.next + 1, !.ingested = q.ingested + 0]]
      BY <1>1, <3>1, <3>2 DEF Classifications
    <3>4. \A d \in Docs, k \in ChunkNos, t \in Tags : points[<<d, k, t>>] \in Nat
      BY <1>4
    <3>5. \A d \in Docs, k \in ChunkNos, t \in Tags :
            points'[<<d, k, t>>] = IF d = q.doc /\ k = q.next /\ t = q.mine.tag
                                   THEN points[<<d, k, t>>] + 0 ELSE points[<<d, k, t>>]
      <4> SUFFICES ASSUME NEW d \in Docs, NEW k \in ChunkNos, NEW t \in Tags
                   PROVE  points'[<<d, k, t>>] = points[<<d, k, t>>] + 0
        BY <3>1, <3>4
      <4>1. points[<<d, k, t>>] \in Nat /\ points' = points
        BY <3>1, <3>4
      <4> QED
        BY <4>1
    <3>6. points' \in [Docs \X ChunkNos \X Tags -> Nat] /\ 0 \in {0, 1}
      BY <1>4, <3>1
    <3> QED
      BY <3>3, <3>5, <3>6
  <2>2. CASE IngestChunk(h)
    <3>1. /\ points' = [points EXCEPT ![<<q.doc, q.next, q.mine.tag>>] = @ + 1]
          /\ req' = [req EXCEPT ![h].next = @ + 1, ![h].ingested = @ + 1]
      BY <2>2 DEF IngestChunk
    <3>2. req' = [req EXCEPT ![h] = [q EXCEPT !.next = q.next + 1, !.ingested = q.ingested + 1]]
      BY <1>1, <3>1 DEF Classifications
    <3>3. PICK p \in Docs \X ChunkNos \X Tags : p = <<q.doc, q.next, q.mine.tag>>
      BY <1>3
    <3>a. points' = [points EXCEPT ![p] = @ + 1]
      BY <3>1, <3>3
    <3> DEFINE S == Docs \X ChunkNos \X Tags
    <3>b. points \in [S -> Nat] /\ p \in S
      BY <1>4, <3>3
    <3> HIDE DEF S
    <3>4. /\ points' \in [S -> Nat]
          /\ \A x \in S : points'[x] = IF x = p THEN points[x] + 1 ELSE points[x]
      BY <3>a, <3>b, AddOne
    <3>5. \A d \in Docs, k \in ChunkNos, t \in Tags :
            <<d, k, t>> = p <=> d = q.doc /\ k = q.next /\ t = q.mine.tag
      BY <3>3
    <3>6. \A d \in Docs, k \in ChunkNos, t \in Tags :
            points'[<<d, k, t>>] = IF d = q.doc /\ k = q.next /\ t = q.mine.tag
                                   THEN points[<<d, k, t>>] + 1 ELSE points[<<d, k, t>>]
      BY <3>4, <3>5 DEF S
    <3>7. points' \in [Docs \X ChunkNos \X Tags -> Nat] /\ 1 \in {0, 1}
      BY <3>4 DEF S
    <3> QED
      BY <3>2, <3>6, <3>7
  <2> QED
    BY <2>1, <2>2
<1> DEFINE next == q.next + 1
           ingested == q.ingested + n
<1>6. next \in 1 .. MaxChunks + 1 /\ ingested \in 0 .. MaxChunks /\ ingested < next /\ next <= q.todo + 1
  BY <1>2, <1>3, LimitAssumption DEF ChunkNos
<1> DEFINE r == [q EXCEPT !.next = next, !.ingested = ingested]
<1>7. req' = [req EXCEPT ![h] = r]
  BY <1>5
<1> HIDE DEF next, ingested
<1>8. /\ r \in Classifications /\ r.at = "ingesting" /\ r.next = next /\ r.ingested = ingested
      /\ r.todo = q.todo /\ r.doc = q.doc /\ r.seen = q.seen /\ r.mine = q.mine
  BY <1>1, <1>2, <1>6 DEF Classifications
<1> HIDE DEF r
<1>9. PlaceInv(r)
  BY <1>1, <1>2, <1>6, <1>8 DEF PlaceInv
<1>10. PlacesInv' /\ OnlyReq(h, r)
  BY <1>2, <1>5, <1>7, <1>8, <1>9, PlaceStep DEF PlacesInv, TypeOK
<1>11. r.next = q.next + 1 /\ r.ingested = q.ingested + n /\ SameWork(r, q)
  BY <1>8 DEF next, ingested, SameWork
<1> QED
  BY <1>2, <1>3, <1>5, <1>8, <1>10, <1>11

LEMMA CompleteShape ==
    ASSUME PlacesInv, NEW h \in Requests, CompleteDocument(h)
    PROVE  /\ PlacesInv'
           /\ req[h].at = "ingesting" /\ req[h].next = req[h].todo + 1
           /\ UNCHANGED <<docs, points, asked, interrupted>>
           /\ \E r : /\ OnlyReq(h, r) /\ SameWork(r, req[h]) /\ r.at = "done"
                     /\ r.mine.chunks = req[h].ingested
<1> DEFINE q == req[h]
           m == [q.mine EXCEPT !.status = "completed", !.chunks = q.ingested]
           r == [q EXCEPT !.at = "done", !.mine = m]
<1>1. q \in Classifications /\ PlaceInv(q) /\ req \in [Requests -> Classifications]
  BY ReqType
<1>2. /\ q.at = "ingesting" /\ q.next > q.todo
      /\ req' = [req EXCEPT ![h].at = "done", ![h].mine.status = "completed",
                            ![h].mine.chunks = q.ingested]
      /\ UNCHANGED <<docs, files, points, asked, interrupted, faults>>
  BY DEF CompleteDocument
<1>3. q.next = q.todo + 1
  BY <1>1, <1>2, LimitAssumption DEF Classifications, PlaceInv
<1>4. req' = [req EXCEPT ![h] = r]
  BY <1>1, <1>2
<1>5. q.mine \in Row /\ q.ingested \in 0 .. MaxChunks
  BY <1>1 DEF Classifications
<1>6. /\ m \in Row /\ m.rows = q.mine.rows /\ m.confirmed = q.mine.confirmed
      /\ m.tag = q.mine.tag /\ m.chunks = q.ingested
  BY <1>5 DEF Row, ProcessingStatuses
<1> HIDE DEF m
<1>7. /\ r \in Classifications /\ r.at = "done" /\ r.mine = m /\ r.todo = q.todo
      /\ r.next = q.next /\ r.ingested = q.ingested /\ r.doc = q.doc /\ r.seen = q.seen
  BY <1>1, <1>6 DEF Classifications
<1> HIDE DEF r
<1>8. PlaceInv(r)
  BY <1>1, <1>2, <1>6, <1>7 DEF PlaceInv
<1>9. PlacesInv' /\ OnlyReq(h, r)
  BY <1>2, <1>4, <1>7, <1>8, PlaceStep DEF PlacesInv, TypeOK
<1> QED
  BY <1>2, <1>3, <1>6, <1>7, <1>9 DEF SameWork

LEMMA RollBackShape ==
    ASSUME PlacesInv, NEW h \in Requests, RollBack(h)
    PROVE  /\ PlacesInv' /\ OnlyReq(h, Idle) /\ UNCHANGED <<docs, points, asked>>
           /\ interrupted' = interrupted \cup {req[h].doc}
<1>1. req[h] \in Classifications /\ req[h].doc \in Docs
  BY ReqType DEF Classifications
<1>2. /\ req' = [req EXCEPT ![h] = Idle] /\ UNCHANGED <<docs, files, points, asked>> /\ Fault
      /\ interrupted' = interrupted \cup {req[h].doc}
  BY DEF RollBack
<1> QED
  BY <1>1, <1>2, IdleType, FaultType, PlaceStep DEF PlacesInv, TypeOK

\* The row that a commit writes is reviewed, and so stays a row that was.
LEMMA CommitShape ==
    ASSUME PlacesInv, NEW h \in Requests, CommitClassify(h)
    PROVE  /\ PlacesInv' /\ OnlyReq(h, Idle) /\ UNCHANGED <<points, asked, interrupted>>
           /\ req[h].at = "done" /\ req[h].doc \in Docs
           /\ \A d \in Docs : d # req[h].doc => docs'[d] = docs[d]
           /\ docs'[req[h].doc].confirmed
           /\ docs'[req[h].doc].chunks \in {docs[req[h].doc].chunks, req[h].mine.chunks}
<1> DEFINE q == req[h]
           new == Written(docs[q.doc], q.seen, q.mine)
<1>1. q \in Classifications /\ PlaceInv(q) /\ req \in [Requests -> Classifications]
  BY ReqType
<1>2. /\ q.at = "done" /\ docs' = [docs EXCEPT ![q.doc] = new]
      /\ req' = [req EXCEPT ![h] = Idle] /\ UNCHANGED <<files, points, asked, interrupted, faults>>
  BY DEF CommitClassify
<1>3. /\ q.doc \in Docs /\ q.seen \in Row /\ q.mine \in Row /\ q.seen.rows <= q.mine.rows
      /\ q.mine.confirmed = TRUE /\ docs[q.doc].confirmed \in BOOLEAN
      /\ (q.seen.confirmed => docs[q.doc].confirmed)
      /\ docs \in [Docs -> Row] /\ docs[q.doc] \in Row
      /\ q.seen.confirmed \in BOOLEAN /\ q.mine.confirmed \in BOOLEAN
  <2>1. /\ q.doc \in Docs /\ q.seen \in Row /\ q.mine \in Row /\ docs \in [Docs -> Row]
    BY <1>1 DEF Classifications, PlacesInv, TypeOK
  <2>2. /\ q.seen.confirmed \in BOOLEAN /\ q.mine.confirmed \in BOOLEAN
        /\ docs[q.doc].confirmed \in BOOLEAN /\ docs[q.doc] \in Row
    BY <2>1 DEF Row
  <2> QED
    BY <1>1, <1>2, <2>1, <2>2 DEF PlaceInv
<1>4. /\ new \in Row /\ new.chunks \in {docs[q.doc].chunks, q.mine.chunks}
      /\ new.confirmed = IF q.mine.confirmed = q.seen.confirmed THEN docs[q.doc].confirmed
                         ELSE q.mine.confirmed
  <2>1. WrittenRow(new, docs[q.doc], q.seen, q.mine)
    <3> HIDE DEF q
    <3> QED
      BY <1>3, WrittenType
  <2> HIDE DEF new, q
  <2> QED
    BY <2>1 DEF WrittenRow
<1>5. new.confirmed
  <2>1. CASE q.seen.confirmed
    BY <1>3, <1>4, <2>1
  <2>2. CASE ~q.seen.confirmed
    BY <1>3, <1>4, <2>2
  <2> QED
    BY <2>1, <2>2
<1> HIDE DEF new
<1>6. docs' \in [Docs -> Row] /\ \A d \in Docs : docs'[d] = IF d = q.doc THEN new ELSE docs[d]
  BY <1>2, <1>3, <1>4
<1>7. OnlyReq(h, Idle) /\ req' \in [Requests -> Classifications]
  BY <1>1, <1>2, IdleType DEF OnlyReq
<1>8. TypeOK'
  BY <1>2, <1>6, <1>7 DEF PlacesInv, TypeOK, Classifications
<1>9. \A g \in Requests : PlaceInv(req[g])'
  <2> SUFFICES ASSUME NEW g \in Requests
               PROVE  PlaceInv(req[g])'
    OBVIOUS
  <2>1. CASE g = h
    BY <1>7, <2>1, IdleType DEF PlaceInv, OnlyReq
  <2>2. CASE g # h
    <3>1. req'[g] = req[g] /\ PlaceInv(req[g]) /\ req[g].doc \in Docs
      BY <1>7, <2>2, ReqType DEF OnlyReq, Classifications
    <3>2. docs[req[g].doc].confirmed => docs'[req[g].doc].confirmed
      BY <1>5, <1>6, <3>1
    <3> QED
      BY <3>1, <3>2 DEF PlaceInv
  <2> QED
    BY <2>1, <2>2
<1> QED
  BY <1>2, <1>3, <1>4, <1>5, <1>6, <1>7, <1>8, <1>9 DEF PlacesInv

LEMMA UploadShape ==
    ASSUME PlacesInv, NEW d \in Docs, UploadFile(d)
    PROVE  /\ PlacesInv' /\ UNCHANGED <<points, req, asked, interrupted>>
           /\ docs[d] = NoRow /\ docs'[d] = NewRow
           /\ \A e \in Docs : e # d => docs'[e] = docs[e]
<1>1. /\ docs[d] = NoRow /\ docs' = [docs EXCEPT ![d] = NewRow] /\ files' = files \cup {d}
      /\ UNCHANGED <<points, req, asked, interrupted, faults>>
  BY DEF UploadFile
<1>2. docs' \in [Docs -> Row] /\ \A e \in Docs : docs'[e] = IF e = d THEN NewRow ELSE docs[e]
  BY <1>1, RowTypes DEF PlacesInv, TypeOK
<1>3. TypeOK'
  BY <1>1, <1>2 DEF PlacesInv, TypeOK
<1>4. \A g \in Requests : PlaceInv(req[g])'
  <2> SUFFICES ASSUME NEW g \in Requests
               PROVE  PlaceInv(req[g])'
    OBVIOUS
  <2>1. PlaceInv(req[g]) /\ req[g].doc \in Docs
    BY ReqType DEF Classifications
  <2>2. docs[req[g].doc].confirmed => docs'[req[g].doc].confirmed
    BY <1>1, <1>2, <2>1, RowTypes
  <2> QED
    BY <1>1, <2>1, <2>2 DEF PlaceInv
<1> QED
  BY <1>1, <1>2, <1>3, <1>4 DEF PlacesInv

\* What happens to the files changes nothing else.
LEMMA FilesShape ==
    ASSUME PlacesInv, (\E d \in Docs : UploadFails(d)) \/ LoseFiles
    PROVE  PlacesInv' /\ UNCHANGED <<docs, points, req, asked, interrupted>>
<1>1. /\ UNCHANGED <<docs, points, req, asked, interrupted>> /\ Fault /\ files' \subseteq Docs
  BY DEF UploadFails, LoseFiles, PlacesInv, TypeOK
<1>2. TypeOK'
  BY <1>1, FaultType DEF PlacesInv, TypeOK
<1> QED
  BY <1>1, <1>2 DEF PlacesInv, PlaceInv

LEMMA InitPlaces == Init => PlacesInv
<1> SUFFICES ASSUME Init
             PROVE  PlacesInv
  OBVIOUS
<1>1. TypeOK
  BY RowTypes, IdleType, LimitAssumption DEF Init, TypeOK, Classifications
<1> QED
  BY <1>1, IdleType DEF Init, PlacesInv

LEMMA NextPlaces == PlacesInv /\ [Next]_vars => PlacesInv'
<1> SUFFICES ASSUME PlacesInv, [Next]_vars
             PROVE  PlacesInv'
  OBVIOUS
<1>1. CASE UNCHANGED vars
  BY <1>1 DEF vars, PlacesInv, TypeOK, PlaceInv
<1> QED
  BY <1>1, UploadShape, FilesShape, LoadShape, FlushShape, ReadShape, UnavailableShape, TurnShape,
     CompleteShape, CommitShape, RollBackShape DEF Next

\* Every variable keeps its type: whatever the requests do at once, no count
\* passes its bound and no request leaves the chunks of its document.
THEOREM TypesHold == Spec => []TypeOK
<1>1. PlacesInv => TypeOK
  BY DEF PlacesInv
<1> QED
  BY <1>1, InitPlaces, NextPlaces, PTL DEF Spec

----------------------------------------------------------------------------
(***************************************************************************)
(* Nothing is indexed more often than administrators asked for it.         *)
(***************************************************************************)

\* A request that still may put the chunk into Qdrant under the tag.
Owes(r, d, k, t) ==
    r.at \in {"tagged", "ingesting"} /\ r.doc = d /\ r.mine.tag = t /\ r.next <= k

Pending(d, k, t) == {h \in Requests : Owes(req[h], d, k, t)}

OnceInv ==
    /\ PlacesInv
    /\ \A d \in Docs, k \in ChunkNos, t \in Tags :
         points[<<d, k, t>>] + Cardinality(Pending(d, k, t)) <= asked[<<d, t>>]

LEMMA CountTypes ==
    ASSUME PlacesInv, NEW d \in Docs, NEW k \in ChunkNos, NEW t \in Tags
    PROVE  points[<<d, k, t>>] \in Nat /\ asked[<<d, t>>] \in Nat
BY DEF PlacesInv, TypeOK

One(b) == IF b THEN 1 ELSE 0

\* What changes in a set when only one element may come or go.
LEMMA OneMember ==
    ASSUME NEW S, IsFiniteSet(S), NEW P \in SUBSET S, NEW Q \in SUBSET S, NEW h,
           \A g \in S \ {h} : g \in P <=> g \in Q
    PROVE  /\ Cardinality(P) \in Nat /\ Cardinality(Q) \in Nat
           /\ Cardinality(Q) + One(h \in P) = Cardinality(P) + One(h \in Q)
<1>1. IsFiniteSet(P) /\ IsFiniteSet(Q) /\ P \ {h} = Q \ {h}
  BY FS_Subset
<1>2. Cardinality(P) \in Nat /\ Cardinality(Q) \in Nat
  BY <1>1, FS_CardinalityType
<1>3. Cardinality(P \ {h}) = IF h \in P THEN Cardinality(P) - 1 ELSE Cardinality(P)
  BY <1>1, FS_RemoveElement
<1>4. Cardinality(Q \ {h}) = IF h \in Q THEN Cardinality(Q) - 1 ELSE Cardinality(Q)
  BY <1>1, FS_RemoveElement
<1> QED
  BY <1>1, <1>2, <1>3, <1>4 DEF One

\* A step of a request pays what it owed, or is asked for what it owes anew.
LEMMA OnceStep ==
    ASSUME OnceInv, PlacesInv', NEW h \in Requests, NEW r, OnlyReq(h, r),
           \A d \in Docs, k \in ChunkNos, t \in Tags :
             (points'[<<d, k, t>>] - points[<<d, k, t>>]) + One(Owes(r, d, k, t))
               <= One(Owes(req[h], d, k, t)) + (asked'[<<d, t>>] - asked[<<d, t>>])
    PROVE  OnceInv'
<1> SUFFICES ASSUME NEW d \in Docs, NEW k \in ChunkNos, NEW t \in Tags
             PROVE  (points[<<d, k, t>>] + Cardinality(Pending(d, k, t)) <= asked[<<d, t>>])'
  BY DEF OnceInv
<1>1. /\ points[<<d, k, t>>] \in Nat /\ asked[<<d, t>>] \in Nat
      /\ points'[<<d, k, t>>] \in Nat /\ asked'[<<d, t>>] \in Nat
  <2>1. PlacesInv
    BY DEF OnceInv
  <2>2. points[<<d, k, t>>] \in Nat /\ asked[<<d, t>>] \in Nat
    BY <2>1, CountTypes
  <2>3. points'[<<d, k, t>>] \in Nat /\ asked'[<<d, t>>] \in Nat
    BY DEF PlacesInv, TypeOK
  <2> QED
    BY <2>2, <2>3
<1> DEFINE P == Pending(d, k, t)
           Q == {g \in Requests : Owes(req'[g], d, k, t)}
<1>2. P \in SUBSET Requests /\ Q \in SUBSET Requests /\ Q = Pending(d, k, t)'
  BY DEF Pending, Owes
<1>3. (h \in P <=> Owes(req[h], d, k, t)) /\ (h \in Q <=> Owes(r, d, k, t))
  BY DEF Pending, OnlyReq
<1>4. \A g \in Requests \ {h} : g \in P <=> g \in Q
  BY DEF Pending, OnlyReq
<1> HIDE DEF P, Q
<1>5. /\ Cardinality(P) \in Nat /\ Cardinality(Q) \in Nat
      /\ Cardinality(Q) + One(h \in P) = Cardinality(P) + One(h \in Q)
  BY <1>2, <1>4, OneMember, FiniteAssumption
<1>6. One(h \in P) = One(Owes(req[h], d, k, t)) /\ One(h \in Q) = One(Owes(r, d, k, t))
  BY <1>3 DEF One
<1>7. points[<<d, k, t>>] + Cardinality(P) <= asked[<<d, t>>]
  BY DEF OnceInv, P
<1>8. One(h \in P) \in {0, 1} /\ One(h \in Q) \in {0, 1}
  BY DEF One
<1>9. (points'[<<d, k, t>>] - points[<<d, k, t>>]) + One(h \in Q)
        <= One(h \in P) + (asked'[<<d, t>>] - asked[<<d, t>>])
  BY <1>6
<1>10. points'[<<d, k, t>>] + Cardinality(Q) <= asked'[<<d, t>>]
  BY <1>1, <1>5, <1>7, <1>8, <1>9
<1> QED
  BY <1>2, <1>10

\* A step after which the request owes nothing it did not owe, and which
\* indexes nothing, keeps the count.
LEMMA OnceQuiet ==
    ASSUME OnceInv, PlacesInv', NEW h \in Requests, NEW r, OnlyReq(h, r),
           UNCHANGED <<points, asked>>,
           \A d \in Docs, k \in ChunkNos, t \in Tags : Owes(r, d, k, t) => Owes(req[h], d, k, t)
    PROVE  OnceInv'
<1>1. \A d \in Docs, k \in ChunkNos, t \in Tags :
        (points'[<<d, k, t>>] - points[<<d, k, t>>]) + One(Owes(r, d, k, t))
          <= One(Owes(req[h], d, k, t)) + (asked'[<<d, t>>] - asked[<<d, t>>])
  <2> SUFFICES ASSUME NEW d \in Docs, NEW k \in ChunkNos, NEW t \in Tags
               PROVE  (points'[<<d, k, t>>] - points[<<d, k, t>>]) + One(Owes(r, d, k, t))
                        <= One(Owes(req[h], d, k, t)) + (asked'[<<d, t>>] - asked[<<d, t>>])
    OBVIOUS
  <2>1. points[<<d, k, t>>] \in Nat /\ asked[<<d, t>>] \in Nat /\ points' = points /\ asked' = asked
    BY CountTypes DEF OnceInv
  <2>2. /\ One(Owes(r, d, k, t)) \in {0, 1} /\ One(Owes(req[h], d, k, t)) \in {0, 1}
        /\ One(Owes(r, d, k, t)) <= One(Owes(req[h], d, k, t))
    BY DEF One
  <2> QED
    BY <2>1, <2>2
<1> QED
  BY <1>1, OnceStep

LEMMA FlushOnce ==
    ASSUME OnceInv, NEW h \in Requests, FlushTag(h)
    PROVE  OnceInv'
<1>1. PlacesInv
  BY DEF OnceInv
<1>2. /\ PlacesInv' /\ req[h].at = "loaded" /\ UNCHANGED points
      /\ \A d \in Docs, t \in Tags :
           asked'[<<d, t>>] = IF d = req[h].doc /\ t = req[h].mine.tag THEN asked[<<d, t>>] + 1
                              ELSE asked[<<d, t>>]
      /\ \E at \in {"tagged", "done"} : OnlyReq(h, [req[h] EXCEPT !.at = at])
  BY <1>1, FlushShape
<1>3. PICK at \in {"tagged", "done"} : OnlyReq(h, [req[h] EXCEPT !.at = at])
  BY <1>2
<1> DEFINE r == [req[h] EXCEPT !.at = at]
<1>4. r.doc = req[h].doc /\ r.mine = req[h].mine
  BY <1>1, ReqType DEF Classifications
<1>5. OnlyReq(h, r)
  BY <1>3
<1> HIDE DEF r
<1>6. \A d \in Docs, k \in ChunkNos, t \in Tags :
        (points'[<<d, k, t>>] - points[<<d, k, t>>]) + One(Owes(r, d, k, t))
          <= One(Owes(req[h], d, k, t)) + (asked'[<<d, t>>] - asked[<<d, t>>])
  <2> SUFFICES ASSUME NEW d \in Docs, NEW k \in ChunkNos, NEW t \in Tags
               PROVE  (points'[<<d, k, t>>] - points[<<d, k, t>>]) + One(Owes(r, d, k, t))
                        <= One(Owes(req[h], d, k, t)) + (asked'[<<d, t>>] - asked[<<d, t>>])
    OBVIOUS
  <2>1. points[<<d, k, t>>] \in Nat /\ asked[<<d, t>>] \in Nat
    BY <1>1, CountTypes
  <2>2. points' = points /\ points'[<<d, k, t>>] - points[<<d, k, t>>] = 0
    BY <1>2, <2>1
  <2>3. One(Owes(req[h], d, k, t)) = 0
    BY <1>2 DEF Owes, One
  <2>4. CASE d = req[h].doc /\ t = req[h].mine.tag
    <3>1. asked'[<<d, t>>] = asked[<<d, t>>] + 1
      BY <1>2, <2>4
    <3>2. One(Owes(r, d, k, t)) \in {0, 1}
      BY DEF One
    <3> QED
      BY <2>1, <2>2, <2>3, <3>1, <3>2
  <2>5. CASE ~(d = req[h].doc /\ t = req[h].mine.tag)
    <3>1. asked'[<<d, t>>] = asked[<<d, t>>]
      BY <1>2, <2>5
    <3>2. One(Owes(r, d, k, t)) = 0
      BY <1>4, <2>5 DEF Owes, One
    <3> QED
      BY <2>1, <2>2, <2>3, <3>1, <3>2
  <2> QED
    BY <2>4, <2>5
<1> QED
  BY <1>2, <1>5, <1>6, OnceStep

LEMMA TurnOnce ==
    ASSUME OnceInv, NEW h \in Requests, IngestChunk(h) \/ SkipChunk(h)
    PROVE  OnceInv'
<1>1. PlacesInv
  BY DEF OnceInv
<1>2. PICK r, n :
        /\ OnlyReq(h, r) /\ SameWork(r, req[h]) /\ r.at = "ingesting"
        /\ n \in {0, 1} /\ r.next = req[h].next + 1
        /\ r.ingested = req[h].ingested + n
        /\ r.todo = req[h].todo /\ r.mine = req[h].mine
        /\ \A d \in Docs, k \in ChunkNos, t \in Tags :
             points'[<<d, k, t>>] =
               IF d = r.doc /\ k = req[h].next /\ t = r.mine.tag
               THEN points[<<d, k, t>>] + n ELSE points[<<d, k, t>>]
  BY <1>1, TurnShape
<1>3. PlacesInv' /\ req[h].at = "ingesting" /\ req[h].next \in ChunkNos /\ UNCHANGED asked
  BY <1>1, TurnShape
<1>4. r.doc = req[h].doc
  BY <1>2 DEF SameWork
<1>5. \A d \in Docs, k \in ChunkNos, t \in Tags :
        (points'[<<d, k, t>>] - points[<<d, k, t>>]) + One(Owes(r, d, k, t))
          <= One(Owes(req[h], d, k, t)) + (asked'[<<d, t>>] - asked[<<d, t>>])
  <2> SUFFICES ASSUME NEW d \in Docs, NEW k \in ChunkNos, NEW t \in Tags
               PROVE  (points'[<<d, k, t>>] - points[<<d, k, t>>]) + One(Owes(r, d, k, t))
                        <= One(Owes(req[h], d, k, t)) + (asked'[<<d, t>>] - asked[<<d, t>>])
    OBVIOUS
  <2>1. /\ points[<<d, k, t>>] \in Nat /\ asked[<<d, t>>] \in Nat /\ asked' = asked
        /\ k \in Int /\ req[h].next \in Int
    BY <1>1, <1>3, CountTypes DEF ChunkNos
  <2>2. asked'[<<d, t>>] - asked[<<d, t>>] = 0
    BY <2>1
  <2>3. CASE d = r.doc /\ k = req[h].next /\ t = r.mine.tag
    <3>1. points'[<<d, k, t>>] = points[<<d, k, t>>] + n
      BY <1>2, <2>3
    <3>2. One(Owes(r, d, k, t)) = 0 /\ One(Owes(req[h], d, k, t)) = 1
      BY <1>2, <1>3, <1>4, <2>1, <2>3 DEF Owes, One
    <3>3. n \in {0, 1}
      BY <1>2
    <3> QED
      BY <2>1, <2>2, <3>1, <3>2, <3>3
  <2>4. CASE ~(d = r.doc /\ k = req[h].next /\ t = r.mine.tag)
    <3>1. points'[<<d, k, t>>] = points[<<d, k, t>>]
      BY <1>2, <2>4
    <3>2. Owes(r, d, k, t) => Owes(req[h], d, k, t)
      BY <1>2, <1>3, <1>4, <2>1 DEF Owes
    <3>3. /\ One(Owes(r, d, k, t)) \in {0, 1} /\ One(Owes(req[h], d, k, t)) \in {0, 1}
          /\ One(Owes(r, d, k, t)) <= One(Owes(req[h], d, k, t))
      BY <3>2 DEF One
    <3> QED
      BY <2>1, <2>2, <3>1, <3>3
  <2> QED
    BY <2>3, <2>4
<1> QED
  BY <1>2, <1>3, <1>5, OnceStep

LEMMA LoadOnce ==
    ASSUME OnceInv, NEW h \in Requests, NEW d \in Docs, NEW tag \in Tags,
           NEW annotates \in BOOLEAN, LoadDocument(h, d, tag, annotates)
    PROVE  OnceInv'
<1> DEFINE r == Loaded(d, tag, annotates)
<1>1. PlacesInv /\ UNCHANGED <<points, asked>>
  BY DEF OnceInv, LoadDocument
<1>2. PlacesInv' /\ OnlyReq(h, r) /\ r.at = "loaded"
  BY <1>1, LoadShape
<1> HIDE DEF r
<1>3. PICK q : q = r
  OBVIOUS
<1>4. OnlyReq(h, q) /\ \A e \in Docs, k \in ChunkNos, t \in Tags : ~Owes(q, e, k, t)
  BY <1>2, <1>3 DEF Owes, OnlyReq
<1> QED
  BY <1>1, <1>2, <1>4, OnceQuiet

LEMMA NextOnce == OnceInv /\ [Next]_vars => OnceInv'
<1> SUFFICES ASSUME OnceInv, [Next]_vars
             PROVE  OnceInv'
  OBVIOUS
<1>1. PlacesInv /\ PlacesInv'
  BY NextPlaces DEF OnceInv
<1>2. CASE UNCHANGED <<points, req, asked>>
  BY <1>1, <1>2 DEF OnceInv, Pending
<1>3. ASSUME NEW d \in Docs, UploadFile(d) \/ UploadFails(d)
      PROVE  OnceInv'
  BY <1>2, <1>3 DEF UploadFile, UploadFails
<1>4. CASE LoseFiles
  BY <1>2, <1>4 DEF LoseFiles
<1>5. ASSUME NEW h \in Requests, NEW d \in Docs, NEW t \in Tags, NEW a \in BOOLEAN,
             LoadDocument(h, d, t, a)
      PROVE  OnceInv'
  BY <1>5, LoadOnce
<1>6. ASSUME NEW h \in Requests, NEW a \in [DOMAIN Pages(Content[req[h].doc]) -> Answers],
             ReadDocument(h, a)
      PROVE  OnceInv'
  <2>1. /\ req[h].at = "tagged" /\ UNCHANGED <<points, asked>>
        /\ \E r : OnlyReq(h, r) /\ SameWork(r, req[h]) /\ r.next = 1
    BY <1>1, <1>6, ReadShape
  <2>2. PICK r : OnlyReq(h, r) /\ SameWork(r, req[h]) /\ r.next = 1
    BY <2>1
  <2>3. req[h].next = 1
    BY <1>1, <2>1, ReqType DEF PlaceInv
  <2>4. \A d \in Docs, k \in ChunkNos, t \in Tags : Owes(r, d, k, t) => Owes(req[h], d, k, t)
    BY <2>1, <2>2, <2>3 DEF Owes, SameWork
  <2> QED
    BY <1>1, <2>1, <2>2, <2>4, OnceQuiet
<1>7. ASSUME NEW h \in Requests, QdrantUnavailable(h)
      PROVE  OnceInv'
  <2>1. /\ req[h].at = "ingesting" /\ UNCHANGED <<points, asked>>
        /\ \E r : OnlyReq(h, r) /\ SameWork(r, req[h]) /\ r.next = 1 /\ req[h].next = 1
    BY <1>1, <1>7, UnavailableShape
  <2>2. PICK r : OnlyReq(h, r) /\ SameWork(r, req[h]) /\ r.next = 1 /\ req[h].next = 1
    BY <2>1
  <2>3. \A d \in Docs, k \in ChunkNos, t \in Tags : Owes(r, d, k, t) => Owes(req[h], d, k, t)
    BY <2>1, <2>2 DEF Owes, SameWork
  <2> QED
    BY <1>1, <2>1, <2>2, <2>3, OnceQuiet
<1>8. ASSUME NEW h \in Requests, CompleteDocument(h)
      PROVE  OnceInv'
  <2>1. UNCHANGED <<points, asked>> /\ \E r : OnlyReq(h, r) /\ r.at = "done"
    BY <1>1, <1>8, CompleteShape
  <2>2. PICK r : OnlyReq(h, r) /\ r.at = "done"
    BY <2>1
  <2>3. \A d \in Docs, k \in ChunkNos, t \in Tags : ~Owes(r, d, k, t)
    BY <2>2 DEF Owes
  <2> QED
    BY <1>1, <2>1, <2>2, <2>3, OnceQuiet
<1>9. ASSUME NEW h \in Requests, CommitClassify(h) \/ RollBack(h)
      PROVE  OnceInv'
  <2>1. UNCHANGED <<points, asked>> /\ OnlyReq(h, Idle)
    BY <1>1, <1>9, CommitShape, RollBackShape
  <2>2. \A d \in Docs, k \in ChunkNos, t \in Tags : ~Owes(Idle, d, k, t)
    BY IdleType DEF Owes
  <2> QED
    BY <1>1, <2>1, <2>2, OnceQuiet
<1> QED
  BY <1>2, <1>3, <1>4, <1>5, <1>6, <1>7, <1>8, <1>9, FlushOnce, TurnOnce DEF Next, vars

LEMMA InitOnce == Init => OnceInv
<1> SUFFICES ASSUME Init
             PROVE  OnceInv
  OBVIOUS
<1>1. PlacesInv
  BY InitPlaces
<1>2. ASSUME NEW d \in Docs, NEW k \in ChunkNos, NEW t \in Tags
      PROVE  points[<<d, k, t>>] + Cardinality(Pending(d, k, t)) <= asked[<<d, t>>]
  <2>1. points[<<d, k, t>>] = 0 /\ asked[<<d, t>>] = 0
    BY DEF Init
  <2>2. Pending(d, k, t) = {}
    BY IdleType DEF Pending, Owes, Init
  <2> QED
    BY <2>1, <2>2, FS_EmptySet
<1> QED
  BY <1>1, <1>2 DEF OnceInv

LEMMA OnceImplies == OnceInv => PlacesInv /\ IndexedOncePerRequest
<1> SUFFICES ASSUME OnceInv, NEW d \in Docs, NEW k \in ChunkNos, NEW t \in Tags
             PROVE  points[<<d, k, t>>] <= asked[<<d, t>>]
  BY DEF OnceInv, IndexedOncePerRequest
<1>1. points[<<d, k, t>>] \in Nat /\ asked[<<d, t>>] \in Nat
  BY CountTypes DEF OnceInv
<1>2. Cardinality(Pending(d, k, t)) \in Nat
  <2>1. Pending(d, k, t) \in SUBSET Requests
    BY DEF Pending
  <2> QED
    BY <2>1, FiniteAssumption, FS_Subset, FS_CardinalityType
<1> QED
  BY <1>1, <1>2 DEF OnceInv

\* Whatever requests run at once, fail half way or are rolled back, a chunk is
\* in Qdrant under a tag at most once for every classification that assigned
\* this tag to its document (api.py:180-190, rag.py:222-249).
THEOREM IndexedOnlyAsAsked == Spec => []IndexedOncePerRequest
BY InitOnce, NextOnce, OnceImplies, PTL DEF Spec

----------------------------------------------------------------------------
(***************************************************************************)
(* Nothing is indexed before its review.                                   *)
(***************************************************************************)

Accounted(d) ==
    \/ \A k \in ChunkNos, t \in Tags : points[<<d, k, t>>] = 0
    \/ d \in interrupted
    \/ \E h \in Requests : Working(h) /\ req[h].doc = d

ReviewInv == PlacesInv /\ UnreviewedNotIndexed

\* A request that stays at work on its document accounts for the points of
\* that document; those of the others do not change.
LEMMA StillAtWork ==
    ASSUME ReviewInv, PlacesInv', NEW h \in Requests, NEW r, OnlyReq(h, r),
           r.at # "idle", Working(h) => r.doc = req[h].doc, UNCHANGED <<docs, interrupted>>,
           \A d \in Docs, k \in ChunkNos, t \in Tags :
             d # r.doc => points'[<<d, k, t>>] = points[<<d, k, t>>]
    PROVE  ReviewInv'
<1> SUFFICES ASSUME NEW d \in Docs, ~docs'[d].confirmed
             PROVE  \/ \A k \in ChunkNos, t \in Tags : points'[<<d, k, t>>] = 0
                    \/ d \in interrupted'
                    \/ \E g \in Requests : Working(g)' /\ req'[g].doc = d
  BY DEF ReviewInv, UnreviewedNotIndexed
<1>1. req'[h] = r /\ \A g \in Requests : g # h => req'[g] = req[g]
  BY DEF OnlyReq
<1>2. Accounted(d)
  BY DEF ReviewInv, UnreviewedNotIndexed, Accounted
<1>3. CASE d = r.doc
  BY <1>1, <1>3 DEF Working
<1>4. CASE d # r.doc
  <2>1. CASE \A k \in ChunkNos, t \in Tags : points[<<d, k, t>>] = 0
    BY <1>4, <2>1
  <2>2. CASE d \in interrupted
    BY <2>2
  <2>3. ASSUME NEW g \in Requests, Working(g), req[g].doc = d
        PROVE  Working(g)' /\ req'[g].doc = d
    BY <1>1, <1>4, <2>3 DEF Working
  <2> QED
    BY <1>2, <2>1, <2>2, <2>3 DEF Accounted
<1> QED
  BY <1>3, <1>4

\* The points of a document are accounted for when a request leaves it, by its
\* review or by the mark that the request was interrupted.
LEMMA Leaves ==
    ASSUME ReviewInv, PlacesInv', NEW h \in Requests, OnlyReq(h, Idle), UNCHANGED points,
           interrupted \subseteq interrupted',
           req[h].doc \in interrupted' \/ docs'[req[h].doc].confirmed,
           \A d \in Docs : d # req[h].doc => docs'[d] = docs[d],
           docs'[req[h].doc] = docs[req[h].doc] \/ docs'[req[h].doc].confirmed
    PROVE  ReviewInv'
<1> SUFFICES ASSUME NEW d \in Docs, ~docs'[d].confirmed
             PROVE  \/ \A k \in ChunkNos, t \in Tags : points'[<<d, k, t>>] = 0
                    \/ d \in interrupted'
                    \/ \E g \in Requests : Working(g)' /\ req'[g].doc = d
  BY DEF ReviewInv, UnreviewedNotIndexed
<1>1. \A g \in Requests : g # h => req'[g] = req[g]
  BY DEF OnlyReq
<1>2. CASE d = req[h].doc
  BY <1>2
<1>3. CASE d # req[h].doc
  <2>1. Accounted(d)
    BY <1>3 DEF ReviewInv, UnreviewedNotIndexed, Accounted
  <2>2. CASE \A k \in ChunkNos, t \in Tags : points[<<d, k, t>>] = 0
    BY <2>2
  <2>3. CASE d \in interrupted
    BY <2>3
  <2>4. ASSUME NEW g \in Requests, Working(g), req[g].doc = d
        PROVE  Working(g)' /\ req'[g].doc = d
    BY <1>1, <1>3, <2>4 DEF Working
  <2> QED
    BY <2>1, <2>2, <2>3, <2>4 DEF Accounted
<1> QED
  BY <1>2, <1>3

LEMMA NextReview == ReviewInv /\ [Next]_vars => ReviewInv'
<1> SUFFICES ASSUME ReviewInv, [Next]_vars
             PROVE  ReviewInv'
  OBVIOUS
<1>1. PlacesInv /\ PlacesInv'
  BY NextPlaces DEF ReviewInv
<1>2. CASE UNCHANGED <<docs, points, req, interrupted>>
  BY <1>1, <1>2 DEF ReviewInv, UnreviewedNotIndexed, Working
<1>3. ASSUME NEW d \in Docs, UploadFails(d)
      PROVE  ReviewInv'
  BY <1>2, <1>3 DEF UploadFails
<1>4. ASSUME NEW d \in Docs, UploadFile(d)
      PROVE  ReviewInv'
  <2>1. /\ UNCHANGED <<points, req, interrupted>>
        /\ \A e \in Docs : ~docs'[e].confirmed => ~docs[e].confirmed
    BY <1>1, <1>4, UploadShape, RowTypes
  <2> QED
    BY <1>1, <2>1 DEF ReviewInv, UnreviewedNotIndexed, Working
<1>5. CASE LoseFiles
  BY <1>2, <1>5 DEF LoseFiles
<1>6. ASSUME NEW h \in Requests, NEW d \in Docs, NEW t \in Tags, NEW a \in BOOLEAN,
             LoadDocument(h, d, t, a)
      PROVE  ReviewInv'
  <2>1. PICK r : r = Loaded(d, t, a)
    OBVIOUS
  <2>2. OnlyReq(h, r) /\ ~Working(h) /\ r.at = "loaded"
    BY <1>1, <1>6, <2>1, LoadShape
  <2>3. UNCHANGED <<docs, points, interrupted>>
    BY <1>6 DEF LoadDocument
  <2> QED
    BY <1>1, <2>2, <2>3, StillAtWork
<1>7. ASSUME NEW h \in Requests, FlushTag(h)
      PROVE  ReviewInv'
  <2>1. PICK at \in {"tagged", "done"} : OnlyReq(h, [req[h] EXCEPT !.at = at])
    BY <1>1, <1>7, FlushShape
  <2>2. PICK r : r = [req[h] EXCEPT !.at = at]
    OBVIOUS
  <2>3. r.at # "idle" /\ r.doc = req[h].doc /\ OnlyReq(h, r)
    BY <1>1, <2>1, <2>2, ReqType DEF Classifications
  <2>4. UNCHANGED <<docs, points, interrupted>>
    BY <1>7 DEF FlushTag
  <2> QED
    BY <1>1, <2>3, <2>4, StillAtWork
<1>8. ASSUME NEW h \in Requests, NEW a \in [DOMAIN Pages(Content[req[h].doc]) -> Answers],
             ReadDocument(h, a)
      PROVE  ReviewInv'
  <2>1. UNCHANGED <<docs, points, interrupted>>
    BY <1>1, <1>8, ReadShape
  <2>2. PICK r : OnlyReq(h, r) /\ SameWork(r, req[h]) /\ r.at \in {"ingesting", "done"}
    BY <1>1, <1>8, ReadShape
  <2>3. r.at # "idle" /\ r.doc = req[h].doc
    BY <2>2 DEF SameWork
  <2> QED
    BY <1>1, <2>1, <2>2, <2>3, StillAtWork
<1>9. ASSUME NEW h \in Requests, QdrantUnavailable(h)
      PROVE  ReviewInv'
  <2>1. UNCHANGED <<docs, points, interrupted>>
    BY <1>1, <1>9, UnavailableShape
  <2>2. PICK r : OnlyReq(h, r) /\ SameWork(r, req[h]) /\ r.at = "ingesting"
    BY <1>1, <1>9, UnavailableShape
  <2>3. r.at # "idle" /\ r.doc = req[h].doc
    BY <2>2 DEF SameWork
  <2> QED
    BY <1>1, <2>1, <2>2, <2>3, StillAtWork
<1>10. ASSUME NEW h \in Requests, IngestChunk(h) \/ SkipChunk(h)
       PROVE  ReviewInv'
  <2>1. UNCHANGED <<docs, interrupted>>
    BY <1>1, <1>10, TurnShape
  <2>2. PICK r, n :
          /\ OnlyReq(h, r) /\ SameWork(r, req[h]) /\ r.at = "ingesting"
          /\ \A d \in Docs, k \in ChunkNos, t \in Tags :
               points'[<<d, k, t>>] = IF d = r.doc /\ k = req[h].next /\ t = r.mine.tag
                                      THEN points[<<d, k, t>>] + n ELSE points[<<d, k, t>>]
    BY <1>1, <1>10, TurnShape
  <2>3. r.at # "idle" /\ r.doc = req[h].doc
    BY <2>2 DEF SameWork
  <2>4. \A d \in Docs, k \in ChunkNos, t \in Tags :
          d # r.doc => points'[<<d, k, t>>] = points[<<d, k, t>>]
    BY <2>2
  <2> QED
    BY <1>1, <2>1, <2>2, <2>3, <2>4, StillAtWork
<1>11. ASSUME NEW h \in Requests, CompleteDocument(h)
       PROVE  ReviewInv'
  <2>1. UNCHANGED <<docs, points, interrupted>>
    BY <1>1, <1>11, CompleteShape
  <2>2. PICK r : OnlyReq(h, r) /\ SameWork(r, req[h]) /\ r.at = "done"
    BY <1>1, <1>11, CompleteShape
  <2>3. r.at # "idle" /\ r.doc = req[h].doc
    BY <2>2 DEF SameWork
  <2> QED
    BY <1>1, <2>1, <2>2, <2>3, StillAtWork
<1>12. ASSUME NEW h \in Requests, CommitClassify(h)
       PROVE  ReviewInv'
  BY <1>1, <1>12, CommitShape, Leaves
<1>13. ASSUME NEW h \in Requests, RollBack(h)
       PROVE  ReviewInv'
  BY <1>1, <1>13, RollBackShape, Leaves
<1> QED
  BY <1>2, <1>3, <1>4, <1>5, <1>6, <1>7, <1>8, <1>9, <1>10, <1>11, <1>12, <1>13 DEF Next, vars

\* No path leads from an upload to the index around the review: a document that
\* is not confirmed has points only of a classification that is open or was
\* rolled back (api.py:48-49, 76-77, 186).
THEOREM ReviewedBeforeIndexed == Spec => []UnreviewedNotIndexed
<1>1. Init => ReviewInv
  BY InitPlaces DEF ReviewInv, UnreviewedNotIndexed, Init
<1>2. ReviewInv => UnreviewedNotIndexed
  BY DEF ReviewInv
<1> QED
  BY <1>1, <1>2, NextReview, PTL DEF Spec

----------------------------------------------------------------------------
(***************************************************************************)
(* A full count means that all of a text can be found.                     *)
(***************************************************************************)

\* The first word of a chunk and the last: division by the step.
LEMMA Division ==
    ASSUME NEW s \in Nat \ {0}, NEW n \in Nat
    PROVE  /\ n \div s \in Nat
           /\ s * (n \div s) <= n /\ n < s * (n \div s) + s
OBVIOUS

\* Every word of a text is in one of its chunks, whatever the size of a chunk
\* and the overlap.
LEMMA ChunksCover ==
    ASSUME NEW n \in Nat
    PROVE  /\ Len(ChunkText(n)) \in Nat /\ DOMAIN ChunkText(n) = 1 .. Len(ChunkText(n))
           /\ \A w \in 1 .. n : \E k \in DOMAIN ChunkText(n) :
                w \in ChunkText(n)[k].first .. ChunkText(n)[k].last
<1>1. Step \in Nat \ {0} /\ ChunkSize \in Nat /\ Step <= ChunkSize /\ n + Step - 1 \in Nat
  BY ChunkAssumption DEF Step
<1> DEFINE count == (n + Step - 1) \div Step
<1>2. count \in Nat /\ n + Step - 1 < Step * count + Step
  <2>1. PICK s \in Nat \ {0}, m \in Nat : s = Step /\ m = n + Step - 1
    BY <1>1
  <2>2. m \div s \in Nat /\ m < s * (m \div s) + s
    BY <2>1, Division
  <2> QED
    BY <2>1, <2>2
<1>3. ChunkText(n) = [k \in 1 .. count |->
                        [first |-> (k - 1) * Step + 1,
                         last |-> LeastOf(n, (k - 1) * Step + ChunkSize)]]
  BY DEF ChunkText
<1> HIDE DEF count
<1>4. DOMAIN ChunkText(n) = 1 .. count /\ Len(ChunkText(n)) = count
  BY <1>2, <1>3
<1>5. ASSUME NEW w \in 1 .. n
      PROVE  \E k \in 1 .. count : w \in ChunkText(n)[k].first .. ChunkText(n)[k].last
  <2>1. PICK s \in Nat \ {0}, m \in Nat : s = Step /\ m = w - 1
    BY <1>1
  <2>2. PICK a \in Nat : s * a <= m /\ m < s * a + s
    BY <2>1, Division
  <2>3. s * a < s * count /\ n \in Nat /\ w <= n
    BY <1>1, <1>2, <2>1, <2>2
  <2>4. a < count
    <3> SUFFICES ASSUME count <= a
                 PROVE  FALSE
      BY <1>2
    <3>1. s * count <= s * a
      BY <1>2
    <3> QED
      BY <1>2, <2>3, <3>1
  <2>5. a + 1 \in 1 .. count /\ (a + 1) - 1 = a /\ a * s = s * a
    BY <1>2, <2>4
  <2>6. /\ ChunkText(n)[a + 1].first = a * s + 1
        /\ ChunkText(n)[a + 1].last = LeastOf(n, a * s + ChunkSize)
    BY <1>3, <2>1, <2>5
  <2>7. a * s + 1 <= w /\ w <= n /\ w <= a * s + ChunkSize /\ a * s \in Nat
    BY <1>1, <2>1, <2>2, <2>3, <2>5
  <2>8. w \in a * s + 1 .. LeastOf(n, a * s + ChunkSize)
    BY <1>1, <2>7 DEF LeastOf
  <2> QED
    BY <2>5, <2>6, <2>8
<1> QED
  BY <1>2, <1>4, <1>5

IsText(d) == Content[d].kind = "text"
ChunksOf(d) == Len(ChunkText(Content[d].words))
Found(d, k) == \E t \in Tags : points[<<d, k, t>>] > 0
Full(d) == \A k \in 1 .. ChunksOf(d) : Found(d, k)

\* What a request that ingests a text has found out by now.
CountInv(r) ==
    IsText(r.doc) =>
      /\ r.mine.chunks = ChunksOf(r.doc) => Full(r.doc)
      /\ r.at = "ingesting" =>
           /\ r.todo \in {0, ChunksOf(r.doc)}
           /\ r.ingested = r.next - 1 =>
                \A k \in 1 .. r.next - 1 : points[<<r.doc, k, r.mine.tag>>] > 0

FullInv ==
    /\ PlacesInv
    /\ \A d \in Docs : IsText(d) /\ docs[d].chunks = ChunksOf(d) => Full(d)
    /\ \A h \in Requests : CountInv(req[h])

LEMMA ChunksOfType == \A d \in Docs : ChunksOf(d) \in Nat
BY ContentAssumption, ChunksCover DEF ChunksOf

Grow == \A d \in Docs, k \in ChunkNos, t \in Tags : points[<<d, k, t>>] <= points'[<<d, k, t>>]

\* Points are only ever added.
LEMMA NextGrow ==
    ASSUME PlacesInv, [Next]_vars
    PROVE  Grow
<1> SUFFICES ASSUME NEW d \in Docs, NEW k \in ChunkNos, NEW t \in Tags
             PROVE  points[<<d, k, t>>] <= points'[<<d, k, t>>]
  BY DEF Grow
<1>1. points[<<d, k, t>>] \in Nat
  BY CountTypes
<1>2. CASE UNCHANGED points
  BY <1>1, <1>2
<1>3. ASSUME NEW h \in Requests, IngestChunk(h) \/ SkipChunk(h)
      PROVE  points[<<d, k, t>>] <= points'[<<d, k, t>>]
  <2>1. PICK r, n : /\ n \in {0, 1}
                    /\ \A e \in Docs, i \in ChunkNos, u \in Tags :
                         points'[<<e, i, u>>] = IF e = r.doc /\ i = req[h].next /\ u = r.mine.tag
                                                THEN points[<<e, i, u>>] + n
                                                ELSE points[<<e, i, u>>]
    BY <1>3, TurnShape
  <2>2. points'[<<d, k, t>>] \in {points[<<d, k, t>>], points[<<d, k, t>>] + n}
    BY <2>1
  <2> QED
    BY <1>1, <2>1, <2>2
<1>4. ASSUME ~ UNCHANGED points, Next
      PROVE  \E h \in Requests : IngestChunk(h) \/ SkipChunk(h)
  <2>1. \A x \in Docs : UploadFile(x) \/ UploadFails(x) => UNCHANGED points
    BY DEF UploadFile, UploadFails
  <2>2. LoseFiles => UNCHANGED points
    BY DEF LoseFiles
  <2>3. ASSUME NEW h \in Requests, NEW x \in Docs, NEW u \in Tags, NEW a \in BOOLEAN,
               LoadDocument(h, x, u, a)
        PROVE  UNCHANGED points
    BY <2>3 DEF LoadDocument
  <2>4. ASSUME NEW h \in Requests, NEW a, ReadDocument(h, a)
        PROVE  UNCHANGED points
    BY <2>4 DEF ReadDocument
  <2>5. ASSUME NEW h \in Requests,
               \/ FlushTag(h) \/ QdrantUnavailable(h) \/ CompleteDocument(h)
               \/ CommitClassify(h) \/ RollBack(h)
        PROVE  UNCHANGED points
    BY <2>5 DEF FlushTag, QdrantUnavailable, CompleteDocument, CommitClassify, RollBack
  <2> QED
    BY <1>4, <2>1, <2>2, <2>3, <2>4, <2>5 DEF Next
<1>5. CASE Next /\ ~ UNCHANGED points
  BY <1>3, <1>4, <1>5
<1>6. CASE UNCHANGED vars
  BY <1>2, <1>6 DEF vars
<1> QED
  BY <1>2, <1>5, <1>6

\* What was found stays found, as long as it is in the index at all: a chunk
\* with a number above the bound is in no index.
LEMMA FoundChunk ==
    ASSUME PlacesInv, PlacesInv', Grow, NEW d \in Docs, NEW k \in ChunkNos, NEW t \in Tags,
           points[<<d, k, t>>] > 0
    PROVE  points'[<<d, k, t>>] > 0
<1>1. points[<<d, k, t>>] \in Nat /\ points'[<<d, k, t>>] \in Nat
  BY DEF PlacesInv, TypeOK
<1>2. points[<<d, k, t>>] <= points'[<<d, k, t>>]
  BY DEF Grow
<1> QED
  BY <1>1, <1>2

LEMMA FullStays ==
    ASSUME PlacesInv, PlacesInv', Grow, NEW d \in Docs, ChunksOf(d) <= MaxChunks, Full(d)
    PROVE  Full(d)'
<1> SUFFICES ASSUME NEW k \in 1 .. ChunksOf(d)
             PROVE  \E t \in Tags : points'[<<d, k, t>>] > 0
  BY DEF Full, Found
<1>1. k \in ChunkNos
  BY ChunksOfType, LimitAssumption DEF ChunkNos
<1>2. PICK t \in Tags : points[<<d, k, t>>] > 0
  BY DEF Full, Found
<1> QED
  BY <1>1, <1>2, FoundChunk

\* A count in range is that of a text whose chunks are in range.
LEMMA CountKept ==
    ASSUME FullInv, PlacesInv', Grow, NEW d \in Docs, NEW row \in Row,
           IsText(d), row.chunks = ChunksOf(d), Full(d)
    PROVE  Full(d)'
<1>1. ChunksOf(d) <= MaxChunks
  BY LimitAssumption DEF Row
<1> QED
  BY <1>1, FullStays DEF FullInv

\* The requests a step does not touch keep what they have found out.
LEMMA OthersCount ==
    ASSUME FullInv, PlacesInv', Grow, NEW g \in Requests, NEW r, r = req[g]
    PROVE  CountInv(r)'
<1>1. PlacesInv /\ CountInv(r)
  BY DEF FullInv
<1>2. r \in Classifications /\ PlaceInv(r) /\ r.doc \in Docs /\ r.mine \in Row
  BY <1>1, ReqType DEF Classifications
<1> SUFFICES ASSUME IsText(r.doc)
             PROVE  /\ r.mine.chunks = ChunksOf(r.doc) => Full(r.doc)'
                    /\ r.at = "ingesting" =>
                         /\ r.todo \in {0, ChunksOf(r.doc)}
                         /\ r.ingested = r.next - 1 =>
                              \A k \in 1 .. r.next - 1 : points'[<<r.doc, k, r.mine.tag>>] > 0
  BY DEF CountInv, IsText, ChunksOf
<1>3. r.mine.chunks = ChunksOf(r.doc) => Full(r.doc)'
  <2> SUFFICES ASSUME r.mine.chunks = ChunksOf(r.doc)
               PROVE  Full(r.doc)'
    OBVIOUS
  <2>1. Full(r.doc)
    BY <1>1 DEF CountInv
  <2>2. PICK d \in Docs, row \in Row : d = r.doc /\ row = r.mine
    BY <1>2
  <2>3. Full(d)'
    BY <2>1, <2>2, CountKept
  <2> QED
    BY <2>2, <2>3 DEF Full, Found, ChunksOf
<1>4. ASSUME r.at = "ingesting", r.ingested = r.next - 1, NEW k \in 1 .. r.next - 1
      PROVE  points'[<<r.doc, k, r.mine.tag>>] > 0
  <2>1. points[<<r.doc, k, r.mine.tag>>] > 0
    BY <1>1, <1>4 DEF CountInv
  <2>2. r.mine.tag \in Tags
    BY <1>2, <1>4 DEF PlaceInv
  <2>3. k \in ChunkNos
    <3>1. r.next \in 1 .. MaxChunks + 1
      BY <1>2 DEF Classifications
    <3> QED
      BY <3>1, LimitAssumption DEF ChunkNos
  <2>4. PICK d \in Docs, t \in Tags : d = r.doc /\ t = r.mine.tag
    BY <1>2, <2>2
  <2>5. points'[<<d, k, t>>] > 0
    BY <1>1, <2>1, <2>3, <2>4, FoundChunk
  <2> QED
    BY <2>4, <2>5
<1> QED
  BY <1>1, <1>3, <1>4 DEF CountInv

\* A step of a request that leaves the rows alone.
LEMMA CountStep ==
    ASSUME FullInv, PlacesInv', Grow, UNCHANGED docs, NEW h \in Requests, NEW r,
           OnlyReq(h, r), CountInv(r)'
    PROVE  FullInv'
<1>1. ASSUME NEW d \in Docs, IsText(d), docs[d].chunks = ChunksOf(d)
      PROVE  Full(d)'
  <2>1. PICK row \in Row : row = docs[d]
    BY DEF FullInv, PlacesInv, TypeOK
  <2>2. Full(d)
    BY <1>1 DEF FullInv
  <2> QED
    BY <1>1, <2>1, <2>2, CountKept
<1>2. ASSUME NEW g \in Requests
      PROVE  CountInv(req[g])'
  <2>1. PICK q : q = req'[g] /\ (g = h => q = r) /\ (g # h => q = req[g])
    BY DEF OnlyReq
  <2>2. CountInv(q)'
    BY <2>1, OthersCount
  <2> QED
    BY <2>1, <2>2 DEF CountInv, IsText, ChunksOf, Full, Found
<1> QED
  BY <1>1, <1>2 DEF FullInv, IsText, ChunksOf

LEMMA LoadCount ==
    ASSUME FullInv, PlacesInv', Grow, NEW h \in Requests, NEW d \in Docs, NEW tag \in Tags,
           NEW annotates \in BOOLEAN, LoadDocument(h, d, tag, annotates)
    PROVE  FullInv'
<1>1. PlacesInv /\ UNCHANGED docs
  BY DEF FullInv, LoadDocument
<1>2. PICK r : r = Loaded(d, tag, annotates)
  OBVIOUS
<1>3. /\ OnlyReq(h, r) /\ r.at = "loaded" /\ r.doc = d
      /\ r.mine.chunks = docs[d].chunks
  BY <1>1, <1>2, LoadShape
<1>4. ASSUME IsText(d), docs[d].chunks = ChunksOf(d)
      PROVE  Full(d)'
  <2>1. PICK row \in Row : row = docs[d]
    BY <1>1 DEF PlacesInv, TypeOK
  <2>2. Full(d)
    BY <1>4 DEF FullInv
  <2> QED
    BY <1>4, <2>1, <2>2, CountKept
<1>5. CountInv(r)'
  BY <1>3, <1>4 DEF CountInv, IsText, ChunksOf
<1> QED
  BY <1>1, <1>3, <1>5, CountStep

\* A request that is not in its loop and counts as many chunks as before.
LEMMA QuietCount ==
    ASSUME FullInv, PlacesInv', Grow, UNCHANGED docs, NEW h \in Requests, NEW r,
           OnlyReq(h, r), r.doc = req[h].doc, r.mine.chunks = req[h].mine.chunks,
           r.at # "ingesting" \/ (r.next = 1 /\ (IsText(r.doc) => r.todo \in {0, ChunksOf(r.doc)}))
    PROVE  FullInv'
<1>1. PICK q : q = req[h]
  OBVIOUS
<1>2. CountInv(q)'
  BY <1>1, OthersCount
<1>3. IsText(r.doc) /\ r.mine.chunks = ChunksOf(r.doc) => Full(r.doc)'
  BY <1>1, <1>2 DEF CountInv, IsText, ChunksOf, Full, Found
<1>4. IsText(r.doc) /\ r.at = "ingesting" => r.todo \in {0, ChunksOf(r.doc)}
  OBVIOUS
<1>5. r.at = "ingesting" => \A k \in 1 .. r.next - 1 : points'[<<r.doc, k, r.mine.tag>>] > 0
  <2> SUFFICES ASSUME r.next = 1, NEW k \in 1 .. r.next - 1
               PROVE  FALSE
    OBVIOUS
  <2> QED
    OBVIOUS
<1>6. CountInv(r)'
  BY <1>3, <1>4, <1>5 DEF CountInv, IsText, ChunksOf
<1> QED
  BY <1>6, CountStep

LEMMA TurnCount ==
    ASSUME FullInv, PlacesInv', Grow, NEW h \in Requests, IngestChunk(h) \/ SkipChunk(h)
    PROVE  FullInv'
<1>1. /\ PlacesInv /\ req[h].at = "ingesting" /\ req[h].next \in ChunkNos
      /\ req[h].mine.tag \in Tags /\ UNCHANGED docs
  BY TurnShape DEF FullInv
<1>2. PICK r, n :
        /\ OnlyReq(h, r) /\ SameWork(r, req[h]) /\ r.at = "ingesting"
        /\ n \in {0, 1} /\ r.next = req[h].next + 1
        /\ r.ingested = req[h].ingested + n
        /\ r.todo = req[h].todo /\ r.mine = req[h].mine
        /\ \A d \in Docs, k \in ChunkNos, t \in Tags :
             points'[<<d, k, t>>] =
               IF d = r.doc /\ k = req[h].next /\ t = r.mine.tag
               THEN points[<<d, k, t>>] + n ELSE points[<<d, k, t>>]
  BY <1>1, TurnShape
<1>3. PICK q : q = req[h]
  OBVIOUS
<1>4. /\ q \in Classifications /\ PlaceInv(q) /\ q.doc \in Docs /\ r.doc = q.doc
      /\ q.next \in Nat /\ q.ingested \in Nat /\ q.ingested < q.next
  <2>1. q \in Classifications /\ PlaceInv(q)
    BY <1>1, <1>3, ReqType
  <2>2. q.ingested < q.next
    BY <2>1 DEF PlaceInv
  <2> QED
    BY <1>2, <1>3, <2>1, <2>2 DEF Classifications, SameWork
<1>5. CountInv(q)'
  BY <1>3, OthersCount
<1>6. ASSUME r.ingested = r.next - 1, IsText(r.doc), NEW k \in 1 .. r.next - 1
      PROVE  points'[<<r.doc, k, r.mine.tag>>] > 0
  <2>1. n = 1 /\ q.ingested = q.next - 1
    BY <1>2, <1>3, <1>4, <1>6
  <2>2. k \in 1 .. q.next
    BY <1>2, <1>3, <1>4
  <2>3. CASE k = q.next
    <3>1. PICK d \in Docs, i \in ChunkNos, t \in Tags : d = r.doc /\ i = k /\ t = r.mine.tag
      BY <1>1, <1>2, <1>3, <1>4, <2>3
    <3>2. points'[<<d, i, t>>] = points[<<d, i, t>>] + 1 /\ points[<<d, i, t>>] \in Nat
      BY <1>1, <1>2, <1>3, <2>1, <2>3, <3>1, CountTypes
    <3> QED
      BY <3>1, <3>2
  <2>4. CASE k \in 1 .. q.next - 1
    BY <1>1, <1>2, <1>3, <1>4, <1>5, <1>6, <2>1, <2>4 DEF CountInv, IsText
  <2> QED
    BY <1>4, <2>2, <2>3, <2>4
<1>7. CountInv(r)'
  BY <1>1, <1>2, <1>3, <1>4, <1>5, <1>6 DEF CountInv, IsText, ChunksOf, Full, Found
<1> QED
  BY <1>1, <1>2, <1>7, CountStep

LEMMA CompleteCount ==
    ASSUME FullInv, PlacesInv', Grow, NEW h \in Requests, CompleteDocument(h)
    PROVE  FullInv'
<1>1. /\ PlacesInv /\ req[h].at = "ingesting" /\ req[h].next = req[h].todo + 1 /\ UNCHANGED docs
  BY CompleteShape DEF FullInv
<1>2. PICK r : /\ OnlyReq(h, r) /\ SameWork(r, req[h]) /\ r.at = "done"
               /\ r.mine.chunks = req[h].ingested
  BY <1>1, CompleteShape
<1>3. PICK q : q = req[h]
  OBVIOUS
<1>4. /\ q \in Classifications /\ PlaceInv(q) /\ q.doc \in Docs /\ r.doc = q.doc
      /\ q.mine.tag \in Tags /\ q.todo \in Nat /\ q.next = q.todo + 1
      /\ q.ingested \in Nat /\ q.ingested < q.next
  <2>1. q \in Classifications /\ PlaceInv(q)
    BY <1>1, <1>3, ReqType
  <2>2. q.ingested < q.next /\ q.mine.tag \in Tags
    BY <1>1, <1>3, <2>1 DEF PlaceInv
  <2> QED
    BY <1>1, <1>2, <1>3, <2>1, <2>2 DEF Classifications, SameWork
<1>5. CountInv(q)'
  BY <1>3, OthersCount
<1>6. ASSUME IsText(q.doc), q.ingested = ChunksOf(q.doc)
      PROVE  Full(q.doc)'
  <2>1. q.todo \in {0, ChunksOf(q.doc)} /\ ChunksOf(q.doc) \in Nat
    BY <1>1, <1>3, <1>4, <1>5, <1>6, ChunksOfType DEF CountInv, IsText, ChunksOf
  <2>2. CASE ChunksOf(q.doc) = 0
    BY <2>2 DEF Full, ChunksOf
  <2>3. CASE ChunksOf(q.doc) # 0
    <3>1. q.todo = ChunksOf(q.doc) /\ q.ingested = q.next - 1
      BY <1>4, <1>6, <2>1, <2>3
    <3>2. \A k \in 1 .. q.next - 1 : points'[<<q.doc, k, q.mine.tag>>] > 0
      BY <1>1, <1>3, <1>5, <1>6, <3>1 DEF CountInv, IsText
    <3>3. q.next - 1 = ChunksOf(q.doc)
      BY <1>4, <3>1
    <3> QED
      BY <1>4, <3>2, <3>3 DEF Full, Found, ChunksOf
  <2> QED
    BY <2>2, <2>3
<1>7. CountInv(r)'
  BY <1>2, <1>3, <1>4, <1>6 DEF CountInv, IsText, ChunksOf, Full, Found
<1> QED
  BY <1>1, <1>2, <1>7, CountStep

\* A request that is over counts nothing.
LEMMA IdleCount == ASSUME Idle.doc \in Docs PROVE CountInv(Idle)'
<1>1. Idle.mine.chunks = 0 /\ Idle.at = "idle"
  BY RowTypes DEF Idle
<1>2. ChunksOf(Idle.doc) = 0 => Full(Idle.doc)'
  BY DEF Full, ChunksOf
<1> QED
  BY <1>1, <1>2 DEF CountInv, IsText, ChunksOf

LEMMA CommitCount ==
    ASSUME FullInv, PlacesInv', Grow, NEW h \in Requests, CommitClassify(h)
    PROVE  FullInv'
<1>1. PlacesInv
  BY DEF FullInv
<1>2. /\ OnlyReq(h, Idle) /\ req[h].doc \in Docs
      /\ \A d \in Docs : d # req[h].doc => docs'[d] = docs[d]
      /\ docs'[req[h].doc].chunks \in {docs[req[h].doc].chunks, req[h].mine.chunks}
  BY <1>1, CommitShape
<1>3. ASSUME NEW d \in Docs, IsText(d), docs'[d].chunks = ChunksOf(d)
      PROVE  Full(d)'
  <2>1. CASE docs[d].chunks = ChunksOf(d)
    <3>1. PICK row \in Row : row = docs[d]
      BY <1>1 DEF PlacesInv, TypeOK
    <3>2. Full(d)
      BY <1>3, <2>1 DEF FullInv
    <3> QED
      BY <1>3, <2>1, <3>1, <3>2, CountKept
  <2>2. CASE docs[d].chunks # ChunksOf(d)
    <3>1. d = req[h].doc /\ req[h].mine.chunks = ChunksOf(d)
      BY <1>2, <1>3, <2>2
    <3>2. PICK row \in Row : row = req[h].mine
      BY <1>1, ReqType DEF Classifications
    <3>3. Full(d)
      BY <1>3, <3>1 DEF FullInv, CountInv
    <3> QED
      BY <1>3, <3>1, <3>2, <3>3, CountKept
  <2> QED
    BY <2>1, <2>2
<1>4. ASSUME NEW g \in Requests
      PROVE  CountInv(req[g])'
  <2>1. PICK q : q = req'[g] /\ (g = h => q = Idle) /\ (g # h => q = req[g])
    BY <1>2 DEF OnlyReq
  <2>2. Idle.doc \in Docs
    BY IdleType DEF Classifications
  <2>3. CountInv(q)'
    <3>1. CASE g = h
      <4>1. CountInv(Idle)'
        BY <2>2, IdleCount
      <4> QED
        BY <2>1, <3>1, <4>1 DEF CountInv, IsText, ChunksOf, Full, Found
    <3>2. CASE g # h
      BY <2>1, <3>2, OthersCount
    <3> QED
      BY <3>1, <3>2
  <2> QED
    BY <2>1, <2>3 DEF CountInv, IsText, ChunksOf, Full, Found
<1> QED
  BY <1>3, <1>4 DEF FullInv, IsText, ChunksOf

LEMMA UploadCount ==
    ASSUME FullInv, PlacesInv', NEW d \in Docs, UploadFile(d)
    PROVE  FullInv'
<1>1. PlacesInv
  BY DEF FullInv
<1>2. /\ UNCHANGED <<points, req>> /\ docs'[d].chunks = docs[d].chunks
      /\ \A e \in Docs : e # d => docs'[e] = docs[e]
  BY <1>1, UploadShape, RowTypes
<1>3. \A e \in Docs : docs'[e].chunks = docs[e].chunks
  BY <1>2
<1> QED
  BY <1>2, <1>3 DEF FullInv, CountInv, Full, Found, ChunksOf, IsText

LEMMA NextFull == FullInv /\ [Next]_vars => FullInv'
<1> SUFFICES ASSUME FullInv, [Next]_vars
             PROVE  FullInv'
  OBVIOUS
<1>1. PlacesInv /\ PlacesInv' /\ Grow
  BY NextPlaces, NextGrow DEF FullInv
<1>2. CASE UNCHANGED <<docs, points, req>>
  BY <1>1, <1>2 DEF FullInv, CountInv, Full, Found, ChunksOf, IsText
<1>3. ASSUME NEW d \in Docs, UploadFile(d) \/ UploadFails(d)
      PROVE  FullInv'
  BY <1>1, <1>2, <1>3, UploadCount DEF UploadFails
<1>4. CASE LoseFiles
  BY <1>2, <1>4 DEF LoseFiles
<1>5. ASSUME NEW h \in Requests, NEW d \in Docs, NEW t \in Tags, NEW a \in BOOLEAN,
             LoadDocument(h, d, t, a)
      PROVE  FullInv'
  BY <1>1, <1>5, LoadCount
<1>6. ASSUME NEW h \in Requests, NEW a \in [DOMAIN Pages(Content[req[h].doc]) -> Answers],
             ReadDocument(h, a)
      PROVE  FullInv'
  <2>1. UNCHANGED docs
    BY <1>1, <1>6, ReadShape
  <2>2. PICK r : /\ OnlyReq(h, r) /\ SameWork(r, req[h]) /\ r.at \in {"ingesting", "done"}
                 /\ r.next = 1 /\ r.mine.chunks = req[h].mine.chunks
                 /\ r.at = "ingesting" /\ Content[r.doc].kind = "text" =>
                      r.todo = Len(ChunkText(Content[r.doc].words))
    BY <1>1, <1>6, ReadShape
  <2>3. r.doc = req[h].doc
    BY <2>2 DEF SameWork
  <2>4. r.at # "ingesting" \/ (r.next = 1 /\ (IsText(r.doc) => r.todo \in {0, ChunksOf(r.doc)}))
    BY <2>2 DEF IsText, ChunksOf
  <2> QED
    BY <1>1, <2>1, <2>2, <2>3, <2>4, QuietCount
<1>7. ASSUME NEW h \in Requests, QdrantUnavailable(h)
      PROVE  FullInv'
  <2>1. UNCHANGED docs
    BY <1>1, <1>7, UnavailableShape
  <2>2. PICK r : /\ OnlyReq(h, r) /\ SameWork(r, req[h]) /\ r.next = 1 /\ r.todo = 0
                 /\ r.mine = req[h].mine
    BY <1>1, <1>7, UnavailableShape
  <2>3. r.doc = req[h].doc
    BY <2>2 DEF SameWork
  <2> QED
    BY <1>1, <2>1, <2>2, <2>3, QuietCount
<1>8. ASSUME NEW h \in Requests, FlushTag(h)
      PROVE  FullInv'
  <2>1. PICK at \in {"tagged", "done"} : OnlyReq(h, [req[h] EXCEPT !.at = at])
    BY <1>1, <1>8, FlushShape
  <2>2. PICK r : r = [req[h] EXCEPT !.at = at]
    OBVIOUS
  <2>3. /\ r.at # "ingesting" /\ r.doc = req[h].doc /\ r.mine = req[h].mine /\ OnlyReq(h, r)
    BY <1>1, <2>1, <2>2, ReqType DEF Classifications
  <2>4. UNCHANGED docs
    BY <1>8 DEF FlushTag
  <2> QED
    BY <1>1, <2>3, <2>4, QuietCount
<1>9. ASSUME NEW h \in Requests, RollBack(h)
      PROVE  FullInv'
  <2>1. OnlyReq(h, Idle) /\ UNCHANGED docs
    BY <1>1, <1>9, RollBackShape
  <2>2. CountInv(Idle)'
    BY IdleType, IdleCount DEF Classifications
  <2> QED
    BY <1>1, <2>1, <2>2, CountStep
<1> QED
  BY <1>1, <1>2, <1>3, <1>4, <1>5, <1>6, <1>7, <1>8, <1>9, TurnCount, CompleteCount, CommitCount
     DEF Next, vars

LEMMA InitFull == Init => FullInv
<1> SUFFICES ASSUME Init
             PROVE  FullInv
  OBVIOUS
<1>1. ASSUME NEW d \in Docs, docs[d].chunks = ChunksOf(d)
      PROVE  Full(d)
  BY <1>1, RowTypes DEF Init, Full
<1>2. Idle.doc \in Docs /\ Idle.mine.chunks = 0 /\ Idle.at = "idle"
  BY IdleType, RowTypes DEF Classifications, Idle
<1>3. \A h \in Requests : CountInv(req[h])
  BY <1>2 DEF Init, CountInv, Full
<1> QED
  BY <1>1, <1>3, InitPlaces DEF FullInv

\* A completed text whose chunk count is that of its text has every word of it
\* in some point: no failed embedding, overlapping request or rollback makes a
\* count that hides a missing part (rag.py:222-249, api.py:191-193).
THEOREM FullCountFinds == Spec => []FullCountIsSearchable
<1>1. FullInv => FullCountIsSearchable
  <2> SUFFICES ASSUME FullInv, NEW d \in Docs, IsText(d),
                      docs[d].chunks = Len(ChunkText(Content[d].words)),
                      NEW w \in 1 .. Content[d].words
               PROVE  \E k \in DOMAIN ChunkText(Content[d].words), t \in Tags :
                        /\ w \in ChunkText(Content[d].words)[k].first
                                   .. ChunkText(Content[d].words)[k].last
                        /\ points[<<d, k, t>>] > 0
    BY DEF FullCountIsSearchable, IsText
  <2>1. Full(d) /\ Content[d].words \in Nat
    BY ContentAssumption DEF FullInv, ChunksOf
  <2>2. PICK n \in Nat : n = Content[d].words
    BY <2>1
  <2>3. PICK k \in DOMAIN ChunkText(n) : w \in ChunkText(n)[k].first .. ChunkText(n)[k].last
    BY <2>2, ChunksCover
  <2>4. k \in 1 .. ChunksOf(d)
    BY <2>2, <2>3, ChunksCover DEF ChunksOf
  <2>5. PICK t \in Tags : points[<<d, k, t>>] > 0
    BY <2>1, <2>4 DEF Full, Found
  <2> QED
    BY <2>2, <2>3, <2>5
<1> QED
  BY <1>1, InitFull, NextFull, PTL DEF Spec

----------------------------------------------------------------------------
(***************************************************************************)
(* What a reader gets.                                                     *)
(***************************************************************************)

LEMMA StoredFinite ==
    ASSUME PlacesInv
    PROVE  IsFiniteSet(Stored)
<1> DEFINE S == Docs \X ChunkNos \X Tags
           T == Docs \X (ChunkNos \X Tags)
           f == [p \in S |-> <<p[1], <<p[2], p[3]>>>>]
<1>1. MaxChunks \in Int /\ MaxClassify \in Int
  BY LimitAssumption
<1>2. IsFiniteSet(ChunkNos) /\ IsFiniteSet(1 .. MaxClassify)
  BY <1>1, FS_Interval DEF ChunkNos
<1>3. IsFiniteSet(T)
  BY <1>2, FiniteAssumption, FS_Product
<1>4. f \in Injection(S, T)
  <2>1. f \in [S -> T]
    OBVIOUS
  <2>2. ASSUME NEW p \in S, NEW q \in S, f[p] = f[q]
        PROVE  p = q
    <3>1. p[1] = q[1] /\ p[2] = q[2] /\ p[3] = q[3]
      BY <2>2
    <3>2. p = <<p[1], p[2], p[3]>> /\ q = <<q[1], q[2], q[3]>>
      OBVIOUS
    <3> QED
      BY <3>1, <3>2
  <2> HIDE DEF f, S, T
  <2> QED
    BY <2>1, <2>2 DEF Injection, IsInjective
<1> HIDE DEF f, T
<1>5. IsFiniteSet(S)
  BY <1>3, <1>4, FS_Injection
<1>6. DOMAIN points = S
  BY DEF PlacesInv, TypeOK
<1> HIDE DEF S
<1>7. Hits = S \X (1 .. MaxClassify)
  BY <1>6 DEF Hits
<1>8. IsFiniteSet(Hits) /\ Stored \in SUBSET Hits
  BY <1>2, <1>5, <1>7, FS_Product DEF Stored
<1> QED
  BY <1>8, FS_Subset

\* A stored hit is a copy of a point that an administrator asked for.
LEMMA StoredAsked ==
    ASSUME OnceInv, NEW hit \in Stored
    PROVE  asked[<<DocOf(hit), TagOf(hit)>>] > 0 /\ TagOf(hit) \in Tags
<1>1. DOMAIN points = Docs \X ChunkNos \X Tags
  BY DEF OnceInv, PlacesInv, TypeOK
<1>2. PICK d \in Docs, k \in ChunkNos, t \in Tags, n \in 1 .. MaxClassify :
        hit = <<<<d, k, t>>, n>> /\ n <= points[<<d, k, t>>]
  <2>1. PICK p \in DOMAIN points, n \in 1 .. MaxClassify : hit = <<p, n>> /\ n <= points[p]
    BY DEF Stored, Hits
  <2>2. PICK d \in Docs, k \in ChunkNos, t \in Tags : p = <<d, k, t>>
    BY <1>1, <2>1
  <2> QED
    BY <2>1, <2>2
<1>3. DocOf(hit) = d /\ TagOf(hit) = t
  BY <1>2 DEF DocOf, TagOf
<1>4. points[<<d, k, t>>] <= asked[<<d, t>>]
  BY OnceImplies DEF IndexedOncePerRequest
<1>5. points[<<d, k, t>>] \in Nat /\ asked[<<d, t>>] \in Nat /\ n \in Int /\ 1 <= n
  BY <1>2, CountTypes, LimitAssumption DEF OnceInv
<1> QED
  BY <1>2, <1>3, <1>4, <1>5

\* The tags of a search let through what the reader may see.
LEMMA TagsHonoured ==
    ASSUME OnceInv, NEW reader \in Readers, NEW filter \in SUBSET Tags,
           NEW hit \in Accessible(EffectiveTags(reader, filter))
    PROVE  \/ reader.admin \/ TagOf(hit) \in reader.tags
           \/ reader.tags = {} /\ TagOf(hit) = "general"
<1> SUFFICES ASSUME ~reader.admin
             PROVE  \/ TagOf(hit) \in reader.tags
                    \/ reader.tags = {} /\ TagOf(hit) = "general"
  OBVIOUS
<1> DEFINE own == IF reader.tags = {} THEN {"general"} ELSE reader.tags
<1>1. reader.tags \subseteq Tags
  BY ReadersAssumption
<1>2. "*" \notin own
  BY <1>1, NoStarAssumption
<1>3. EffectiveTags(reader, filter) \subseteq own
  BY <1>2 DEF EffectiveTags
<1>4. TagOf(hit) \in own
  BY <1>2, <1>3 DEF Accessible
<1> QED
  BY <1>4

\* A search returns hits the tags let through, without the suspicious ones.
LEMMA SearchFinds ==
    ASSUME NEW tags, NEW topK, NEW found \in Search(tags, topK)
    PROVE  \E raw \in SUBSET Accessible(tags) :
             /\ Cardinality(raw) = LeastOf(topK, Cardinality(Accessible(tags)))
             /\ found = {hit \in raw : ~ IsPromptInjection(hit)}
BY DEF Search, kSubset

\* A reply's hits are those of a search, or none; what it cites are hits, and it
\* counts as verified only when there are any.
LEMMA RepliesSearch ==
    ASSUME NEW reader, NEW filter, NEW topK, NEW r \in Replies(reader, filter, topK)
    PROVE  /\ r.hits \in Search(EffectiveTags(reader, filter), topK) \cup {{}}
           /\ r.verified => r.hits # {} /\ r.cited \subseteq r.hits
<1> DEFINE found == Search(EffectiveTags(reader, filter), topK) \cup {{}}
<1>1. PICK hits \in found :
        \/ r = [hits |-> hits, cited |-> {}, verified |-> FALSE]
        \/ hits # {} /\ \E c \in SUBSET hits : r = [hits |-> hits, cited |-> c, verified |-> TRUE]
  BY DEF Replies
<1> HIDE DEF found
<1>2. CASE r = [hits |-> hits, cited |-> {}, verified |-> FALSE]
  BY <1>1, <1>2 DEF found
<1>3. CASE hits # {} /\ \E c \in SUBSET hits : r = [hits |-> hits, cited |-> c, verified |-> TRUE]
  BY <1>1, <1>3 DEF found
<1> QED
  BY <1>1, <1>2, <1>3

\* Screening takes no more from a search than there are suspicious hits.
LEMMA SearchIsFull ==
    ASSUME PlacesInv, NEW tags, NEW topK \in Nat, NEW found \in Search(tags, topK)
    PROVE  Cardinality(found) >= LeastOf(topK, Cardinality(Accessible(tags)))
              - Cardinality({hit \in Accessible(tags) : IsPromptInjection(hit)})
<1> DEFINE all == Accessible(tags)
           suspect == {hit \in all : IsPromptInjection(hit)}
<1>1. PICK raw \in SUBSET all : /\ Cardinality(raw) = LeastOf(topK, Cardinality(all))
                                /\ found = {hit \in raw : ~ IsPromptInjection(hit)}
  BY SearchFinds
<1>2. IsFiniteSet(all) /\ IsFiniteSet(raw) /\ IsFiniteSet(suspect)
  <2>1. all \in SUBSET Stored /\ suspect \in SUBSET Stored /\ raw \in SUBSET Stored
    BY DEF Accessible
  <2> HIDE DEF all, suspect
  <2> QED
    BY <2>1, StoredFinite, FS_Subset
<1>3. found = raw \ suspect
  BY <1>1
<1>4. raw \cap suspect \in SUBSET suspect
  OBVIOUS
<1> HIDE DEF all, suspect
<1>5. Cardinality(found) = Cardinality(raw) - Cardinality(raw \cap suspect)
  BY <1>2, <1>3, FS_Difference
<1>6. Cardinality(raw \cap suspect) <= Cardinality(suspect) /\ IsFiniteSet(raw \cap suspect)
  BY <1>2, <1>4, FS_Subset
<1>7. /\ Cardinality(raw) \in Nat /\ Cardinality(suspect) \in Nat
      /\ Cardinality(raw \cap suspect) \in Nat
  BY <1>2, <1>6, FS_CardinalityType
<1>8. Cardinality(found) >= Cardinality(raw) - Cardinality(suspect)
  BY <1>5, <1>6, <1>7
<1> QED
  BY <1>1, <1>8 DEF all, suspect

\* Every hit of every reply carries a tag that the reader holds and that an
\* administrator gave to that document, none matches an injection pattern, an
\* answer that counts as verified has hits and cites only those, and hits the
\* reader may not see crowd out none that he may (FR5.2, rag.py:275-315).
THEOREM AnswersKeepToTags == Spec => []AnswersHonourTags
<1>1. OnceInv => AnswersHonourTags
  <2> SUFFICES ASSUME OnceInv, NEW reader \in Readers, NEW filter \in SUBSET Tags,
                      NEW topK \in 1 .. 2
               PROVE  LET tags == EffectiveTags(reader, filter)
                          suspect == {hit \in Accessible(tags) : IsPromptInjection(hit)}
                      IN  /\ \A r \in Replies(reader, filter, topK) :
                               /\ \A hit \in r.hits :
                                    /\ asked[<<DocOf(hit), TagOf(hit)>>] > 0
                                    /\ \/ reader.admin \/ TagOf(hit) \in reader.tags
                                       \/ reader.tags = {} /\ TagOf(hit) = "general"
                                    /\ ~ IsPromptInjection(hit)
                               /\ r.verified => r.hits # {} /\ r.cited \subseteq r.hits
                          /\ \A found \in Search(tags, topK) :
                               Cardinality(found) >=
                                 LeastOf(topK, Cardinality(Accessible(tags))) - Cardinality(suspect)
    BY DEF AnswersHonourTags
  <2> DEFINE tags == EffectiveTags(reader, filter)
  <2>1. ASSUME NEW r \in Replies(reader, filter, topK), NEW hit \in r.hits
        PROVE  /\ asked[<<DocOf(hit), TagOf(hit)>>] > 0
               /\ \/ reader.admin \/ TagOf(hit) \in reader.tags
                  \/ reader.tags = {} /\ TagOf(hit) = "general"
               /\ ~ IsPromptInjection(hit)
    <3>1. r.hits \in Search(tags, topK)
      BY <2>1, RepliesSearch
    <3>2. hit \in Accessible(tags) /\ ~ IsPromptInjection(hit)
      BY <2>1, <3>1, SearchFinds
    <3>3. hit \in Stored
      BY <3>2 DEF Accessible
    <3> QED
      BY <3>2, <3>3, StoredAsked, TagsHonoured
  <2>2. ASSUME NEW r \in Replies(reader, filter, topK)
        PROVE  r.verified => r.hits # {} /\ r.cited \subseteq r.hits
    BY <2>2, RepliesSearch
  <2>3. ASSUME NEW found \in Search(tags, topK)
        PROVE  Cardinality(found) >= LeastOf(topK, Cardinality(Accessible(tags)))
                 - Cardinality({hit \in Accessible(tags) : IsPromptInjection(hit)})
    BY <2>3, SearchIsFull DEF OnceInv
  <2> QED
    BY <2>1, <2>2, <2>3
<1> QED
  BY <1>1, InitOnce, NextOnce, PTL DEF Spec

----------------------------------------------------------------------------
(***************************************************************************)
(* The Evidence Resolver, on the readings of one page.                     *)
(***************************************************************************)

LEMMA MaxOne == Max({1}) = 1
BY DEF Max

\* A page has at most one reading of each kind: the folds of Resolve over them.
LEMMA FoldOcr ==
    ASSUME NEW b, NEW e
    PROVE  /\ FoldLeft(AddOcr, b, << >>) = b
           /\ FoldLeft(AddOcr, b, <<e>>) = AddOcr(b, e)
<1>1. FoldLeft(AddOcr, b, << >>) = b
  <2> DEFINE turn(f, s) == IF s = {} THEN b ELSE LET x == Max(s) IN AddOcr(f[s \ {x}], << >>[x])
             iter[s \in SUBSET {}] == turn(iter, s)
             g == [s \in SUBSET {} |-> b]
  <2>1. FoldLeft(AddOcr, b, << >>) = iter[{}]
    BY DEF FoldLeft, MapThenFoldSet
  <2>2. g = [s \in SUBSET {} |-> turn(g, s)]
    OBVIOUS
  <2> HIDE DEF g, turn
  <2>3. iter = [s \in SUBSET {} |-> turn(iter, s)]
    BY <2>2
  <2>4. turn(iter, {}) = b
    BY DEF turn
  <2> HIDE DEF iter
  <2> QED
    BY <2>1, <2>3, <2>4
<1>2. FoldLeft(AddOcr, b, <<e>>) = AddOcr(b, e)
  <2> DEFINE turn(f, s) == IF s = {} THEN b ELSE LET x == Max(s) IN AddOcr(f[s \ {x}], <<e>>[x])
             iter[s \in SUBSET {1}] == turn(iter, s)
             g == [s \in SUBSET {1} |-> IF s = {} THEN b ELSE AddOcr(b, e)]
  <2>1. FoldLeft(AddOcr, b, <<e>>) = iter[{1}]
    <3>1. DOMAIN <<e>> = {1}
      OBVIOUS
    <3> QED
      BY <3>1 DEF FoldLeft, MapThenFoldSet
  <2>2. \A f : turn(f, {}) = b /\ turn(f, {1}) = AddOcr(f[{}], e)
    <3>1. {1} \ {1} = {} /\ <<e>>[1] = e /\ {1} # {}
      OBVIOUS
    <3> QED
      BY <3>1, MaxOne
  <2>3. SUBSET {1} = {{}, {1}}
    OBVIOUS
  <2>4. g[{}] = b /\ g[{1}] = AddOcr(b, e) /\ g = [s \in SUBSET {1} |-> g[s]]
    OBVIOUS
  <2> HIDE DEF g, turn
  <2>5. \A s \in SUBSET {1} : g[s] = turn(g, s)
    BY <2>2, <2>3, <2>4
  <2>6. g = [s \in SUBSET {1} |-> turn(g, s)]
    BY <2>4, <2>5
  <2>7. iter = [s \in SUBSET {1} |-> turn(iter, s)]
    BY <2>6
  <2> HIDE DEF iter
  <2>8. iter[{}] = turn(iter, {}) /\ iter[{1}] = turn(iter, {1})
    BY <2>3, <2>7
  <2> QED
    BY <2>1, <2>2, <2>8
<1> QED
  BY <1>1, <1>2

LEMMA FoldVision ==
    ASSUME NEW b, NEW e
    PROVE  /\ FoldLeft(AddVision, b, << >>) = b
           /\ FoldLeft(AddVision, b, <<e>>) = AddVision(b, e)
<1>1. FoldLeft(AddVision, b, << >>) = b
  <2> DEFINE turn(f, s) == IF s = {} THEN b ELSE LET x == Max(s) IN AddVision(f[s \ {x}], << >>[x])
             iter[s \in SUBSET {}] == turn(iter, s)
             g == [s \in SUBSET {} |-> b]
  <2>1. FoldLeft(AddVision, b, << >>) = iter[{}]
    BY DEF FoldLeft, MapThenFoldSet
  <2>2. g = [s \in SUBSET {} |-> turn(g, s)]
    OBVIOUS
  <2> HIDE DEF g, turn
  <2>3. iter = [s \in SUBSET {} |-> turn(iter, s)]
    BY <2>2
  <2>4. turn(iter, {}) = b
    BY DEF turn
  <2> HIDE DEF iter
  <2> QED
    BY <2>1, <2>3, <2>4
<1>2. FoldLeft(AddVision, b, <<e>>) = AddVision(b, e)
  <2> DEFINE turn(f, s) == IF s = {} THEN b ELSE LET x == Max(s) IN AddVision(f[s \ {x}], <<e>>[x])
             iter[s \in SUBSET {1}] == turn(iter, s)
             g == [s \in SUBSET {1} |-> IF s = {} THEN b ELSE AddVision(b, e)]
  <2>1. FoldLeft(AddVision, b, <<e>>) = iter[{1}]
    <3>1. DOMAIN <<e>> = {1}
      OBVIOUS
    <3> QED
      BY <3>1 DEF FoldLeft, MapThenFoldSet
  <2>2. \A f : turn(f, {}) = b /\ turn(f, {1}) = AddVision(f[{}], e)
    <3>1. {1} \ {1} = {} /\ <<e>>[1] = e /\ {1} # {}
      OBVIOUS
    <3> QED
      BY <3>1, MaxOne
  <2>3. SUBSET {1} = {{}, {1}}
    OBVIOUS
  <2>4. g[{}] = b /\ g[{1}] = AddVision(b, e) /\ g = [s \in SUBSET {1} |-> g[s]]
    OBVIOUS
  <2> HIDE DEF g, turn
  <2>5. \A s \in SUBSET {1} : g[s] = turn(g, s)
    BY <2>2, <2>3, <2>4
  <2>6. g = [s \in SUBSET {1} |-> turn(g, s)]
    BY <2>4, <2>5
  <2>7. iter = [s \in SUBSET {1} |-> turn(iter, s)]
    BY <2>6
  <2> HIDE DEF iter
  <2>8. iter[{}] = turn(iter, {}) /\ iter[{1}] = turn(iter, {1})
    BY <2>3, <2>7
  <2> QED
    BY <2>1, <2>2, <2>8
<1> QED
  BY <1>1, <1>2

Field == "page_text"
PageText(e) == [f \in {Field} |-> e]

\* What the two readings of a page are merged into, in each of the four cases.
LEMMA ResolveCases ==
    ASSUME NEW r, NEW v, r.field = Field, v.field = Field
    PROVE  /\ DOMAIN Resolve(<< >>, << >>) = {}
           /\ Resolve(<<r>>, << >>) = PageText(Merged(r, "ocr", r.conf, 90, 100))
           /\ Resolve(<< >>, <<v>>) = PageText(Merged(v, "vision_llm", 0, 80, 90))
           /\ Resolve(<<r>>, <<v>>) =
                PageText(Reconcile(Merged(r, "ocr", r.conf, 90, 100), v))
<1> DEFINE ocr == PageText(Merged(r, "ocr", r.conf, 90, 100))
<1>0. DOMAIN << >> = {}
  OBVIOUS
<1>1. AddOcr(<< >>, r) = ocr
  BY <1>0 DEF AddOcr, Put, PageText
<1>2. AddVision(<< >>, v) = PageText(Merged(v, "vision_llm", 0, 80, 90))
  BY <1>0 DEF AddVision, Put, PageText
<1>3. AddVision(ocr, v) =
        PageText(Reconcile(Merged(r, "ocr", r.conf, 90, 100), v))
  <2>1. Field \in DOMAIN ocr /\ ocr[Field] = Merged(r, "ocr", r.conf, 90, 100)
        /\ DOMAIN ocr \cup {Field} = {Field}
    BY DEF PageText
  <2> HIDE DEF ocr
  <2> QED
    BY <2>1 DEF AddVision, Put, PageText
<1> HIDE DEF ocr
<1>4. Resolve(<< >>, << >>) = << >>
  BY FoldOcr, FoldVision DEF Resolve
<1>5. Resolve(<<r>>, << >>) = ocr
  BY <1>1, FoldOcr, FoldVision DEF Resolve
<1>6. Resolve(<< >>, <<v>>) = AddVision(<< >>, v)
  BY FoldOcr, FoldVision DEF Resolve
<1>7. Resolve(<<r>>, <<v>>) = AddVision(ocr, v)
  <2>1. PICK o : o = FoldLeft(AddOcr, << >>, <<r>>)
    OBVIOUS
  <2>2. o = ocr
    BY <1>1, <2>1, FoldOcr
  <2>3. Resolve(<<r>>, <<v>>) = FoldLeft(AddVision, o, <<v>>)
    BY <2>1 DEF Resolve
  <2> QED
    BY <2>2, <2>3, FoldVision
<1> QED
  BY <1>0, <1>2, <1>3, <1>4, <1>5, <1>6, <1>7 DEF ocr

\* The row that a merged field becomes.
LEMMA RowsOf ==
    ASSUME NEW page, NEW answer, NEW e,
           ResolvePage(page, answer) = PageText(e)
    PROVE  \E row : /\ PageRows(page, answer) = {row}
                    /\ row.value = e.value /\ row.conflict = e.conflict /\ row.overall = Overall(e)
<1> DEFINE resolved == ResolvePage(page, answer)
           row == [field |-> Field,
                   region |-> PrimaryRegion(ClassifyPageRegions(page, answer)),
                   value |-> e.value, method |-> e.method, conflict |-> e.conflict,
                   overall |-> Overall(e)]
<1>1. DOMAIN resolved = {Field} /\ resolved[Field] = e
  BY DEF PageText
<1> HIDE DEF resolved
<1>2. PageRows(page, answer) = {row}
  BY <1>1 DEF PageRows, resolved
<1>3. row.value = e.value /\ row.conflict = e.conflict /\ row.overall = Overall(e)
  OBVIOUS
<1> QED
  BY <1>2, <1>3

\* Whether two readings differ, as a number of texts.
LEMMA TwoTexts ==
    ASSUME NEW u, NEW v
    PROVE  Cardinality({u}) # 2 /\ (Cardinality({u, v}) = 2 <=> u # v)
<1>1. Cardinality({u}) = 1 /\ IsFiniteSet({u})
  BY FS_Singleton
<1>2. Cardinality({u} \cup {v}) = IF v \in {u} THEN 1 ELSE 2
  <2>1. Cardinality({u} \cup {v}) = IF v \in {u} THEN Cardinality({u}) ELSE Cardinality({u}) + 1
    BY <1>1, FS_AddElement
  <2> QED
    BY <1>1, <2>1
<1>3. {u} \cup {v} = {u, v}
  OBVIOUS
<1> QED
  BY <1>1, <1>2, <1>3

LEMMA OneReading ==
    ASSUME NEW e, e.conf \in Int, NEW row, row.value = e.value, row.conflict = FALSE
    PROVE  RowsReflect(<<e>>, {row})
<1> DEFINE read == <<e>>
           texts == {read[n].value : n \in DOMAIN read}
           surest == {read[n] : n \in {m \in DOMAIN read :
                                         \A o \in DOMAIN read : read[o].conf <= read[m].conf}}
<1>1. DOMAIN read = {1} /\ read[1] = e /\ Len(read) = 1
  OBVIOUS
<1>2. texts = {e.value}
  BY <1>1
<1>3. surest = {e}
  BY <1>1
<1>4. Cardinality(texts) # 2
  BY <1>2, TwoTexts
<1> QED
  BY <1>1, <1>2, <1>3, <1>4 DEF RowsReflect

LEMMA TwoReadings ==
    ASSUME NEW a, NEW b, a.conf \in Int, b.conf \in Int, NEW row,
           row.value = IF a.value # b.value /\ b.conf > a.conf THEN b.value ELSE a.value,
           row.conflict <=> a.value # b.value,
           row.overall = 3 * a.conf + 670 - IF row.conflict THEN 100 ELSE 0
    PROVE  RowsReflect(<<a, b>>, {row})
<1> DEFINE read == <<a, b>>
           texts == {read[n].value : n \in DOMAIN read}
           surest == {read[n] : n \in {m \in DOMAIN read :
                                         \A o \in DOMAIN read : read[o].conf <= read[m].conf}}
<1>1. DOMAIN read = {1, 2} /\ read[1] = a /\ read[2] = b /\ Len(read) = 2
  OBVIOUS
<1>2. texts = {a.value, b.value}
  BY <1>1
<1>3. (a \in surest <=> b.conf <= a.conf) /\ (b \in surest <=> a.conf <= b.conf)
  <2>1. {m \in DOMAIN read : \A o \in DOMAIN read : read[o].conf <= read[m].conf}
          = {m \in {1, 2} : a.conf <= read[m].conf /\ b.conf <= read[m].conf}
    BY <1>1
  <2>2. surest = {x \in {a, b} : a.conf <= x.conf /\ b.conf <= x.conf}
    BY <1>1, <2>1
  <2> QED
    BY <2>2
<1>4. Cardinality(texts) = 2 <=> a.value # b.value
  <2>1. PICK x, y : x = a.value /\ y = b.value
    OBVIOUS
  <2>2. texts = {x, y}
    BY <1>2, <2>1
  <2> HIDE DEF texts
  <2>3. Cardinality({x, y}) = 2 <=> x # y
    BY TwoTexts
  <2> QED
    BY <2>1, <2>2, <2>3
<1> HIDE DEF texts, surest
<1>5. row.value \in {e.value : e \in surest}
  BY <1>3
<1>6. row.value = a.value \/ a \notin surest
  BY <1>3
<1> HIDE DEF read
<1>7. row.conflict <=> Cardinality(texts) = 2
  BY <1>4
<1>8. texts # {}
  BY <1>2
<1> QED
  BY <1>1, <1>5, <1>6, <1>7, <1>8 DEF RowsReflect, read, texts, surest

LEMMA Joined ==
    ASSUME NEW a, NEW b
    PROVE  << >> \o <<b>> = <<b>> /\ <<a>> \o << >> = <<a>> /\ <<a>> \o <<b>> = <<a, b>>
<1> DEFINE S == {a, b}
<1>1. /\ <<a>> \in Seq(S) /\ <<b>> \in Seq(S) /\ <<a, b>> \in Seq(S)
      /\ Len(<<a>>) = 1 /\ Len(<<b>>) = 1 /\ Len(<<a, b>>) = 2
      /\ <<a>>[1] = a /\ <<b>>[1] = b /\ <<a, b>>[1] = a /\ <<a, b>>[2] = b
  OBVIOUS
<1> HIDE DEF S
<1>2. PICK s \in Seq(S), t \in Seq(S), u \in Seq(S) : s = <<a>> /\ t = <<b>> /\ u = <<a, b>>
  BY <1>1
<1>3. << >> \o t = t /\ s \o << >> = s
  BY <1>2, ConcatEmptySeq
<1>4. s \o t = u
  <2>1. /\ s \o t \in Seq(S) /\ Len(s \o t) = Len(s) + Len(t)
        /\ \A i \in 1 .. Len(s) + Len(t) :
             (s \o t)[i] = IF i <= Len(s) THEN s[i] ELSE t[i - Len(s)]
    BY ConcatProperties
  <2>2. Len(s) = 1 /\ Len(t) = 1 /\ Len(u) = 2 /\ s[1] = a /\ t[1] = b /\ u[1] = a /\ u[2] = b
    BY <1>1, <1>2
  <2>3. Len(s \o t) = 2 /\ (s \o t)[1] = a /\ (s \o t)[2] = b
    BY <2>1, <2>2
  <2>4. PICK v \in Seq(S) : v = s \o t
    BY <2>1
  <2>5. Len(v) = Len(u) /\ \A i \in 1 .. Len(v) : v[i] = u[i]
    BY <2>2, <2>3, <2>4
  <2> QED
    BY <2>4, <2>5, SeqEqual
<1> QED
  BY <1>2, <1>3, <1>4

\* How Reconcile marks what it merges.
LEMMA Reconciled ==
    ASSUME NEW a, NEW b, a.conf \in Int, b.conf \in Int
    PROVE  LET e == Reconcile(Merged(a, "ocr", a.conf, 90, 100), b)
           IN  /\ e.value = IF a.value # b.value /\ b.conf > a.conf THEN b.value ELSE a.value
               /\ e.conflict <=> a.value # b.value
               /\ Overall(e) = 3 * a.conf + 670 - IF e.conflict THEN 100 ELSE 0
<1> DEFINE m == Merged(a, "ocr", a.conf, 90, 100)
           e == Reconcile(m, b)
           Good(x) == /\ x.value = IF a.value # b.value /\ b.conf > a.conf THEN b.value ELSE a.value
                      /\ x.conflict <=> a.value # b.value
                      /\ Overall(x) = 3 * a.conf + 670 - IF x.conflict THEN 100 ELSE 0
<1>1. m = [value |-> a.value, method |-> "ocr", quality |-> a.conf, certainty |-> 90,
           consistency |-> 100, agreement |-> 100, conflict |-> FALSE]
  BY DEF Merged
<1> HIDE DEF m
<1>2. ASSUME a.value = b.value PROVE Good(e)
  <2>1. e = [m EXCEPT !.agreement = 100, !.method = "hybrid"]
    BY <1>1, <1>2 DEF Reconcile
  <2> HIDE DEF e
  <2>2. /\ e.value = a.value /\ e.conflict = FALSE /\ e.quality = a.conf /\ e.certainty = 90
        /\ e.consistency = 100 /\ e.agreement = 100
    BY <1>1, <2>1
  <2>3. Overall(e) = 3 * a.conf + 670
    BY <2>2 DEF Overall
  <2> QED
    BY <1>2, <2>2, <2>3
<1>3. ASSUME a.value # b.value PROVE Good(e)
  <2>1. e = IF b.conf > a.conf
              THEN [m EXCEPT !.agreement = 50, !.conflict = TRUE, !.value = b.value, !.method = "hybrid"]
              ELSE [m EXCEPT !.agreement = 50, !.conflict = TRUE]
    BY <1>1, <1>3 DEF Reconcile
  <2> HIDE DEF e
  <2>2. /\ e.value = IF b.conf > a.conf THEN b.value ELSE a.value
        /\ e.conflict = TRUE /\ e.quality = a.conf /\ e.certainty = 90
        /\ e.consistency = 100 /\ e.agreement = 50
    BY <1>1, <2>1
  <2>3. Overall(e) = 3 * a.conf + 570
    BY <2>2 DEF Overall
  <2>4. 3 * a.conf + 670 - 100 = 3 * a.conf + 570
    OBVIOUS
  <2> QED
    BY <1>3, <2>2, <2>3, <2>4
<1>4. Good(e)
  BY <1>2, <1>3
<1> QED
  BY <1>4 DEF e, m

LEMMA PageResolved ==
    ASSUME NEW page, NEW answer, page.conf \in Int
    PROVE  RowsReflect(OcrExtractions(page) \o VisionExtractions(page, answer),
                    PageRows(page, answer))
<1> DEFINE ocr == OcrExtractions(page)
           vision == VisionExtractions(page, answer)
<1>1. \/ ocr = << >>
      \/ \E a : ocr = <<a>> /\ a.field = Field /\ a.conf \in Int
  BY DEF OcrExtractions, Extraction, Field
<1>2. \/ vision = << >>
      \/ \E b : vision = <<b>> /\ b.field = Field /\ b.conf \in Int
  BY DEF VisionExtractions, Extraction, Field
<1>3. ResolvePage(page, answer) = Resolve(ocr, vision)
  BY DEF ResolvePage
<1> HIDE DEF ocr, vision
<1>4. CASE ocr = << >> /\ vision = << >>
  <2>1. PageRows(page, answer) = {}
    <3>1. PICK e : e.field = Field
      <4>1. [field |-> Field].field = Field
        OBVIOUS
      <4> QED
        BY <4>1
    <3>2. DOMAIN ResolvePage(page, answer) = {}
      BY <1>3, <1>4, <3>1, ResolveCases
    <3> QED
      BY <3>2 DEF PageRows
  <2>2. ocr \o vision = << >>
    BY <1>4
  <2>3. DOMAIN << >> = {}
    OBVIOUS
  <2> QED
    BY <2>1, <2>2, <2>3 DEF RowsReflect, ocr, vision
<1>5. ASSUME vision = << >>, NEW a, ocr = <<a>>, a.field = Field, a.conf \in Int
      PROVE  RowsReflect(ocr \o vision, PageRows(page, answer))
  <2> DEFINE e == Merged(a, "ocr", a.conf, 90, 100)
  <2>a. ResolvePage(page, answer) = Resolve(<<a>>, << >>)
    BY <1>3, <1>5
  <2>1. ResolvePage(page, answer) = PageText(e)
    BY <1>5, <2>a, ResolveCases
  <2>2. e.value = a.value /\ e.conflict = FALSE
    BY DEF Merged
  <2> HIDE DEF e
  <2>3. PICK row : PageRows(page, answer) = {row} /\ row.value = e.value /\ row.conflict = e.conflict
    BY <2>1, RowsOf
  <2>4. ocr \o vision = <<a>>
    BY <1>5, Joined
  <2> QED
    BY <1>5, <2>2, <2>3, <2>4, OneReading
<1>6. ASSUME ocr = << >>, NEW b, vision = <<b>>, b.field = Field, b.conf \in Int
      PROVE  RowsReflect(ocr \o vision, PageRows(page, answer))
  <2> DEFINE e == Merged(b, "vision_llm", 0, 80, 90)
  <2>a. ResolvePage(page, answer) = Resolve(<< >>, <<b>>)
    BY <1>3, <1>6
  <2>b. Resolve(<< >>, <<b>>) = PageText(Merged(b, "vision_llm", 0, 80, 90))
    BY <1>6, ResolveCases
  <2>1. ResolvePage(page, answer) = PageText(e)
    BY <2>a, <2>b
  <2>2. e.value = b.value /\ e.conflict = FALSE
    BY DEF Merged
  <2> HIDE DEF e
  <2>3. PICK row : PageRows(page, answer) = {row} /\ row.value = e.value /\ row.conflict = e.conflict
    BY <2>1, RowsOf
  <2>4. ocr \o vision = <<b>>
    BY <1>6, Joined
  <2> QED
    BY <1>6, <2>2, <2>3, <2>4, OneReading
<1>7. ASSUME NEW a, ocr = <<a>>, a.field = Field, a.conf \in Int,
             NEW b, vision = <<b>>, b.field = Field, b.conf \in Int
      PROVE  RowsReflect(ocr \o vision, PageRows(page, answer))
  <2> DEFINE m == Merged(a, "ocr", a.conf, 90, 100)
             e == Reconcile(m, b)
  <2>a. ResolvePage(page, answer) = Resolve(<<a>>, <<b>>)
    BY <1>3, <1>7
  <2>b. Resolve(<<a>>, <<b>>) = PageText(Reconcile(Merged(a, "ocr", a.conf, 90, 100), b))
    BY <1>7, ResolveCases
  <2>1. ResolvePage(page, answer) = PageText(e)
    BY <2>a, <2>b
  <2>2. /\ e.value = IF a.value # b.value /\ b.conf > a.conf THEN b.value ELSE a.value
        /\ e.conflict <=> a.value # b.value
        /\ Overall(e) = 3 * a.conf + 670 - IF e.conflict THEN 100 ELSE 0
    BY <1>7, Reconciled
  <2> HIDE DEF e
  <2>4. PICK row : /\ PageRows(page, answer) = {row}
                   /\ row.value = e.value /\ row.conflict = e.conflict /\ row.overall = Overall(e)
    BY <2>1, RowsOf
  <2>5. ocr \o vision = <<a, b>>
    BY <1>7, Joined
  <2>6. /\ row.value = IF a.value # b.value /\ b.conf > a.conf THEN b.value ELSE a.value
        /\ row.conflict <=> a.value # b.value
        /\ row.overall = 3 * a.conf + 670 - IF row.conflict THEN 100 ELSE 0
    BY <2>2, <2>4
  <2>7. RowsReflect(<<a, b>>, {row})
    BY <1>7, <2>6, TwoReadings
  <2> QED
    BY <2>4, <2>5, <2>7
<1>8. RowsReflect(ocr \o vision, PageRows(page, answer))
  <2>1. CASE ocr = << >>
    <3>1. CASE vision = << >>
      BY <1>4, <2>1, <3>1 DEF ocr, vision
    <3>2. ASSUME NEW b, vision = <<b>>, b.field = Field, b.conf \in Int
          PROVE  RowsReflect(ocr \o vision, PageRows(page, answer))
      BY <1>6, <2>1, <3>2
    <3> QED
      BY <1>2, <3>1, <3>2
  <2>2. ASSUME NEW a, ocr = <<a>>, a.field = Field, a.conf \in Int
        PROVE  RowsReflect(ocr \o vision, PageRows(page, answer))
    BY <1>2, <1>5, <1>7, <2>2
  <2> QED
    BY <1>1, <2>1, <2>2
<1> QED
  BY <1>8 DEF ocr, vision

\* On every page of every uploaded document, whatever the vision model answers:
\* a page somebody could read has a row, and the row keeps the text of the more
\* confident reader, marked and rated lower exactly when the two readers differ
\* (FR4.2, rag.py:118-162, pipeline.py:144-166).
THEOREM ConflictsAreMarked == Spec => []DisagreementsFlagged
<1>1. DisagreementsFlagged
  <2>1. ASSUME NEW d \in Docs, NEW i \in DOMAIN Pages(Content[d]), NEW answer \in Answers
        PROVE  RowsReflect(OcrExtractions(Pages(Content[d])[i])
                          \o VisionExtractions(Pages(Content[d])[i], answer),
                        PageRows(Pages(Content[d])[i], answer))
    <3>1. PICK page : page = Pages(Content[d])[i]
      OBVIOUS
    <3>2. page.conf \in Int
      BY <3>1, ContentAssumption
    <3> QED
      BY <3>1, <3>2, PageResolved
  <2> QED
    BY <2>1 DEF DisagreementsFlagged
<1> QED
  BY <1>1, PTL
=============================================================================
