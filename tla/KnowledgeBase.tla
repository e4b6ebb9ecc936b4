--------------------------- MODULE KnowledgeBase ----------------------------
(***************************************************************************)
(* Upload, classification, ingestion and search of documents               *)
(* (knowledge_service/api.py, rag.py and pipeline.py).                     *)
(*                                                                         *)
(* A document is a file on disk, a row of kb_documents and, once an        *)
(* administrator has classified it, points in Qdrant.  Classifying reads   *)
(* the row without a lock, writes the columns it changed at the first      *)
(* flush (which waits for the row's lock), ingests the document chunk by   *)
(* chunk, writes the outcome and commits when the request ends.  A point   *)
(* is visible as soon as it is upserted and no rollback removes it; a      *)
(* classification that ingests again gets points with new ids.  The        *)
(* session writes only the columns that differ from what it LOADED, so     *)
(* every request keeps the row it has read.                                *)
(***************************************************************************)
EXTENDS DocumentPipeline

CONSTANTS
    Docs,          \* the documents users may upload
    Requests,      \* the classification requests that may be in flight at once
    Tags,          \* the access tags administrators assign
    Content,       \* what is in the file of each document
    Answers,       \* what the vision model may answer for a page
    Suspicious,    \* the <<document, chunk>> pairs that match an injection pattern
    Readers,       \* the users who query: [admin, tags]
    MaxBytes,      \* the upload limit, in the unit of Content[d].bytes
    MaxChunks,     \* bound: chunks of a document
    MaxClassify,   \* bound: classification requests that assign a tag, in a behaviour
    MaxFaults      \* bound: crashes, lost files and failed embeddings

ASSUME LimitAssumption == MaxChunks \in Nat \ {0} /\ MaxClassify \in Nat /\ MaxFaults \in Nat
ASSUME NoStarAssumption == "*" \notin Tags
ASSUME FiniteAssumption == /\ Docs # {} /\ IsFiniteSet(Docs)
                           /\ IsFiniteSet(Requests) /\ IsFiniteSet(Tags)
ASSUME ReadersAssumption == Readers \subseteq [admin : BOOLEAN, tags : SUBSET Tags]

\* OCR rates what it reads with a number; reading a document yields a number of
\* rows and of words, and the chunks of these words are within the bound.
ASSUME ContentAssumption ==
    \A d \in Docs :
      /\ Content[d].words \in Nat
      /\ \A i \in DOMAIN Pages(Content[d]) : Pages(Content[d])[i].conf \in Nat
      /\ \A answers \in [DOMAIN Pages(Content[d]) -> Answers] :
           LET result == IngestDocumentPipeline(Content[d], answers)
           IN  result.rows \in Nat /\ Len(ChunkText(result.words)) \in 0 .. MaxChunks

VARIABLES
    docs,          \* committed: the row of each document
    files,         \* the documents whose file is on disk
    points,        \* Qdrant: how many points there are of each chunk under each tag
    req,           \* the classification requests
    asked,         \* history: requests that assigned a tag to a document, flushed
    interrupted,   \* history: documents one of whose classifications was rolled back
    faults         \* number of faults so far

vars == <<docs, files, points, req, asked, interrupted, faults>>

ChunkNos == 1 .. MaxChunks
ProcessingStatuses == {"absent", "pending", "completed", "failed"}
Unclassified == "unclassified"

\* kb_documents; rows counts the document's rows of document_extractions.
Row == [status: ProcessingStatuses, tag: Tags \cup {Unclassified}, confirmed: BOOLEAN,
        chunks: 0 .. MaxChunks, rows: Nat]
NoRow == [status |-> "absent", tag |-> Unclassified, confirmed |-> FALSE, chunks |-> 0, rows |-> 0]

\* A request holds the row it loaded (seen), the row as it has it now (mine),
\* whether it changes only who classified the document or the notes
\* (annotates), and how far it has come with the chunks.
Idle == [at |-> "idle", doc |-> CHOOSE d \in Docs : TRUE, seen |-> NoRow, mine |-> NoRow,
         annotates |-> FALSE, todo |-> 0, next |-> 1, ingested |-> 0]

Init ==
    /\ docs = [d \in Docs |-> NoRow]
    /\ files = {}
    /\ points = [p \in Docs \X ChunkNos \X Tags |-> 0]
    /\ req = [h \in Requests |-> Idle]
    /\ asked = [p \in Docs \X Tags |-> 0]
    /\ interrupted = {}
    /\ faults = 0

Fault == faults < MaxFaults /\ faults' = faults + 1

-----------------------------------------------------------------------------
(* Upload *)

\* The row of a new document: no tag of the uploader's is accepted.
NewRow == [NoRow EXCEPT !.status = "pending"]

\* upload_file: too large a file is refused (413) and nothing is kept.
UploadFile(d) ==
    /\ d \notin files /\ docs[d] = NoRow
    /\ Content[d].bytes <= MaxBytes
    /\ files' = files \cup {d}
    /\ docs' = [docs EXCEPT ![d] = NewRow]
    /\ UNCHANGED <<points, req, asked, interrupted, faults>>

\* The file is written before the row is committed, and stays if that fails;
\* a second upload is another document.
UploadFails(d) ==
    /\ Fault
    /\ d \notin files /\ docs[d] = NoRow
    /\ Content[d].bytes <= MaxBytes
    /\ files' = files \cup {d}
    /\ UNCHANGED <<docs, points, req, asked, interrupted>>

\* The upload directory is not on a volume: it goes with the container.
LoseFiles ==
    /\ Fault
    /\ files # {}
    /\ files' = {}
    /\ UNCHANGED <<docs, points, req, asked, interrupted>>

-----------------------------------------------------------------------------
(* Classification *)

Working(h) == req[h].at # "idle"
Requested == Cardinality({h \in Requests : req[h].at = "loaded"})
               + FoldFunction(LAMBDA a, b : a + b, 0, asked)

\* Whether the first flush of a request has a column to write, and whether it
\* has written and so holds the row's lock.
Classifies(r) == r.annotates \/ r.mine.tag # r.seen.tag \/ ~ r.seen.confirmed
HoldsRow(h) == Working(h) /\ req[h].at # "loaded" /\ Classifies(req[h])
RowFree(d, h) == \A g \in Requests \ {h} : HoldsRow(g) => req[g].doc # d

\* Faulty variant: the document is not marked as reviewed.
LoadUnconfirmed(h, d, tag, annotates) ==
    /\ ~ Working(h)
    /\ docs[d] # NoRow
    /\ Requested < MaxClassify
    /\ annotates => docs[d].confirmed /\ docs[d].tag = tag
    /\ req' = [req EXCEPT ![h] = [Idle EXCEPT
                 !.at = "loaded", !.doc = d, !.seen = docs[d], !.annotates = annotates,
                 !.mine = [docs[d] EXCEPT !.tag = tag]]]
    /\ UNCHANGED <<docs, files, points, asked, interrupted, faults>>

\* classify_document up to its first flush: the row is read without a lock.
LoadDocument(h, d, tag, annotates) ==
    /\ ~ Working(h)
    /\ docs[d] # NoRow
    /\ Requested < MaxClassify
    /\ annotates => docs[d].confirmed /\ docs[d].tag = tag
    /\ req' = [req EXCEPT ![h] = [Idle EXCEPT
                 !.at = "loaded", !.doc = d, !.seen = docs[d], !.annotates = annotates,
                 !.mine = [docs[d] EXCEPT !.tag = tag, !.confirmed = TRUE]]]
    /\ UNCHANGED <<docs, files, points, asked, interrupted, faults>>

\* Faulty variant: the document is ingested with the tag it had when loaded.
FlushOldTag(h) ==
    LET r == req[h]
    IN  /\ r.at = "loaded"
        /\ Classifies(r) => RowFree(r.doc, h)
        /\ req' = [req EXCEPT ![h].at = IF r.seen.status \in {"pending", "completed"}
                                          THEN "tagged" ELSE "done",
                              ![h].mine.tag = IF r.seen.confirmed THEN r.seen.tag ELSE @]
        /\ asked' = [asked EXCEPT ![<<r.doc, r.mine.tag>>] = @ + 1]
        /\ UNCHANGED <<docs, files, points, interrupted, faults>>

\* The first flush.  It waits for the row's lock if a column has changed.  A
\* document that failed once keeps its new tag and is never ingested.
FlushTag(h) ==
    LET r == req[h]
    IN  /\ r.at = "loaded"
        /\ Classifies(r) => RowFree(r.doc, h)
        /\ req' = [req EXCEPT ![h].at = IF r.seen.status \in {"pending", "completed"}
                                          THEN "tagged" ELSE "done"]
        /\ asked' = [asked EXCEPT ![<<r.doc, r.mine.tag>>] = @ + 1]
        /\ UNCHANGED <<docs, files, points, interrupted, faults>>

\* ingest_document_pipeline up to the chunks.  A missing or unreadable file,
\* or malformed regions, raise; the rows added before that are kept.
ReadDocument(h, answers) ==
    LET r == req[h]
        result == IngestDocumentPipeline(Content[r.doc], answers)
        read == IF r.doc \in files THEN result ELSE [raises |-> TRUE, rows |-> 0, words |-> 0]
    IN  /\ r.at = "tagged"
        /\ req' = [req EXCEPT
             ![h].at = IF read.raises THEN "done" ELSE "ingesting",
             ![h].todo = IF read.raises THEN 0 ELSE Len(ChunkText(read.words)),
             ![h].mine.rows = r.seen.rows + read.rows,
             ![h].mine.status = IF read.raises THEN "failed" ELSE @]
        /\ UNCHANGED <<docs, files, points, asked, interrupted, faults>>

\* RAGService.ingest_document without a client or a collection: no chunk.
QdrantUnavailable(h) ==
    /\ Fault
    /\ req[h].at = "ingesting" /\ req[h].next = 1 /\ req[h].todo > 0
    /\ req' = [req EXCEPT ![h].todo = 0]
    /\ UNCHANGED <<docs, files, points, asked, interrupted>>

\* Faulty variant: the loop goes one chunk too far.
OneChunkMore(h) ==
    LET r == req[h]
    IN  /\ r.at = "ingesting" /\ r.next <= r.todo + 1
        /\ req' = [req EXCEPT ![h].next = @ + 1, ![h].ingested = @ + 1]
        /\ UNCHANGED <<docs, files, points, asked, interrupted, faults>>

\* One turn of the loop over the chunks: embed, upsert, count.
IngestChunk(h) ==
    LET r == req[h]
    IN  /\ r.at = "ingesting" /\ r.next <= r.todo
        /\ points' = [points EXCEPT ![<<r.doc, r.next, r.mine.tag>>] = @ + 1]
        /\ req' = [req EXCEPT ![h].next = @ + 1, ![h].ingested = @ + 1]
        /\ UNCHANGED <<docs, files, asked, interrupted, faults>>

\* Faulty variant: a chunk is counted although it was not stored.
CountSkipped(h) ==
    /\ Fault
    /\ req[h].at = "ingesting" /\ req[h].next <= req[h].todo
    /\ req' = [req EXCEPT ![h].next = @ + 1, ![h].ingested = @ + 1]
    /\ UNCHANGED <<docs, files, points, asked, interrupted>>

\* A chunk whose embedding or upsert raises is logged and left out.
SkipChunk(h) ==
    /\ Fault
    /\ req[h].at = "ingesting" /\ req[h].next <= req[h].todo
    /\ req' = [req EXCEPT ![h].next = @ + 1]
    /\ UNCHANGED <<docs, files, points, asked, interrupted>>

\* The loop is over: the outcome is flushed with the row.
CompleteDocument(h) ==
    LET r == req[h]
    IN  /\ r.at = "ingesting" /\ r.next > r.todo
        /\ req' = [req EXCEPT ![h].at = "done", ![h].mine.status = "completed",
                              ![h].mine.chunks = r.ingested]
        /\ UNCHANGED <<docs, files, points, asked, interrupted, faults>>

\* Only the columns that differ from what was loaded are written.
Written(row, seen, mine) ==
    [c \in DOMAIN row |-> IF c = "rows" THEN row.rows + (mine.rows - seen.rows)
                          ELSE IF mine[c] = seen[c] THEN row[c] ELSE mine[c]]

\* The last flush, and the commit at the end of the request.
CommitClassify(h) ==
    LET r == req[h]
    IN  /\ r.at = "done"
        /\ r.mine = r.seen \/ RowFree(r.doc, h)
        /\ docs' = [docs EXCEPT ![r.doc] = Written(@, r.seen, r.mine)]
        /\ req' = [req EXCEPT ![h] = Idle]
        /\ UNCHANGED <<files, points, asked, interrupted, faults>>

\* A crash or a database error: the row is rolled back, the points are not.
RollBack(h) ==
    /\ Fault
    /\ Working(h)
    /\ req' = [req EXCEPT ![h] = Idle]
    /\ interrupted' = interrupted \cup {req[h].doc}
    /\ UNCHANGED <<docs, files, points, asked>>

-----------------------------------------------------------------------------
(* Search.  A hit is one copy of a point. *)

Hits == {<<p, n>> : p \in DOMAIN points, n \in 1 .. MaxClassify}
Stored == {hit \in Hits : hit[2] <= points[hit[1]]}
DocOf(hit) == hit[1][1]
ChunkOf(hit) == hit[1][2]
TagOf(hit) == hit[1][3]
IsPromptInjection(hit) == <<DocOf(hit), ChunkOf(hit)>> \in Suspicious

\* rag_query: the tags of the user, narrowed by those the request names.
EffectiveTags(reader, filter) ==
    LET own == IF reader.admin THEN {"*"} ELSE IF reader.tags = {} THEN {"general"} ELSE reader.tags
    IN  IF filter = {} THEN own ELSE {t \in filter : t \in own \/ "*" \in own}

Accessible(tags) == {hit \in Stored : "*" \in tags \/ TagOf(hit) \in tags}

\* Faulty variant: the best hits are taken first and filtered afterwards.
FilterLast(tags, topK) ==
    LET best == kSubset(LeastOf(topK, Cardinality(Stored)), Stored)
    IN  {{hit \in raw : hit \in Accessible(tags) /\ ~ IsPromptInjection(hit)} : raw \in best}

\* RAGService.search: the hits with the best scores, any of those the filter
\* lets through, and of them the ones that pass the screening.
Search(tags, topK) ==
    LET best == kSubset(LeastOf(topK, Cardinality(Accessible(tags))), Accessible(tags))
    IN  {{hit \in raw : ~ IsPromptInjection(hit)} : raw \in best}

\* query_with_answer: without a hit nothing is asked; without a model the
\* hits come without an answer; a failing model fails the request.
Replies(reader, filter, topK) ==
    LET found == Search(EffectiveTags(reader, filter), topK) \cup {{}}
        answered(hits) == {[hits |-> hits, cited |-> c, verified |-> TRUE] : c \in SUBSET hits}
        plain(hits) == {[hits |-> hits, cited |-> {}, verified |-> FALSE]}
    IN  UNION {IF hits = {} THEN plain(hits) ELSE plain(hits) \cup answered(hits) : hits \in found}

-----------------------------------------------------------------------------
Next ==
    \/ \E d \in Docs : UploadFile(d) \/ UploadFails(d)
    \/ LoseFiles
    \/ \E h \in Requests :
         \/ \E d \in Docs, t \in Tags, annotates \in BOOLEAN : LoadDocument(h, d, t, annotates)
         \/ \E a \in [DOMAIN Pages(Content[req[h].doc]) -> Answers] : ReadDocument(h, a)
         \/ FlushTag(h) \/ QdrantUnavailable(h) \/ IngestChunk(h) \/ SkipChunk(h)
         \/ CompleteDocument(h) \/ CommitClassify(h) \/ RollBack(h)

Spec == Init /\ [][Next]_vars

-----------------------------------------------------------------------------
(* Every variable has its type. *)
TypeOK ==
    /\ docs \in [Docs -> Row]
    /\ files \subseteq Docs
    /\ points \in [Docs \X ChunkNos \X Tags -> Nat]
    /\ req \in [Requests ->
         [at: {"idle", "loaded", "tagged", "ingesting", "done"}, doc: Docs, seen: Row, mine: Row,
          annotates: BOOLEAN, todo: 0 .. MaxChunks, next: 1 .. MaxChunks + 1, ingested: 0 .. MaxChunks]]
    /\ asked \in [Docs \X Tags -> Nat]
    /\ interrupted \subseteq Docs
    /\ faults \in 0 .. MaxFaults

\* A chunk is in Qdrant under a tag at most once for every classification that
\* assigned this tag to its document (api.py:180-190): whatever requests run
\* at once, fail half way or are rolled back, nothing is indexed under a tag
\* no administrator gave the document, and no request indexes a chunk twice.
IndexedOncePerRequest ==
    \A d \in Docs, k \in ChunkNos, t \in Tags : points[<<d, k, t>>] <= asked[<<d, t>>]

\* A document that waits for its review has points only of a classification
\* that is still open or was rolled back (api.py:48-49, 76-77, 186).
UnreviewedNotIndexed ==
    \A d \in Docs : ~ docs[d].confirmed =>
        \/ \A k \in ChunkNos, t \in Tags : points[<<d, k, t>>] = 0
        \/ d \in interrupted
        \/ \E h \in Requests : Working(h) /\ req[h].doc = d

\* A completed text document whose chunk count is that of its text has every
\* word of it in some point: no failed embedding, overlapping request or
\* rollback makes a count that hides a missing part (rag.py:222-249,
\* api.py:191-193, pipeline.py:19-30).
FullCountIsSearchable ==
    \A d \in Docs :
        LET chunks == ChunkText(Content[d].words)
        IN  /\ docs[d].status = "completed" /\ Content[d].kind = "text"
            /\ docs[d].chunks = Len(chunks)
            => \A w \in 1 .. Content[d].words :
                 \E k \in DOMAIN chunks, t \in Tags :
                   /\ w \in chunks[k].first .. chunks[k].last
                   /\ points[<<d, k, t>>] > 0

\* What a reader gets: every hit carries a tag the reader holds and an
\* administrator gave to that document, none matches an injection pattern, an
\* answer that counts as verified has hits and cites only those, and hits the
\* reader may not see never crowd out the ones he may (FR5.2, rag.py:275-315).
AnswersHonourTags ==
    \A reader \in Readers, filter \in SUBSET Tags, topK \in 1 .. 2 :
      LET tags == EffectiveTags(reader, filter)
          suspect == {hit \in Accessible(tags) : IsPromptInjection(hit)}
      IN  /\ \A r \in Replies(reader, filter, topK) :
               /\ \A hit \in r.hits : /\ asked[<<DocOf(hit), TagOf(hit)>>] > 0
                                      /\ \/ reader.admin \/ TagOf(hit) \in reader.tags
                                         \/ reader.tags = {} /\ TagOf(hit) = "general"
                                      /\ ~ IsPromptInjection(hit)
               /\ r.verified => r.hits # {} /\ r.cited \subseteq r.hits
          /\ \A found \in Search(tags, topK) :
               Cardinality(found) >= LeastOf(topK, Cardinality(Accessible(tags))) - Cardinality(suspect)

\* What the rows of a page owe to its readings, OCR's first: a page somebody
\* could read has a row; if both could, the row keeps the text of the more
\* confident reader (OCR when they tie) and is marked, and rated lower than the
\* reading alone would be, exactly when the two differ.
RowsReflect(read, rows) ==
    LET texts == {read[n].value : n \in DOMAIN read}
        surest == {read[n] : n \in {m \in DOMAIN read :
                                      \A o \in DOMAIN read : read[o].conf <= read[m].conf}}
    IN  /\ rows = {} <=> texts = {}
        /\ \A row \in rows :
             /\ row.value \in {e.value : e \in surest}
             /\ row.value = read[1].value \/ read[1] \notin surest
             /\ row.conflict <=> Cardinality(texts) = 2
             /\ Len(read) = 2 =>
                  row.overall = 3 * read[1].conf + 670 - IF row.conflict THEN 100 ELSE 0

\* The Evidence Resolver against FR4.2, on every page of every document users
\* have uploaded and every answer of the vision model (rag.py:118-162,
\* pipeline.py:144-166).
DisagreementsFlagged ==
    \A d \in Docs : docs[d] # NoRow =>
      \A i \in DOMAIN Pages(Content[d]), answer \in Answers :
        LET page == Pages(Content[d])[i]
        IN  RowsReflect(OcrExtractions(page) \o VisionExtractions(page, answer),
                        PageRows(page, answer))
=============================================================================
