-------------------------- MODULE DocumentPipeline --------------------------
(***************************************************************************)
(* What knowledge_service/pipeline.py makes of one uploaded document: the  *)
(* reading of its pages by OCR and by the vision model, the Evidence       *)
(* Resolver that merges the two readings (rag.py, FR4.2), and the chunks   *)
(* that are embedded.  Pure operators; KnowledgeBase uses them.            *)
(*                                                                         *)
(* A text is an identity and a number of words; a confidence is an integer *)
(* number of hundredths.  What OCR reads is part of a document; what the   *)
(* vision model answers is an argument, for it may differ on every call.   *)
(***************************************************************************)
EXTENDS Integers, Sequences, SequencesExt

CONSTANTS ChunkSize,   \* words in a chunk (500 in the code)
          Overlap,     \* words a chunk shares with the next (50)
          ShortText    \* an embedded text with fewer words is not relied on (40 characters)

ASSUME ChunkAssumption == ChunkSize \in Nat /\ Overlap \in Nat /\ Overlap < ChunkSize

NoText == [id |-> "none", words |-> 0]

LeastOf(a, b) == IF a <= b THEN a ELSE b

-----------------------------------------------------------------------------
(* Chunks: the k-th chunk starts Step words after the one before it. *)

Step == ChunkSize - Overlap

\* The chunks of a text of n words, as the words they hold.
ChunkText(n) ==
  [k \in 1 .. (n + Step - 1) \div Step |->
     [first |-> (k - 1) * Step + 1,
      last |-> LeastOf(n, (k - 1) * Step + ChunkSize)]]

-----------------------------------------------------------------------------
(* The Evidence Resolver: extractions are [field, value, conf] records. *)

Merged(ext, method, quality, certainty, consistency) ==
  [value |-> ext.value, method |-> method, quality |-> quality, certainty |-> certainty,
   consistency |-> consistency, agreement |-> 100, conflict |-> FALSE]

Put(merged, field, e) == [f \in DOMAIN merged \cup {field} |->
                            IF f = field THEN e ELSE merged[f]]

AddOcr(merged, ext) == Put(merged, ext.field, Merged(ext, "ocr", ext.conf, 90, 100))

\* Faulty variant: the losing vision value is dropped without a note.
SilentlyPrefer(e, ext) ==
  IF e.value = ext.value THEN [e EXCEPT !.agreement = 100, !.method = "hybrid"]
  ELSE IF ext.conf > e.quality
         THEN [e EXCEPT !.value = ext.value, !.method = "hybrid",
                        !.agreement = 50, !.conflict = TRUE]
         ELSE e

Reconcile(e, ext) ==
  IF e.value = ext.value THEN [e EXCEPT !.agreement = 100, !.method = "hybrid"]
  ELSE LET noted == [e EXCEPT !.agreement = 50, !.conflict = TRUE]
       IN  IF ext.conf > e.quality
             THEN [noted EXCEPT !.value = ext.value, !.method = "hybrid"]
             ELSE noted

AddVision(merged, ext) ==
  Put(merged, ext.field,
      IF ext.field \in DOMAIN merged THEN Reconcile(merged[ext.field], ext)
                                     ELSE Merged(ext, "vision_llm", 0, 80, 90))

\* The overall confidence of a field, in thousandths (FR4.3).
Overall(e) == 3 * e.quality + 3 * e.certainty + 2 * e.consistency + 2 * e.agreement

Resolve(ocr, vision) ==
  FoldLeft(AddVision, FoldLeft(AddOcr, << >>, ocr), vision)

-----------------------------------------------------------------------------
(* Pages: [embedded, image, ocr, conf]; the vision model's answer for a    *)
(* page is [regions, text], regions a sequence of kinds in which           *)
(* "malformed" is an element that is not an object.                        *)

RegionTypes == {"text", "table", "diagram", "handwriting", "photo"}
NeedVision == RegionTypes \ {"text"}
NoAnswer == <<"no answer">>

\* Without an answer, or with one that holds no list, the page is text.
ClassifyPageRegions(page, answer) ==
  IF page.image /\ answer.regions # NoAnswer THEN answer.regions ELSE <<"text">>

\* The search for a region that needs the vision model stops at the first it
\* finds, and fails at an element that is not an object.
Malformed(regions) ==
  \E i \in DOMAIN regions : /\ regions[i] = "malformed"
                            /\ \A j \in 1 .. i - 1 : regions[j] \notin NeedVision

VisionText(page, answer) ==
  LET regions == ClassifyPageRegions(page, answer)
      wanted == \/ \E i \in DOMAIN regions : regions[i] \in NeedVision
                \/ page.embedded.words < ShortText
  IN  IF page.image /\ wanted THEN answer.text ELSE NoText

PrimaryRegion(regions) ==
  IF regions # << >> /\ Head(regions) \in RegionTypes THEN Head(regions) ELSE "text"

Extraction(text, conf) == [field |-> "page_text", value |-> text, conf |-> conf]

OcrExtractions(page) ==
  IF page.ocr # NoText THEN <<Extraction(page.ocr, page.conf)>>
  ELSE IF page.embedded.words > 0 THEN <<Extraction(page.embedded, 85)>>
  ELSE << >>

VisionExtractions(page, answer) ==
  LET text == VisionText(page, answer)
  IN  IF text = NoText THEN << >> ELSE <<Extraction(text, 75)>>

ResolvePage(page, answer) ==
  Resolve(OcrExtractions(page), VisionExtractions(page, answer))

\* The DocumentExtraction rows of a page.
PageRows(page, answer) ==
  LET resolved == ResolvePage(page, answer)
  IN  {[field |-> f, region |-> PrimaryRegion(ClassifyPageRegions(page, answer)),
        value |-> resolved[f].value, method |-> resolved[f].method,
        conflict |-> resolved[f].conflict, overall |-> Overall(resolved[f])]
         : f \in DOMAIN resolved}

HeaderWords == 4   \* "--- Page n ---"

\* The words a page adds to the text that is chunked: its row's value, or the
\* embedded text when there is no row.
PageWords(page, answer) ==
  LET rows == PageRows(page, answer)
      value == IF rows # {} THEN (CHOOSE r \in rows : TRUE).value ELSE page.embedded
  IN  IF value = NoText THEN 0 ELSE HeaderWords + value.words

-----------------------------------------------------------------------------
(* Documents: [kind, words, embedded, images], images a sequence of        *)
(* [ocr, conf].  Office files other than docx have no branch of their own  *)
(* and get one page without text.                                          *)

Pages(doc) ==
  LET count == Max({1, Len(doc.embedded), Len(doc.images)})
  IN  [i \in 1 .. count |->
         [embedded |-> IF i <= Len(doc.embedded) THEN doc.embedded[i] ELSE NoText,
          image |-> i <= Len(doc.images),
          ocr |-> IF i <= Len(doc.images) THEN doc.images[i].ocr ELSE NoText,
          conf |-> IF i <= Len(doc.images) THEN doc.images[i].conf ELSE 0]]

\* The pages that are read before one whose regions are malformed.
PagesRead(doc, answers) ==
  {i \in DOMAIN Pages(doc) :
     \A j \in 1 .. i : ~ Malformed(ClassifyPageRegions(Pages(doc)[j], answers[j]))}

\* The outcome of reading a document: whether it raises, the number of rows
\* it has added to the session by then, and the words to be chunked.
IngestDocumentPipeline(doc, answers) ==
  LET pages == Pages(doc)
      read == PagesRead(doc, answers)
      rows == MapThenSumSet(LAMBDA i : Cardinality(PageRows(pages[i], answers[i])), read)
      words == MapThenSumSet(LAMBDA i : PageWords(pages[i], answers[i]), read)
  IN  CASE doc.kind = "unreadable" -> [raises |-> TRUE, rows |-> 0, words |-> 0]
        [] doc.kind = "text" -> [raises |-> FALSE, rows |-> 0, words |-> doc.words]
        [] OTHER -> [raises |-> read # DOMAIN pages, rows |-> rows, words |-> words]
=============================================================================
