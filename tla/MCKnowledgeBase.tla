-------------------------- MODULE MCKnowledgeBase ---------------------------
(***************************************************************************)
(* Instance of KnowledgeBase for TLC: a text of two overlapping chunks and *)
(* a scan of two pages, queried by an administrator and by two users.      *)
(***************************************************************************)
EXTENDS KnowledgeBase

CONSTANTS d1, d2

Text(id, n) == [id |-> id, words |-> n]

DocContent ==
  d1 :> [kind |-> "text", bytes |-> 1, words |-> 9, embedded |-> << >>, images |-> << >>] @@
  d2 :> [kind |-> "pdf", bytes |-> 2, words |-> 0, embedded |-> <<Text("layer", 1)>>,
         images |-> <<[ocr |-> Text("scan", 1), conf |-> 60], [ocr |-> Text("scan", 1), conf |-> 80]>>]

VisionAnswers ==
  {[regions |-> <<"table">>, text |-> Text("scan", 1)],
   [regions |-> <<"text">>, text |-> Text("other", 2)],
   [regions |-> <<"text", "malformed">>, text |-> NoText],
   [regions |-> NoAnswer, text |-> NoText]}

SuspiciousChunks == {<<d1, 2>>}

Users == {[admin |-> TRUE, tags |-> {}], [admin |-> FALSE, tags |-> {"finance"}],
          [admin |-> FALSE, tags |-> {}]}

Symmetry == Permutations(Requests)
=============================================================================
