------------------------------ MODULE MCSearch ------------------------------
(* Two documents of a file, a second file that either may be linked to, two   *)
(* chunks in the first document and one in the second.  The second version of *)
(* every chunk ranks differently, and some ranks are equal.                   *)
EXTENDS Search, TLC

MCDocs == 1 .. 2
MCFiles == 3 .. 4
MCParagraphs == 5 .. 6
MCChunks == 7 .. 9
MCDocOf == (5 :> 1) @@ (6 :> 2) @@ (7 :> 1) @@ (8 :> 1) @@ (9 :> 2)
MCParagraphOf == (7 :> 5) @@ (8 :> 5) @@ (9 :> 6)
MCOrder == (7 :> 1) @@ (8 :> 1) @@ (9 :> 0)
MCSimilarity ==
  << <<2, 2>>, <<1, 1>>, <<1, 1>>, <<2, 2>>, <<1, 1>>, <<2, 2>> >> @@ (7 :> <<1, 2>>) @@ (8 :> <<2, 0>>) @@ (9 :> <<1, 2>>)
MCRelevance == (7 :> <<1, 0>>) @@ (8 :> <<1, 1>>) @@ (9 :> <<0, 1>>)

MCStarts == {[owner |-> <<3, 3, None, None>>, embedded |-> 1 .. 9]}
MCOwners == {None, 1, 3, 4}

Plain == [text |-> FALSE, vector |-> FALSE, hybrid |-> FALSE, lexical |-> FALSE,
          semantic |-> FALSE, refine |-> FALSE, threshold |-> 1, candidateLimit |-> 9,
          limit |-> 2]
Refining == [Plain EXCEPT !.vector = TRUE, !.refine = TRUE]

MCQueries ==
  {Plain,
   [Plain EXCEPT !.text = TRUE],
   [Plain EXCEPT !.vector = TRUE],
   [Plain EXCEPT !.text = TRUE, !.hybrid = TRUE],
   [Plain EXCEPT !.text = TRUE, !.hybrid = TRUE, !.lexical = TRUE],
   Refining,
   [Refining EXCEPT !.limit = 1, !.threshold = 2],
   [Refining EXCEPT !.limit = 6, !.threshold = 0],
   [Refining EXCEPT !.candidateLimit = 2]}
=============================================================================
