------------------------------- MODULE Search -------------------------------
(***************************************************************************)
(* chunk_query_search: RuntimeSearchBoundary of query/runtime_boundary.py, *)
(* with the mode a query compiles to (query/compiler.py), the paged        *)
(* statements (query/semantic.py, query/full_text.py) and the hierarchical *)
(* search that semantic_refinement turns on.                               *)
(*                                                                         *)
(* A hierarchical search is a loop over its candidates with up to two      *)
(* statements for each.  Every statement is awaited and reads what is      *)
(* committed then, so the rows change between them.                        *)
(***************************************************************************)
EXTENDS Integers, Sequences, FiniteSets

CONSTANTS
  Docs, Files, Paragraphs, Chunks,
  DocOf,        \* document_id of paragraphs and chunks
  ParagraphOf,  \* paragraph_id of chunks
  Order,        \* order_index of chunks
  Similarity,   \* similarity to the query of each entity's vector, by version
  Relevance,    \* full-text rank of each version of a chunk, 0 for no match
  Starts,       \* owner_id and embedded entities of the database at the start
  Owners,       \* owners that documents and files can be given
  Queries,      \* the requests callers make
  None,
  MaxWrites     \* bound: writes of others

Versions == 1 .. 2
Entities == Docs \cup Files \cup Paragraphs \cup Chunks

\* What a caller sends: text and embedding given or not, hybrid_search, a non-zero
\* bm25_weight, an explicit positive semantic_weight, the paging and the refinement.
\* A limit is at least 1.
Query == [text : BOOLEAN, vector : BOOLEAN, hybrid : BOOLEAN, lexical : BOOLEAN,
          semantic : BOOLEAN, refine : BOOLEAN, threshold : Nat,
          candidateLimit : Nat \ {0}, limit : Nat \ {0}]

\* Ids are compared within one level only, and levels by name, so the entities can
\* be numbered level by level.
ASSUME SearchAssumption ==
  /\ Entities \subseteq Nat \ {0} /\ IsFiniteSet(Entities) /\ None \notin Entities \cup Versions
  /\ \A d \in Docs, e \in Files \cup Paragraphs \cup Chunks : d < e
  /\ \A f \in Files, e \in Paragraphs \cup Chunks : f < e
  /\ \A p \in Paragraphs, c \in Chunks : p < c
  /\ DocOf \in [Paragraphs \cup Chunks -> Docs]
  /\ ParagraphOf \in [Chunks -> Paragraphs]
  /\ \A c \in Chunks : DocOf[c] = DocOf[ParagraphOf[c]]
  /\ Order \in [Chunks -> Nat]
  /\ Similarity \in [Entities -> [Versions -> Nat]]
  /\ Relevance \in [Chunks -> [Versions -> Nat]]
  /\ MaxWrites \in Nat
  /\ \A s \in Starts : s.owner \in [Docs \cup Files -> Owners]
  /\ Queries \subseteq Query /\ None \notin Query

VARIABLES
  owner,    \* owner_id of documents and files
  live,     \* rows whose deleted_at is null
  current,  \* the selected version of each chunk
  vector,   \* the version the active vector was made of, or None
  search,   \* the call: its query and the locals of the boundary
  touched,  \* history: a row changed since the call began
  offered,  \* history: everything merged into the window
  writes    \* what is left of MaxWrites

rows == <<owner, live, current, vector>>
vars == <<rows, search, touched, offered, writes>>

Init ==
  /\ \E s \in Starts :
       /\ owner = s.owner
       /\ vector = [e \in Entities |-> IF e \in s.embedded THEN 1 ELSE None]
  /\ live = Entities
  /\ current = [e \in Entities |-> 1]
  /\ search = [pc |-> "idle", asked |-> None, q |-> None, offset |-> 0, shown |-> <<>>,
               queue |-> {}, primary |-> {}, at |-> None, window |-> {},
               scope |-> [e \in {} |-> None]]
  /\ touched = FALSE
  /\ offered = {}
  /\ writes = MaxWrites

-----------------------------------------------------------------------------
(* What a request becomes.                                                  *)

\* _query_with_runtime_embedding
WantsEmbedding(q) == q.text /\ ~q.vector /\ (q.hybrid \/ q.semantic)

\* The query it returns: without a lexical part the text is dropped.
Embedded(q) ==
  IF q.hybrid /\ q.lexical THEN [q EXCEPT !.vector = TRUE]
  ELSE [q EXCEPT !.vector = TRUE, !.text = FALSE, !.hybrid = FALSE]

\* compile_query, and the modes __call__ executes.
Failed(q) == (q.hybrid /\ ~(q.text /\ q.vector)) \/ (q.text /\ q.vector)
Mode(q) == IF q.text THEN "full_text" ELSE IF q.vector THEN "semantic" ELSE "structured"

Planned(q) ==
  IF Failed(q) THEN "failed"
  ELSE IF Mode(q) = "semantic" /\ q.refine THEN "primary" ELSE "page"

-----------------------------------------------------------------------------
(* Paged statements.                                                        *)

\* The join of a chunk with its active vector: made of the current version.
CurrentVector(e) == vector[e] # None /\ vector[e] = current[e]

Score(e) == Similarity[e][vector[e]]

\* Mutant of Matches: the vector may be of another version than the text shown.
MatchesOfAnyVersion(q) ==
  {c \in Chunks \cap live :
     CASE Mode(q) = "full_text" -> Relevance[c][current[c]] > 0
       [] Mode(q) = "semantic" -> vector[c] # None
       [] Mode(q) = "structured" -> TRUE}

\* The WHERE clauses, the caller's own predicates and min_score aside.
Matches(q) ==
  {c \in Chunks \cap live :
     CASE Mode(q) = "full_text" -> Relevance[c][current[c]] > 0
       [] Mode(q) = "semantic" -> CurrentVector(c)
       [] Mode(q) = "structured" -> TRUE}

\* What the rows are ordered by first. Documents are numbered as they were created.
Rank(q, c) ==
  CASE Mode(q) = "full_text" -> -Relevance[c][current[c]]
    [] Mode(q) = "semantic" -> -Score(c)
    [] Mode(q) = "structured" -> DocOf[c]

\* ORDER BY that, then order_index and id.
Precedes(q, c, d) ==
  \/ Rank(q, c) < Rank(q, d)
  \/ Rank(q, c) = Rank(q, d) /\ Order[c] < Order[d]
  \/ Rank(q, c) = Rank(q, d) /\ Order[c] = Order[d] /\ c < d

\* Mutant of PageRows: rows of equal rank come in another order on each page.
PageRowsWithTies(q, offset) ==
  LET Position(c) == Cardinality({d \in Matches(q) : \/ Rank(q, d) < Rank(q, c)
                                                      \/ /\ Rank(q, d) = Rank(q, c)
                                                         /\ IF offset = 0 THEN d < c ELSE c < d})
  IN {c \in Matches(q) : Position(c) \in offset .. offset + q.limit - 1}

\* LIMIT and OFFSET
PageRows(q, offset) ==
  LET Position(c) == Cardinality({d \in Matches(q) : Precedes(q, d, c)})
  IN {c \in Matches(q) : Position(c) \in offset .. offset + q.limit - 1}

-----------------------------------------------------------------------------
(* The statements of a hierarchical search. Each returns items: an entity   *)
(* with the score it had.                                                   *)

Item == [e : Entities, score : Nat]

Better(x, y) == x.score > y.score \/ (x.score = y.score /\ x.e < y.e)

\* The first n in an order.
First(S, n, Before(_, _)) == {x \in S : Cardinality({y \in S : Before(y, x)}) < n}

\* Rows of the UNION above the threshold.
Hits(levels, threshold) ==
  {[e |-> e, score |-> Score(e)] :
     e \in {x \in levels \cap live : CurrentVector(x) /\ Score(x) >= threshold}}

\* Mutant of PrimaryCandidates: the limit is left to the window.
PrimaryCandidatesUncut(q) == Hits(Entities, q.threshold)

\* _hierarchical_primary_candidates
PrimaryCandidates(q) == First(Hits(Entities, q.threshold), q.candidateLimit, Better)

InScope(e, scope) ==
  \A key \in DOMAIN scope :
    CASE key = "document" -> DocOf[e] = scope[key]
      [] key = "file" -> owner[DocOf[e]] = scope[key]
      [] key = "paragraph" -> (IF e \in Chunks THEN ParagraphOf[e] ELSE e) = scope[key]

\* Chunks come before paragraphs of the same score.
ChildBetter(x, y) ==
  \/ x.score > y.score
  \/ x.score = y.score /\ x.e \in Chunks /\ y.e \notin Chunks
  \/ x.score = y.score /\ (x.e \in Chunks <=> y.e \in Chunks) /\ x.e < y.e

\* _hierarchical_children
Children(q, scope) ==
  First({x \in Hits(Chunks \cup Paragraphs, q.threshold) : InScope(x.e, scope)},
        q.limit, ChildBetter)

\* Mutant of LinkedFiles: any file with a vector.
AllFiles(d) == {f \in Files \cap live : d \in live /\ CurrentVector(f)}

\* The files _closest_file_for_document joins with.
LinkedFiles(d) ==
  {f \in Files \cap live : d \in live /\ (f = owner[d] \/ owner[f] = d) /\ CurrentVector(f)}

\* The documents of _closest_document_for_file.
LinkedDocuments(f) == {d \in Docs \cap live : owner[d] = f /\ CurrentVector(d)}

\* ORDER BY similarity DESC LIMIT 1, with nothing to decide between equals.
Closest(S) == IF S = {} THEN {None} ELSE {e \in S : \A x \in S : Score(x) <= Score(e)}

-----------------------------------------------------------------------------
(* The result window.                                                       *)

\* Mutant of Merged: what is in the window already keeps its score.
MergedKeepingFirst(window, additions, n) ==
  First(window \cup {x \in additions : \A y \in window : y.e # x.e}, n, Better)

\* _merge_window
Merged(window, additions, n) ==
  LET all == window \cup additions
  IN First({x \in all : \A y \in all : y.e = x.e => y.score <= x.score}, n, Better)

Merge(additions) ==
  /\ search' = [search EXCEPT !.pc = "next", !.window = Merged(@, additions, search.q.limit)]
  /\ offered' = offered \cup additions

-----------------------------------------------------------------------------
(* The call.                                                                *)

Undisturbed == UNCHANGED <<rows, writes>>

Received(q, offset, shown) ==
  [search EXCEPT !.asked = q, !.q = q, !.offset = offset, !.shown = shown,
                 !.pc = IF WantsEmbedding(q) THEN "embed" ELSE Planned(q)]

Ask(q) ==
  /\ search.pc = "idle"
  /\ search' = Received(q, 0, <<>>)
  /\ touched' = FALSE
  /\ UNCHANGED offered /\ Undisturbed

\* _embed_query_text, whose failure fails the call.
Embed ==
  /\ search.pc = "embed"
  /\ \/ search' = [search EXCEPT !.q = Embedded(@), !.pc = Planned(Embedded(search.q))]
     \/ search' = [search EXCEPT !.pc = "failed"]
  /\ UNCHANGED <<touched, offered>> /\ Undisturbed

\* FullTextExecutor, the plain _execute_semantic, or _execute_structured. The caller
\* asks for the next page until one is empty.
Page ==
  /\ search.pc = "page"
  /\ \E found \in {PageRows(search.q, search.offset)} :
     LET position(c) == Cardinality({d \in found : Precedes(search.q, d, c)})
         page == [i \in 1 .. Cardinality(found) |-> CHOOSE c \in found : position(c) = i - 1]
     IN search' = IF found = {} THEN [search EXCEPT !.pc = "done"]
                  ELSE Received(search.asked, search.offset + search.q.limit, search.shown \o page)
  /\ UNCHANGED <<touched, offered>> /\ Undisturbed

Primary ==
  /\ search.pc = "primary"
  /\ \E found \in {PrimaryCandidates(search.q)} :
       search' = [search EXCEPT !.pc = "next", !.queue = found, !.primary = found]
  /\ UNCHANGED <<touched, offered>> /\ Undisturbed

\* Mutant of Finished: the loop ends once the window is full of items that outrank
\* the last candidate.
FinishedWhenFull ==
  \/ search.queue = {}
  \/ /\ Cardinality(search.window) >= search.q.limit
     /\ \E x \in search.primary : \A y \in search.window : y.score >= x.score

\* The loop goes through every candidate: the test at its end only continues it.
Finished == search.queue = {}

Finish ==
  /\ search.pc = "next" /\ Finished
  /\ search' = [search EXCEPT !.pc = "done"]
  /\ UNCHANGED <<touched, offered>> /\ Undisturbed

\* Mutant of Taken: a candidate stays in the list it was taken from.
TakenAgain(x) == [search EXCEPT !.at = x]

Taken(x) == [search EXCEPT !.queue = @ \ {x}, !.at = x]

IsNext(x) == x \in search.queue /\ \A y \in search.queue : ~Better(y, x)

\* The next candidate. A chunk is merged as it is, the others are refined.
Candidate ==
  /\ search.pc = "next" /\ ~Finished
  /\ \E x \in search.queue :
       /\ IsNext(x)
       /\ IF x.e \in Chunks THEN
            /\ search' = [Taken(x) EXCEPT !.window = Merged(@, {x}, search.q.limit)]
            /\ offered' = offered \cup {x}
          ELSE
            /\ search' = [Taken(x) EXCEPT
                 !.pc = IF x.e \in Paragraphs THEN "children" ELSE "closest",
                 !.scope = CASE x.e \in Paragraphs -> [key \in {"paragraph"} |-> x.e]
                             [] x.e \in Docs -> [key \in {"document"} |-> x.e]
                             [] x.e \in Files -> [key \in {"file"} |-> x.e]]
            /\ UNCHANGED offered
  /\ UNCHANGED touched /\ Undisturbed

\* _closest_file_for_document, _closest_document_for_file: one more key of the scope.
Link ==
  /\ search.pc = "closest"
  /\ LET x == search.at.e
         found == IF x \in Docs THEN LinkedFiles(x) ELSE LinkedDocuments(x)
         key == IF x \in Docs THEN "file" ELSE "document"
     IN \E e \in Closest(found) :
          search' = [search EXCEPT !.pc = "children",
            !.scope = IF e = None THEN @
                      ELSE [k \in DOMAIN @ \cup {key} |-> IF k = key THEN e ELSE @[k]]]
  /\ UNCHANGED <<touched, offered>> /\ Undisturbed

\* The children, or the candidate itself if there are none, are merged.
Refine ==
  /\ search.pc = "children"
  /\ \E found \in {Children(search.q, search.scope)} :
       Merge(IF found = {} THEN {search.at} ELSE found)
  /\ UNCHANGED touched /\ Undisturbed

-----------------------------------------------------------------------------
(* Writes of others, each a transaction that other modules have in full;     *)
(* what happens after the answer is left out.                               *)

Write ==
  /\ writes > 0 /\ search.pc \notin {"done", "failed"}
  /\ writes' = writes - 1
  /\ touched' = TRUE
  /\ UNCHANGED <<search, offered>>

\* The worker activates a vector of the version it read, which may be another by now.
Vectorize(e, v) ==
  /\ v # vector[e] /\ (v = current[e] \/ e \in Chunks)
  /\ vector' = [vector EXCEPT ![e] = v]
  /\ UNCHANGED <<owner, live, current>> /\ Write

\* Another version of a chunk is appended or selected: its vector and those of its
\* containers are withdrawn.
SelectVersion(c) ==
  /\ current' = [current EXCEPT ![c] = 3 - @]
  /\ LET withdrawn == {c, ParagraphOf[c], DocOf[c], owner[DocOf[c]]}
     IN vector' = [e \in Entities |-> IF e \in withdrawn THEN None ELSE vector[e]]
  /\ UNCHANGED <<owner, live>> /\ Write

\* entity_update of a chunk's text withdraws nothing.
UpdateText(c) ==
  /\ current' = [current EXCEPT ![c] = 3 - @]
  /\ UNCHANGED <<owner, live, vector>> /\ Write

\* A row is marked deleted, or restored.
Mark(e) ==
  /\ live' = IF e \in live THEN live \ {e} ELSE live \cup {e}
  /\ UNCHANGED <<owner, current, vector>> /\ Write

GiveOwner(e, o) ==
  /\ owner[e] # o /\ e # o
  /\ owner' = [owner EXCEPT ![e] = o]
  /\ UNCHANGED <<live, current, vector>> /\ Write

Step == Embed \/ Page \/ Primary \/ Finish \/ Candidate \/ Link \/ Refine

Next ==
  \/ \E q \in Queries : Ask(q)
  \/ Step
  \/ \E e \in Entities : Mark(e) \/ \E v \in Versions : Vectorize(e, v)
  \/ \E c \in Chunks : SelectVersion(c) \/ UpdateText(c)
  \/ \E e \in Docs \cup Files, o \in Owners : GiveOwner(e, o)

Spec == Init /\ [][Next]_vars

\* A call goes on as long as its statements are answered.
FairSpec == Spec /\ WF_search(Step)

-----------------------------------------------------------------------------
(* Properties.                                                              *)

TypeOK ==
  /\ owner \in [Docs \cup Files -> Owners]
  /\ live \subseteq Entities
  /\ current \in [Entities -> Versions]
  /\ vector \in [Entities -> Versions \cup {None}]
  /\ search.pc \in {"idle", "embed", "failed", "page", "primary", "next", "closest",
                    "children", "done"}
  /\ {search.asked, search.q} \subseteq Query \cup {None}
  /\ search.offset \in Nat /\ search.shown \in Seq(Chunks)
  /\ search.at \in Item \cup {None}
  /\ search.window \subseteq offered /\ offered \subseteq Item
  /\ Cardinality(search.primary) <= IF search.q = None THEN 0 ELSE search.q.candidateLimit
  /\ search.queue \subseteq search.primary
  /\ touched \in BOOLEAN /\ writes \in 0 .. MaxWrites

\* The window is cut after every merge, yet it is what one cut at the end would leave:
\* of everything any statement of the call returned, the best `limit` entities at the
\* best score each was read with (_merge_window).
WindowIsBestOffered ==
  search.q # None =>
    LET best == {x \in offered : \A y \in offered : y.e = x.e => y.score <= x.score}
    IN search.window = First(best, search.q.limit, Better)

Answered == search.pc = "done" /\ ~touched
Refined == Answered /\ search.q.refine /\ Mode(search.q) = "semantic"

\* Mutants change what the search reads: the properties say themselves which vectors
\* are comparable.
Comparable(e) ==
  e \in live /\ vector[e] # None /\ vector[e] = current[e]
    /\ Similarity[e][vector[e]] >= search.q.threshold

\* "Strong refined child results may evict weaker tail results" (info.py:388), and
\* only those: if nothing changed and candidate_limit cut nothing off, no chunk that
\* is better than a result, or that would fit in, is missing from the results.
NothingBetterIsLeftOut ==
  (Refined /\ Cardinality(search.primary) < search.q.candidateLimit) =>
    \A c \in Chunks :
      Comparable(c) =>
        \/ \E x \in search.window : x.e = c
        \/ /\ Cardinality(search.window) = search.q.limit
           /\ \A x \in search.window : x.score >= Similarity[c][vector[c]]

\* Candidates are refined down the linked hierarchy (info.py:386): if nothing changed,
\* a document is a result itself only when no part of it is comparable. A file that is
\* owned by the document is excepted: its id then becomes part of the scope, which asks
\* for parts of documents owned by that file.
DocumentsAreRefined ==
  Refined =>
    \A x \in search.window :
      (x.e \in Docs /\ ~\E f \in Files : owner[f] = x.e) =>
        ~\E e \in Paragraphs \cup Chunks : DocOf[e] = x.e /\ Comparable(e)

\* The documentation has no such exception.
LinkedDocumentsAreRefined ==
  Refined =>
    \A x \in search.window :
      x.e \in Docs => ~\E e \in Paragraphs \cup Chunks : DocOf[e] = x.e /\ Comparable(e)

\* "Use limit plus offset to scan a large filtered corpus page by page"
\* (chunk_query_search_command.py): if nothing changed, the pages show every match
\* once, in whichever mode, although every page is a call and a statement of its own.
PagesShowEachMatchOnce ==
  (Answered /\ ~Refined) =>
    /\ \A i, j \in DOMAIN search.shown : search.shown[i] = search.shown[j] => i = j
    /\ {search.shown[i] : i \in DOMAIN search.shown} =
         {c \in Chunks \cap live :
            CASE search.q.text -> Relevance[c][current[c]] > 0
              [] ~search.q.text /\ search.q.vector -> vector[c] = current[c]
              [] ~search.q.text /\ ~search.q.vector -> TRUE}

\* Whatever others write, a search is answered or fails: refining adds no candidates.
EveryCallEnds == search.pc # "idle" ~> search.pc \in {"done", "failed"}

\* What a search keeps while it runs.
WindowInv == TypeOK /\ WindowIsBestOffered

\* What an answer of either kind contains.
AnswersAreComplete == NothingBetterIsLeftOut /\ DocumentsAreRefined /\ PagesShowEachMatchOnce

=============================================================================
