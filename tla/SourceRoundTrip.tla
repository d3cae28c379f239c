-------------------------- MODULE SourceRoundTrip --------------------------
(***************************************************************************)
(* From the answer of the chunking service to the text a caller reads      *)
(* back: ranges are resolved against the source (svo_chunking), sentences  *)
(* are placed inside their paragraphs (runtime_boundary), the pieces that  *)
(* restore the source are derived (exact_reconstruction) and compared, and *)
(* chunks are edited, hidden, reconstructed (text_reconstruction) and      *)
(* rechunked. A text is a sequence of characters; positions count from 0   *)
(* and ranges are half-open, as in the code.                               *)
(*                                                                         *)
(* One document with one chapter, as publication writes it, and one caller *)
(* at a time: Publication and ChunkVersions have the interleavings.        *)
(***************************************************************************)
EXTENDS Integers, Sequences, FiniteSets, FiniteSetsExt, SequencesExt

CONSTANTS
  Sources,        \* the texts that are uploaded
  EditedTexts,    \* the texts that edits write
  Blank,          \* white space of any kind
  Null,
  Limits,         \* max_chars of the requests; 0 is no limit
  ContextLimit,   \* DIAGNOSTIC_CONTEXT_LIMIT
  MaxParagraphs,  \* bound: paragraphs in an answer
  MaxSentences,   \* bound: sentences in the answer for a paragraph
  MaxEdits        \* bound: edits, hidings and rechunks of a document

Characters == {Blank} \cup UNION {ToSet(s) : s \in Sources \cup EditedTexts}
Texts == Seq(Characters)

\* exact_reconstruction of the metadata of a chunk, and what a reader returns.
PieceRow == [gap : Texts, override : Texts \cup {Null}, suffix : Texts \cup {Null}]
Answer == [text : Texts, map : Seq([chunk : Nat, start : Nat, end : Nat]), truncated : BOOLEAN]

\* None is none of the values it may stand in for.
ASSUME RoundTripAssumption ==
  /\ Limits \subseteq Nat /\ {ContextLimit, MaxParagraphs, MaxSentences, MaxEdits} \subseteq Nat
  /\ Sources \cup EditedTexts \subseteq Texts
  /\ Null \notin Nat \cup Texts \cup PieceRow \cup Answer
  /\ \A s \in Sources : \E k \in DOMAIN s : s[k] # Blank

VARIABLES
  source,      \* the normalized source of the request at hand
  phase,       \* what the request waits for: paragraphs or sentences; or stored, refused
  paragraphs,  \* validated paragraph chunks
  sentences,   \* validated sentence chunks, placed in the source
  chunks,      \* semantic_chunks with semantic_chunk_texts and versions, in order
  edits        \* operations on the stored document so far

roundTripVars == <<source, phase, paragraphs, sentences, chunks, edits>>

-----------------------------------------------------------------------------
(* Text.                                                                    *)

Slice(s, i, j) == SubSeq(s, i + 1, Min({j, Len(s)}))

\* The elements of s at some of its positions, in order.
Picked(s, positions) ==
  LET position(n) == CHOOSE k \in positions : Cardinality({l \in positions : l <= k}) = n
  IN  [n \in 1 .. Cardinality(positions) |-> s[position(n)]]

NonBlank(s) == Picked(s, {k \in DOMAIN s : s[k] # Blank})

\* " ".join(s.split()): runs of white space become one blank, none at the ends.
Collapsed(s) ==
  Picked(s, {k \in DOMAIN s : \/ s[k] # Blank
                              \/ /\ k > 1 /\ s[k - 1] # Blank
                                 /\ \E l \in k .. Len(s) : s[l] # Blank})

\* s.strip()
Stripped(s) ==
  LET solid == {k \in DOMAIN s : s[k] # Blank}
  IN  IF solid = {} THEN <<>> ELSE SubSeq(s, Min(solid), Max(solid))

\* Every range [start, end) of s that begins at or after from.
RangesFrom(s, from) == {r \in (from .. Len(s)) \X (from .. Len(s)) : r[1] < r[2]}

Earliest(ranges) == CHOOSE r \in ranges : \A other \in ranges : r[1] <= other[1]

-----------------------------------------------------------------------------
(* Chunks of an answer.                                                     *)

\* What a chunk of the service says: its body, its text if it cleaned the body,
\* and its range. A range that does not show either is as good as <<0, 0>>.
Claims(s) ==
  LET bodies == {Slice(s, r[1], r[2]) : r \in RangesFrom(s, 0)}
      said == (bodies \cup {Collapsed(b) : b \in bodies}) \ {<<>>}
      ranges(b) == {<<0, 0>>} \cup {r \in RangesFrom(s, 0) : Slice(s, r[1], r[2]) \in {b, Collapsed(b)}}
  IN  UNION {{[body |-> b, text |-> t, start |-> r[1], end |-> r[2]] :
                t \in {b, Collapsed(b)}, r \in ranges(b)} : b \in said}

TextOf(claim) == IF claim.text = <<>> THEN claim.body ELSE claim.text

\* Mutant of Found: the search begins at the start of the source.
FoundAnywhere(s, previous, part) ==
  {r \in RangesFrom(s, 0) : Slice(s, r[1], r[2]) = part}

\* source_text.find(candidate, previous_end)
Found(s, previous, part) == {r \in RangesFrom(s, previous) : Slice(s, r[1], r[2]) = part}

\* The pattern that joins the words of the text by any white space.
Matches(s, previous, text) ==
  {r \in RangesFrom(s, previous) :
     LET part == Slice(s, r[1], r[2])
     IN  Stripped(part) = part /\ part # <<>> /\ Collapsed(part) = Collapsed(text)}

\* The range claimed if it says what the chunk says and lies after the previous
\* chunk; else the first place where the chunk can be found; else Null.
ResolvedRange(s, previous, claim) ==
  LET text == TextOf(claim)
      claimed == <<claim.start, claim.end>>
      candidates == <<claim.body, text, Stripped(claim.body), Stripped(text)>>
      hits == {n \in DOMAIN candidates : Found(s, previous, candidates[n]) # {}}
  IN  IF /\ claimed \in RangesFrom(s, previous)
         /\ Slice(s, claim.start, claim.end) \in {claim.body, text}
      THEN claimed
      ELSE IF hits # {} THEN Earliest(Found(s, previous, candidates[Min(hits)]))
      ELSE IF Matches(s, previous, text) # {} THEN Earliest(Matches(s, previous, text))
      ELSE Null

EndOf(units) == IF units = <<>> THEN 0 ELSE Last(units).end

-----------------------------------------------------------------------------
(* Restoring the source.                                                    *)

\* A sentence belongs to the paragraph it starts in, and if a paragraph gets none
\* that way, every sentence that overlaps it does too.
SentencesOf(p) ==
  LET para == paragraphs[p]
      starting == {k \in DOMAIN sentences :
                     sentences[k].start >= para.start /\ sentences[k].start < para.end}
      overlapping == {k \in DOMAIN sentences :
                        sentences[k].end > para.start /\ sentences[k].start < para.end}
  IN  Picked(sentences, IF starting # {} THEN starting ELSE overlapping)

Units == FlattenSeq([p \in DOMAIN paragraphs |->
           LET own == SentencesOf(p) IN [k \in DOMAIN own |-> [own[k] EXCEPT !.of = p]]])

Monotonic(units) ==
  \A k \in DOMAIN units : /\ units[k].start < units[k].end /\ units[k].end <= Len(source)
                          /\ k > 1 => units[k - 1].end <= units[k].start

\* Mutant of Piece: the text of the chunk stands for its source slice.
PieceOfText(units, k) ==
  [gap |-> Slice(source, IF k = 1 THEN 0 ELSE units[k - 1].end, units[k].start),
   override |-> Null,
   suffix |-> IF k = Len(units) THEN Slice(source, units[k].end, Len(source)) ELSE Null]

\* What comes before a chunk, its source slice if the text differs, and at the
\* last chunk what comes after it.
Piece(units, k) ==
  LET slice == Slice(source, units[k].start, units[k].end)
  IN  [gap |-> Slice(source, IF k = 1 THEN 0 ELSE units[k - 1].end, units[k].start),
       override |-> IF slice = units[k].text THEN Null ELSE slice,
       suffix |-> IF k = Len(units) THEN Slice(source, units[k].end, Len(source)) ELSE Null]

\* Releases before exact reconstruction stored no pieces.
Rows(units, exact) ==
  [k \in DOMAIN units |->
     LET piece == IF exact THEN Piece(units, k) ELSE Null
     IN  [of |-> units[k].of, text |-> units[k].text, piece |-> piece, live |-> TRUE,
          versions |-> {<<units[k].text, Null>>}]]

-----------------------------------------------------------------------------
(* Reading back.                                                            *)

VisibleRows(rows) == Picked(rows, {k \in DOMAIN rows : rows[k].live})
Exact(rows) == {k \in DOMAIN rows : rows[k].piece # Null}
Suffixed(rows) == {k \in Exact(rows) : rows[k].piece.suffix # Null}

\* Pieces of some rows only, or a suffix that is not on the last row and only there,
\* make the reader raise.
ScopeRaises(rows) ==
  Exact(rows) # {} /\ (Exact(rows) # DOMAIN rows \/ Suffixed(rows) # {Len(rows)})

\* What a chunk stands for: its source slice if it has one, else its text.
Payload(row) == IF row.piece = Null \/ row.piece.override = Null THEN row.text ELSE row.piece.override

\* What comes after all chunks.
Suffix(rows) == IF Exact(rows) = {} THEN <<>> ELSE Last(rows).piece.suffix

\* The comparison's reading of the rows of a document, or Null when it raises.
ScopeText(rows) ==
  LET separator(k) == IF rows[k].piece # Null THEN rows[k].piece.gap
                      ELSE IF k = 1 THEN <<>>
                      ELSE IF rows[k].of = rows[k - 1].of THEN <<Blank>> ELSE <<Blank, Blank>>
      parts == [k \in DOMAIN rows |-> separator(k) \o Payload(rows[k])]
  IN  IF ScopeRaises(rows) THEN Null ELSE FlattenSeq(parts) \o Suffix(rows)

\* Mutant of LegacySeparator: paragraphs are joined like sentences.
SameSeparator(previous, of) == IF previous = Null THEN <<>> ELSE <<Blank>>

LegacySeparator(previous, of) ==
  IF previous = Null THEN <<>> ELSE IF of = previous THEN <<Blank>> ELSE <<Blank, Blank>>

Clipped(s, max, used) == IF max = 0 THEN s ELSE SubSeq(s, 1, Min({Len(s), max - used}))

\* Mutant of Entry: the separator counts as text of the chunk.
EntryWithSeparator(k, cursor, separator, emitted) ==
  IF Len(emitted) > Len(separator)
  THEN <<[chunk |-> k, start |-> cursor, end |-> cursor + Len(emitted)]>> ELSE <<>>

\* The entry of range_map, if anything of the chunk itself was emitted.
Entry(k, cursor, separator, emitted) ==
  IF Len(emitted) > Len(separator)
  THEN <<[chunk |-> k, start |-> cursor + Len(separator), end |-> cursor + Len(emitted)]>>
  ELSE <<>>

\* One round of the loop over the rows. At the limit the loop ends before it looks
\* at the row, which may have nothing to add.
Emitted(rows, max, out, k) ==
  LET row == rows[k]
      separator == IF row.piece # Null THEN row.piece.gap ELSE LegacySeparator(out.previous, row.of)
      candidate == separator \o Payload(row)
      emitted == Clipped(candidate, max, Len(out.text))
  IN  IF out.truncated THEN out
      ELSE [text |-> out.text \o emitted,
            map |-> out.map \o Entry(k, Len(out.text), separator, emitted),
            truncated |-> Len(emitted) < Len(candidate) \/ (max # 0 /\ max <= Len(out.text)),
            previous |-> row.of]

\* The loop over the rows.
Joined(rows, max) ==
  LET out[k \in 0 .. Len(rows)] ==
        IF k = 0 THEN [text |-> <<>>, map |-> <<>>, truncated |-> FALSE, previous |-> Null]
        ELSE Emitted(rows, max, out[k - 1], k)
  IN  out[Len(rows)]

\* The answer of chapter_text_get and source_file_reconstruct, or Null for an error.
Assembled(rows, max) ==
  LET out == Joined(rows, max)
      suffix == IF out.truncated THEN <<>> ELSE Suffix(rows)
      emitted == Clipped(suffix, max, Len(out.text))
  IN  IF rows = <<>> \/ ScopeRaises(rows) THEN Null
      ELSE [text |-> out.text \o emitted, map |-> out.map,
            truncated |-> out.truncated \/ Len(emitted) < Len(suffix)]

-----------------------------------------------------------------------------
(* The verdict of the comparison and what a refusal tells.                  *)

\* Mutant of Agreed: the byte where the texts part counts as shared.
AgreedWithNext(a, b) ==
  1 + Cardinality({k \in DOMAIN a \cap DOMAIN b : SubSeq(a, 1, k) = SubSeq(b, 1, k)})

\* The number of leading characters the two texts share.
Agreed(a, b) == Cardinality({k \in DOMAIN a \cap DOMAIN b : SubSeq(a, 1, k) = SubSeq(b, 1, k)})

Verdict(a, b) ==
  IF a = b THEN [outcome |-> "match", offset |-> Null]
  ELSE [outcome |-> IF Agreed(a, b) = Min({Len(a), Len(b)}) THEN "length_boundary" ELSE "mismatch",
        offset |-> Agreed(a, b)]

\* The window of the source around the difference.
Diagnostic(a, b) ==
  LET located == Min({Verdict(a, b).offset, Len(a)})
      from == Max({0, located - ContextLimit})
      to == Min({Len(a), located + ContextLimit})
  IN  [before |-> Slice(a, from, located), after |-> Slice(a, located, to)]

-----------------------------------------------------------------------------
(* Requests.                                                                *)

RoundTripInit ==
  /\ source \in Sources
  /\ phase = "paragraphs"
  /\ paragraphs = <<>> /\ sentences = <<>> /\ chunks = <<>>
  /\ edits = 0

\* The next paragraph of the answer is validated. A chunk that cannot be located, or
\* any other breach of the contract, fails the request, which then changes nothing.
TakeParagraph ==
  /\ phase = "paragraphs" /\ Len(paragraphs) < MaxParagraphs
  /\ \E claim \in Claims(source) :
       LET range == ResolvedRange(source, EndOf(paragraphs), claim)
       IN  /\ range # Null
           /\ paragraphs' = Append(paragraphs,
                                   [text |-> TextOf(claim), start |-> range[1], end |-> range[2]])
  /\ UNCHANGED <<source, phase, sentences, chunks, edits>>

EndParagraphs ==
  /\ phase = "paragraphs" /\ paragraphs # <<>>
  /\ phase' = "sentences"
  /\ UNCHANGED <<source, paragraphs, sentences, chunks, edits>>

\* Mutant of InParagraph: only the start of the sentence is checked.
StartsInParagraph(para, start, end) == start >= para.start /\ start < end

InParagraph(para, start, end) == start >= para.start /\ end <= para.end /\ start < end

\* The next sentence of the answer for paragraph p is validated against the text of
\* the paragraph, and its range moved to where the paragraph starts.
TakeSentence(p) ==
  LET para == paragraphs[p]
      own == {k \in DOMAIN sentences : sentences[k].of = p}
      previous == IF own = {} THEN 0 ELSE Last(sentences).end - para.start
  IN  /\ phase = "sentences" /\ p \in DOMAIN paragraphs /\ Cardinality(own) < MaxSentences
      /\ \A u \in ToSet(sentences) : u.of <= p
      /\ \A q \in 1 .. p - 1 : \E u \in ToSet(sentences) : u.of = q
      /\ \E claim \in Claims(para.text) :
           LET range == ResolvedRange(para.text, previous, claim)
           IN  /\ range # Null
               /\ InParagraph(para, para.start + range[1], para.start + range[2])
               /\ sentences' = Append(sentences,
                    [of |-> p, text |-> TextOf(claim),
                     start |-> para.start + range[1], end |-> para.start + range[2]])
      /\ UNCHANGED <<source, phase, paragraphs, chunks, edits>>

\* The hierarchy is written, read back and compared. Releases before exact
\* reconstruction wrote it without pieces and compared nothing.
Publish(exact) ==
  /\ phase = "sentences"
  /\ \A p \in DOMAIN paragraphs : \E u \in ToSet(sentences) : u.of = p
  /\ Monotonic(Units)
  /\ chunks' = Rows(Units, exact)
  /\ phase' = IF exact /\ Verdict(source, ScopeText(chunks')).outcome # "match" THEN "refused" ELSE "stored"
  /\ UNCHANGED <<source, paragraphs, sentences, edits>>

-----------------------------------------------------------------------------
(* What happens to a stored document.                                       *)

Edit ==
  /\ phase = "stored" /\ edits < MaxEdits
  /\ edits' = edits + 1

\* The metadata of a new version come from semantic_chunks, which has no piece, and
\* replace those of the text row.
NewVersion(k, text) ==
  /\ Edit
  /\ chunks' = [chunks EXCEPT ![k].text = text, ![k].piece = Null,
                              ![k].versions = @ \cup {<<text, Null>>}]
  /\ UNCHANGED <<source, phase, paragraphs, sentences>>

\* append_version and update_text: an equal text is "unchanged".
AppendVersion(k, text) == text # chunks[k].text /\ NewVersion(k, text)

\* restore_version copies the text of an existing version.
RestoreVersion(k, version) == NewVersion(k, version[1])

\* entity_update keeps the metadata of the text row, and so does its version.
EntityUpdate(k, text) ==
  /\ Edit /\ text # chunks[k].text
  /\ chunks' = [chunks EXCEPT ![k].text = text,
                              ![k].versions = @ \cup {<<text, chunks[k].piece>>}]
  /\ UNCHANGED <<source, phase, paragraphs, sentences>>

\* set_current and retire activate an existing version with its metadata.
SelectVersion(k, version) ==
  /\ Edit
  /\ chunks' = [chunks EXCEPT ![k].text = version[1], ![k].piece = version[2]]
  /\ UNCHANGED <<source, phase, paragraphs, sentences>>

SetVisible(k) ==
  /\ Edit
  /\ chunks' = [chunks EXCEPT ![k].live = ~@]
  /\ UNCHANGED <<source, phase, paragraphs, sentences>>

\* Mutant of StoredSource: paragraphs in any order.
StoredInReverse == FlattenSeq([p \in DOMAIN paragraphs |->
  LET q == Len(paragraphs) + 1 - p
  IN  (IF p = 1 THEN <<>> ELSE <<Blank, Blank>>) \o paragraphs[q].text])

\* "\n\n".join of the paragraph texts, which edits of chunks do not change.
StoredSource == FlattenSeq([p \in DOMAIN paragraphs |->
  (IF p = 1 THEN <<>> ELSE <<Blank, Blank>>) \o paragraphs[p].text])

\* document_chunk: the stored paragraphs are the source of a new publication (the
\* last operation on a document, a bound).
DocumentChunk ==
  /\ phase = "stored" /\ edits < MaxEdits
  /\ edits' = MaxEdits
  /\ source' = StoredSource
  /\ phase' = "paragraphs" /\ paragraphs' = <<>> /\ sentences' = <<>> /\ chunks' = <<>>

RoundTripNext ==
  \/ TakeParagraph \/ EndParagraphs
  \/ \E p \in 1 .. MaxParagraphs : TakeSentence(p)
  \/ \E exact \in BOOLEAN : Publish(exact)
  \/ \E k \in DOMAIN chunks :
       \/ \E text \in EditedTexts : AppendVersion(k, text) \/ EntityUpdate(k, text)
       \/ \E version \in chunks[k].versions : SelectVersion(k, version) \/ RestoreVersion(k, version)
       \/ SetVisible(k)
  \/ DocumentChunk

RoundTripSpec == RoundTripInit /\ [][RoundTripNext]_roundTripVars

-----------------------------------------------------------------------------
(* Properties.                                                              *)

ParagraphRow == [text : Texts, start : Nat, end : 1 .. Len(source)]
SentenceRow == [text : Texts, of : DOMAIN paragraphs, start : Nat, end : 1 .. Len(source)]
ChunkRow == [of : DOMAIN paragraphs, text : Texts, piece : PieceRow \cup {Null}, live : BOOLEAN,
             versions : SUBSET (Texts \X (PieceRow \cup {Null}))]

RoundTripTypeOK ==
  /\ source \in Texts /\ phase \in {"paragraphs", "sentences", "stored", "refused"}
  /\ paragraphs \in Seq(ParagraphRow) /\ sentences \in Seq(SentenceRow) /\ chunks \in Seq(ChunkRow)
  /\ edits \in 0 .. MaxEdits

\* Whatever the service answers, accepted paragraphs are in order, do not overlap,
\* and each lies where its words stand in the source; the sentences of a paragraph
\* are in order inside it.
RangesLocateTheirText ==
  /\ \A p \in DOMAIN paragraphs :
       /\ p > 1 => paragraphs[p - 1].end <= paragraphs[p].start
       /\ Collapsed(Slice(source, paragraphs[p].start, paragraphs[p].end)) = Collapsed(paragraphs[p].text)
  /\ \A k \in DOMAIN sentences :
       /\ sentences[k].end <= paragraphs[sentences[k].of].end
       /\ k > 1 => sentences[k - 1].end <= sentences[k].start

\* The pieces derived from any accepted answer tile the source: no publication is
\* refused on its own account, also when chunks were cleaned or skip text.
PiecesTileTheSource == phase # "refused"

\* The comparison reads what source_file_reconstruct returns, after any edits, and
\* raises exactly when it does (except that it reads nothing of no rows).
ComparisonReadsWhatCallersGet ==
  LET rows == VisibleRows(chunks)
  IN  rows # <<>> => IF Assembled(rows, 0) = Null THEN ScopeText(rows) = Null
                     ELSE ScopeText(rows) = Assembled(rows, 0).text

\* A limited answer is the beginning of the whole one and says whether it is all
\* (unless the limit ends it right before a chunk of no text, which counts as more);
\* range_map finds in it the texts of the chunks, in order.
RangeMapLocatesChunks ==
  LET rows == VisibleRows(chunks)
      whole == Assembled(rows, 0)
  IN  rows # <<>> /\ whole # Null =>
        \A max \in Limits :
          LET part == Assembled(rows, max)
          IN  /\ IsPrefix(part.text, whole.text)
              /\ part.text # whole.text => part.truncated
              /\ part.truncated => \/ part.text # whole.text
                                   \/ \E k \in DOMAIN rows : Payload(rows[k]) = <<>>
              /\ max # 0 => Len(part.text) <= max
              /\ part.truncated => Len(part.text) = max
              /\ \A m \in DOMAIN part.map :
                   LET entry == part.map[m]
                       found == Slice(part.text, entry.start, entry.end)
                       text == Payload(rows[entry.chunk])
                   IN  /\ IsPrefix(found, text) /\ (found = text \/ part.truncated)
                       /\ m > 1 => part.map[m - 1].end <= entry.start

\* A refusal would point at the first character where the two texts part, and
\* disclose at most ContextLimit characters of the source on each side of it.
DiagnosticPointsAtTheDifference ==
  \A other \in Sources \ {source} :
    LET d == Diagnostic(source, other)
        at == Verdict(source, other).offset
    IN  /\ Len(d.before) <= ContextLimit /\ Len(d.after) <= ContextLimit
        /\ Slice(source, 0, at) = Slice(other, 0, at)
        /\ Slice(source, at, at + 1) # Slice(other, at, at + 1)
        /\ IsSuffix(d.before, Slice(source, 0, at)) /\ IsPrefix(d.after, Slice(source, at, Len(source)))

\* A rechunk keeps every word that a paragraph of the previous chunking covered, in
\* order, however the service cleaned the paragraphs.
RechunkKeepsCoveredText ==
  [][DocumentChunk =>
       NonBlank(source') = NonBlank(FlattenSeq([p \in DOMAIN paragraphs |->
                                      Slice(source, paragraphs[p].start, paragraphs[p].end)]))]_roundTripVars

\* The code's word: a rechunk "re-derives an existing document's hierarchy from its
\* stored source" (runtime_boundary.py:90). Text outside of paragraphs is lost.
RechunkKeepsTheSource == [][DocumentChunk => NonBlank(source') = NonBlank(source)]_roundTripVars

\* The code's word: the two commands "reconstruct active current text from chunks"
\* (info.py:403).
EditsAreReconstructed ==
  phase = "stored" /\ (\A k \in DOMAIN chunks : chunks[k].live) =>
    /\ Assembled(chunks, 0) # Null
    /\ LET answer == Assembled(chunks, 0)
       IN  \A m \in DOMAIN answer.map :
             Collapsed(Slice(answer.text, answer.map[m].start, answer.map[m].end))
               = Collapsed(chunks[answer.map[m].chunk].text)

\* The code's word: "limit and offset page through very large reconstructions"
\* (info.py:402).
PagesAreReadable ==
  LET rows == VisibleRows(chunks)
  IN  rows # <<>> /\ Assembled(rows, 0) # Null =>
        \A from, to \in DOMAIN rows : from <= to => Assembled(SubSeq(rows, from, to), 0) # Null

\* What holds of any accepted answer of the chunking service.
AcceptedInv == RoundTripTypeOK /\ RangesLocateTheirText /\ PiecesTileTheSource

\* What a caller is told about a text: the whole, a page of it, and where two differ.
ReadsInv ==
  ComparisonReadsWhatCallersGet /\ RangeMapLocatesChunks /\ DiagnosticPointsAtTheDifference

=============================================================================
