------------------------------ MODULE ChunkProofs ------------------------------
(***************************************************************************)
(* Theorems of ChunkVersions for every set of chunks, documents, texts and *)
(* writers and every bound on the number of version rows; and theorems of  *)
(* Vectorization and VectorizerActivity, for every number of workers too.  *)
(*                                                                         *)
(* The argument about search rests on the one about versions: a row id is  *)
(* given out once, so an id a worker read either still names the row with  *)
(* the text it read or names no row any more, and then the foreign key     *)
(* refuses the batch.                                                      *)
(***************************************************************************)
EXTENDS VectorizerActivity, FiniteSetTheorems, TLAPS

(***************************************************************************)
(* Part 1: versions of chunks.                                             *)
(***************************************************************************)

LEMMA IdsAreNat == Ids \subseteq Nat \ {0} /\ 1 \in Ids /\ Null \notin Ids /\ NoRow \notin Ids
BY ChunkVersionsAssumption DEF Ids, Null, NoRow

-----------------------------------------------------------------------------
(* Type correctness. *)

\* A row inserted into or selected among typed rows leaves them typed.
LEMMA WithNewRowType ==
  ASSUME NEW rows \in [Ids -> Row], NEW i \in Ids, NEW n \in Nat, NEW t \in Texts
  PROVE  /\ WithNewRow(rows, i, n, t) \in [Ids -> Row]
         /\ WithNewRow(rows, i, n, t)[i] \in LiveRow
BY DEF WithNewRow, Row, LiveRow

\* A row exists exactly when its status is not "absent".
LEMMA LiveRows ==
  ASSUME NEW row \in Row
  PROVE  /\ row.status # "absent" <=> row \in LiveRow
         /\ row \notin LiveRow => row = AbsentRow /\ row.current = FALSE
         /\ row.current \in BOOLEAN
         /\ row.no \in Nat
         /\ row \in LiveRow => row.text \in Texts
<1>1. AbsentRow.status = "absent" /\ AbsentRow.current = FALSE /\ AbsentRow.no = 0
  BY DEF AbsentRow
<1>2. CASE row \in LiveRow
  BY <1>2 DEF LiveRow
<1>3. CASE row = AbsentRow
  <2>1. AbsentRow \notin LiveRow
    BY <1>1 DEF LiveRow
  <2>2. row.status = "absent" /\ row.no \in Nat /\ row \notin LiveRow
    BY <1>1, <1>3, <2>1
  <2>3. row.current = FALSE
    BY <1>1, <1>3
  <2> QED
    BY <1>3, <2>2, <2>3
<1> QED
  BY <1>2, <1>3 DEF Row

\* Selecting or retiring a row keeps its number and text.
LEMMA PromotedRow ==
  ASSUME NEW row \in LiveRow
  PROVE  /\ Promoted(row) \in LiveRow
         /\ Promoted(row).no = row.no /\ Promoted(row).text = row.text
         /\ Promoted(row).current = TRUE
BY DEF Promoted, LiveRow

LEMMA RetiredRow ==
  ASSUME NEW row \in LiveRow
  PROVE  /\ Retired(row) \in LiveRow
         /\ Retired(row).no = row.no /\ Retired(row).text = row.text
         /\ Retired(row).current = FALSE /\ Retired(row).status = "retired"
BY DEF Retired, LiveRow

\* What _activate does to a chunk's rows: row i alone becomes current, no
\* number or text changes, and no row appears or disappears.
LEMMA SelectedRows ==
  ASSUME NEW rows \in [Ids -> Row], NEW i \in Ids, rows[i] \in LiveRow
  PROVE  /\ Selected(rows, i) \in [Ids -> Row]
         /\ \A j \in Ids :
              /\ Selected(rows, i)[j].no = rows[j].no
              /\ Selected(rows, i)[j].text = rows[j].text
              /\ Selected(rows, i)[j].current <=> j = i
              /\ Selected(rows, i)[j] \in LiveRow <=> rows[j] \in LiveRow
<1>1. ASSUME NEW j \in Ids
      PROVE  /\ Selected(rows, i)[j] \in Row
             /\ Selected(rows, i)[j].no = rows[j].no
             /\ Selected(rows, i)[j].text = rows[j].text
             /\ Selected(rows, i)[j].current <=> j = i
             /\ Selected(rows, i)[j] \in LiveRow <=> rows[j] \in LiveRow
  <2>1. rows[j] \in Row /\ LiveRow \subseteq Row
    BY DEF Row
  <2>2. CASE j = i
    BY <2>1, <2>2, PromotedRow DEF Selected
  <2>3. CASE j # i /\ rows[j].current
    BY <2>1, <2>3, LiveRows, RetiredRow DEF Selected
  <2>4. CASE j # i /\ ~rows[j].current
    BY <2>1, <2>4 DEF Selected
  <2> QED
    BY <2>2, <2>3, <2>4
<1>2. Selected(rows, i) = [j \in Ids |-> Selected(rows, i)[j]]
  BY DEF Selected
<1> QED
  BY <1>1, <1>2

LEMMA DeactivatedType ==
  ASSUME NEW v \in Vector
  PROVE  Deactivated(v) \in Vector
BY DEF Deactivated, Vector

LEMMA InvalidateType ==
  ASSUME TypeOK, NEW c \in Chunks, Invalidate(c)
  PROVE  /\ tags' \in [Chunks -> Refs]
         /\ tokens' \in [Chunks -> Refs]
         /\ vec' \in [Chunks -> Vector]
         /\ docVec' \in [Docs -> BOOLEAN]
         /\ fileVec' \in [Files -> BOOLEAN]
         /\ dirtyDoc' \in [Docs -> BOOLEAN]
         /\ dirtyFile' \in [Files -> BOOLEAN]
<1>1. DocOf[c] \in Docs /\ FileOf[DocOf[c]] \in Files
  BY ChunkVersionsAssumption
<1>2. tags' \in [Chunks -> Refs] /\ tokens' \in [Chunks -> Refs]
  BY DEF TypeOK, Invalidate, Refs
<1>3. vec' \in [Chunks -> Vector]
  BY DeactivatedType DEF TypeOK, Invalidate
<1>4. docVec' \in [Docs -> BOOLEAN] /\ dirtyDoc' \in [Docs -> BOOLEAN]
  BY DEF TypeOK, Invalidate
<1>5. dirtyFile' \in [Files -> BOOLEAN] /\ fileVec' \in [Files -> BOOLEAN]
  BY DEF TypeOK, Invalidate
<1> QED
  BY <1>2, <1>3, <1>4, <1>5

\* _activate keeps every table typed; issued and seen are its callers' business.
LEMMA ActivateType ==
  ASSUME TypeOK, NEW c \in Chunks, NEW i \in Ids, NEW rows \in [Ids -> Row],
         rows[i] \in LiveRow, Activate(c, i, rows),
         issued' \in [Chunks -> 0 .. MaxVersions],
         seen' \in [Writers -> [Chunks -> [no : Nat, id : Ids \cup {0}]]]
  PROVE  TypeOK'
<1>1. Selected(rows, i) \in [Ids -> Row] /\ rows[i].text \in Texts
  BY SelectedRows, LiveRows
<1>2. /\ versions' \in [Chunks -> [Ids -> Row]]
      /\ current' \in [Chunks -> Ids \cup {NoRow}]
      /\ text' \in [Chunks -> Texts]
      /\ assigned' \in [Chunks -> Ids \cup {Null}]
      /\ labels' \in [Chunks -> Ids \cup {Null}]
  BY <1>1 DEF Activate, TypeOK
<1>3. CurrentRefersToRow'
  <2>1. \A j \in Ids : rows[j] \in LiveRow <=> Selected(rows, i)[j] \in LiveRow
    BY SelectedRows
  <2>2. versions'[c] = Selected(rows, i) /\ current'[c] = i
    BY DEF Activate, TypeOK
  <2>3. current'[c] \in Live(c)'
    BY <1>1, <2>1, <2>2, LiveRows DEF Live
  <2>4. ASSUME NEW d \in Chunks \ {c}
        PROVE  versions'[d] = versions[d] /\ current'[d] = current[d]
    BY DEF Activate, TypeOK
  <2> QED
    BY <2>3, <2>4 DEF CurrentRefersToRow, TypeOK, Live
<1>4. Invalidate(c)
  BY DEF Activate
<1> QED
  BY <1>2, <1>3, <1>4, InvalidateType DEF TypeOK

SeenType == [Writers -> [Chunks -> [no : Nat, id : Ids \cup {0}]]]

\* Inserting a version and selecting it keeps every table typed.
LEMMA InsertType ==
  ASSUME TypeOK, NEW c \in Chunks, NEW n \in Nat, NEW t \in Texts,
         InsertAndActivate(c, n, t), seen' \in SeenType
  PROVE  TypeOK'
<1> DEFINE i == issued[c] + 1
           rows == WithNewRow(versions[c], i, n, t)
<1>1. i \in Ids /\ issued' \in [Chunks -> 0 .. MaxVersions]
  BY ChunkVersionsAssumption DEF TypeOK, InsertAndActivate, Ids
<1>2. rows \in [Ids -> Row] /\ rows[i] \in LiveRow
  BY <1>1, WithNewRowType DEF TypeOK
<1>3. Activate(c, i, rows)
  BY DEF InsertAndActivate
<1> HIDE DEF i, rows
<1> QED
  BY <1>1, <1>2, <1>3, ActivateType DEF SeenType

LEMMA RowTypes ==
  ASSUME TypeOK, NEW c \in Chunks, NEW k \in Live(c)
  PROVE  /\ versions[c] \in [Ids -> Row]
         /\ k \in Ids /\ versions[c][k] \in LiveRow
         /\ versions[c][k].text \in Texts
<1>1. versions[c] \in [Ids -> Row] /\ k \in Ids /\ versions[c][k].status # "absent"
  BY DEF TypeOK, Live
<1> QED
  BY <1>1, LiveRows

LEMMA AppendType ==
  ASSUME TypeOK, NEW c \in Chunks, NEW t \in Texts, NEW e,
         AppendVersion(c, t, e), seen' \in SeenType
  PROVE  TypeOK'
BY InsertType, IdsAreNat DEF AppendVersion

LEMMA RestoreType ==
  ASSUME TypeOK, NEW c \in Chunks, NEW k, NEW e,
         RestoreVersion(c, k, e), seen' \in SeenType
  PROVE  TypeOK'
BY InsertType, IdsAreNat, RowTypes DEF RestoreVersion

LEMMA SetCurrentType ==
  ASSUME TypeOK, NEW c \in Chunks, NEW k, SetCurrent(c, k)
  PROVE  TypeOK'
BY ActivateType, RowTypes DEF SetCurrent, TypeOK

LEMMA RetireCurrentType ==
  ASSUME TypeOK, NEW c \in Chunks, NEW k, NEW r, RetireCurrent(c, k, r)
  PROVE  TypeOK'
BY ActivateType, RowTypes DEF RetireCurrent, TypeOK

LEMMA RetireOtherType ==
  ASSUME TypeOK, NEW c \in Chunks, NEW k, RetireOther(c, k)
  PROVE  TypeOK'
<1>1. versions[c][k] \in LiveRow /\ k \in Ids
  BY RowTypes DEF RetireOther
<1>2. [versions[c][k] EXCEPT !.status = "retired"] \in LiveRow
  BY <1>1 DEF LiveRow
<1>3. versions' \in [Chunks -> [Ids -> Row]]
  BY <1>1, <1>2 DEF RetireOther, TypeOK, Row
<1>4. CurrentRefersToRow'
  <2>1. \A d \in Chunks : Live(d) \subseteq Live(d)'
    BY <1>1 DEF RetireOther, TypeOK, Live
  <2> QED
    BY <2>1 DEF RetireOther, TypeOK, CurrentRefersToRow, projection
<1> QED
  BY <1>3, <1>4 DEF RetireOther, TypeOK, projection, derived, aggregates, flags

LEMMA DeleteType ==
  ASSUME TypeOK, NEW c \in Chunks, NEW k, DeleteVersion(c, k)
  PROVE  TypeOK'
<1>1. versions' \in [Chunks -> [Ids -> Row]]
  BY DEF DeleteVersion, TypeOK, Row
<1>2. /\ current' \in [Chunks -> Ids \cup {NoRow}]
      /\ assigned' \in [Chunks -> Ids \cup {Null}]
      /\ labels' \in [Chunks -> Ids \cup {Null}]
      /\ tags' \in [Chunks -> Refs] /\ tokens' \in [Chunks -> Refs]
  BY DEF DeleteVersion, TypeOK, Unlinked, Refs
<1>3. vec' \in [Chunks -> Vector]
  <2>1. [vec[c] EXCEPT !.version = Unlinked(vec[c].version, k)] \in Vector
    BY ZenonT(30) DEF TypeOK, Vector, Unlinked
  <2> QED
    BY <2>1 DEF DeleteVersion, TypeOK
<1>4. CurrentRefersToRow'
  <2>1. \A d \in Chunks : Live(d)' = IF d = c THEN Live(d) \ {k} ELSE Live(d)
    BY DEF DeleteVersion, TypeOK, Live, AbsentRow
  <2>2. \A d \in Chunks : current'[d] = IF d = c /\ current[d] = k THEN NoRow ELSE current[d]
    BY DEF DeleteVersion, TypeOK
  <2> QED
    BY <2>1, <2>2 DEF TypeOK, CurrentRefersToRow
<1> QED
  BY <1>1, <1>2, <1>3, <1>4 DEF DeleteVersion, TypeOK, aggregates, flags

LEMMA EntityUpdateType ==
  ASSUME TypeOK, NEW c \in Chunks, NEW t \in Texts, EntityUpdate(c, t)
  PROVE  TypeOK'
<1> DEFINE i == issued[c] + 1
<1>1. i \in Ids /\ issued' \in [Chunks -> 0 .. MaxVersions]
  BY ChunkVersionsAssumption DEF EntityUpdate, TypeOK, Ids
<1>2. versions' \in [Chunks -> [Ids -> Row]] /\ CurrentRefersToRow'
  <2>1. PICK n \in Ids :
          versions' = [versions EXCEPT ![c] = [j \in Ids |->
            IF j = i THEN [no |-> n, text |-> t, status |-> "active", current |-> TRUE]
            ELSE IF j = current[c] THEN Retired(versions[c][j])
            ELSE versions[c][j]]]
    BY DEF EntityUpdate
  <2>2. [no |-> n, text |-> t, status |-> "active", current |-> TRUE] \in LiveRow
    BY IdsAreNat DEF LiveRow
  <2>3. current[c] # NoRow => Retired(versions[c][current[c]]) \in LiveRow
    BY RowTypes, RetiredRow DEF TypeOK, CurrentRefersToRow
  <2>4. ASSUME NEW j \in Ids PROVE versions'[c][j] \in Row
    BY <2>1, <2>2, <2>3, IdsAreNat DEF TypeOK, Row
  <2>5. versions' \in [Chunks -> [Ids -> Row]]
    BY <2>1, <2>4 DEF TypeOK
  <2>6. i \in Live(c)'
    <3>1. versions'[c][i].status = "active"
      BY <1>1, <2>1 DEF TypeOK
    <3> QED
      BY <1>1, <3>1 DEF Live
  <2>7. current'[c] = i
    BY DEF EntityUpdate, TypeOK
  <2>8. ASSUME NEW d \in Chunks \ {c}
        PROVE  versions'[d] = versions[d] /\ current'[d] = current[d]
    BY <2>1 DEF EntityUpdate, TypeOK
  <2>9. CurrentRefersToRow'
    BY <2>6, <2>7, <2>8 DEF CurrentRefersToRow, TypeOK, Live
  <2> QED
    BY <2>5, <2>9
<1>3. /\ current' \in [Chunks -> Ids \cup {NoRow}]
      /\ assigned' \in [Chunks -> Ids \cup {Null}]
      /\ labels' \in [Chunks -> Ids \cup {Null}]
      /\ text' \in [Chunks -> Texts]
      /\ tags' \in [Chunks -> Refs] /\ tokens' \in [Chunks -> Refs]
  BY <1>1 DEF EntityUpdate, TypeOK, Refs
<1>4. vec' \in [Chunks -> Vector]
  BY DEF EntityUpdate, TypeOK, NoVector, Vector
<1> QED
  BY <1>1, <1>2, <1>3, <1>4 DEF EntityUpdate, TypeOK, aggregates, flags

\* Types of the remaining operations, which touch few tables.
LEMMA MetadataType ==
  ASSUME TypeOK, NEW c \in Chunks, ClassifyChunk(c) \/ \E empty \in BOOLEAN : ReplaceTags(c, empty)
  PROVE  TypeOK'
<1>1. CurrentOrNull(c) \in Ids \cup {Null}
  BY DEF CurrentOrNull, TypeOK
<1>2. /\ assigned' \in [Chunks -> Ids \cup {Null}]
      /\ labels' \in [Chunks -> Ids \cup {Null}]
      /\ tags' \in [Chunks -> Refs]
  <2>1. CASE ClassifyChunk(c)
    BY <1>1, <2>1, ZenonT(30) DEF ClassifyChunk, TypeOK, derived
  <2>2. CASE \E empty \in BOOLEAN : ReplaceTags(c, empty)
    <3>1. PICK empty \in BOOLEAN : ReplaceTags(c, empty)
      BY <2>2
    <3> QED
      BY <1>1, <3>1 DEF ReplaceTags, TypeOK, Refs, projection
  <2> QED
    BY <2>1, <2>2
<1> QED
  BY <1>2 DEF ClassifyChunk, ReplaceTags, TypeOK, CurrentRefersToRow, Live,
              history, projection, derived, aggregates, flags

LEMMA WriterSeenType ==
  ASSUME TypeOK, NEW c \in Chunks, NEW w \in Writers, Forget(w, c) \/ ReadCurrent(w, c)
  PROVE  seen' \in SeenType
<1>1. Unseen \in [no : Nat, id : Ids \cup {0}]
  BY DEF Unseen
<1>2. CASE Forget(w, c)
  BY <1>1, <1>2 DEF Forget, TypeOK, SeenType
<1>3. CASE ReadCurrent(w, c)
  <2>1. current[c] \in Ids /\ versions[c][current[c]].no \in Nat
    BY <1>3, LiveRows DEF ReadCurrent, TypeOK, CurrentRefersToRow, Live
  <2> QED
    BY <1>3, <2>1 DEF ReadCurrent, TypeOK, SeenType
<1> QED
  BY <1>2, <1>3

LEMMA InitType == ASSUME Init PROVE TypeOK
<1>1. ASSUME NEW c \in Chunks, NEW i \in Ids PROVE versions[c][i] \in Row
  BY <1>1 DEF Init, Row, LiveRow
<1>2. versions \in [Chunks -> [Ids -> Row]]
  BY <1>1 DEF Init
<1>3. CurrentRefersToRow
  BY IdsAreNat DEF Init, CurrentRefersToRow, Live
<1>4. /\ issued \in [Chunks -> 0 .. MaxVersions]
      /\ text \in [Chunks -> Texts]
      /\ current \in [Chunks -> Ids \cup {NoRow}]
      /\ assigned \in [Chunks -> Ids \cup {Null}]
      /\ labels \in [Chunks -> Ids \cup {Null}]
      /\ tags \in [Chunks -> Refs] /\ tokens \in [Chunks -> Refs]
  BY IdsAreNat, ChunkVersionsAssumption DEF Init, Refs
<1>5. /\ vec \in [Chunks -> Vector]
      /\ docVec \in [Docs -> BOOLEAN] /\ fileVec \in [Files -> BOOLEAN]
  BY DEF Init, NoVector, Vector
<1>6. seen \in [Writers -> [Chunks -> [no : Nat, id : Ids \cup {0}]]]
  BY DEF Init, Unseen
<1> QED
  BY <1>2, <1>3, <1>4, <1>5, <1>6 DEF Init, TypeOK

LEMMA TypeStep == ASSUME TypeOK, [Next]_chunkVars PROVE TypeOK'
<1>1. CASE UNCHANGED chunkVars
  BY <1>1 DEF TypeOK, CurrentRefersToRow, Live, chunkVars,
              history, projection, derived, aggregates, flags
<1>2. ASSUME NEW c \in Chunks, ChunkOperation(c) PROVE TypeOK'
  <2>1. CASE UNCHANGED seen /\ \E t \in Texts : AppendVersion(c, t, Null)
    BY <2>1, AppendType DEF TypeOK, SeenType
  <2>2. CASE UNCHANGED seen /\ \E k \in Ids : RestoreVersion(c, k, Null)
    BY <2>2, RestoreType DEF TypeOK, SeenType
  <2>3. CASE \E k \in Ids : SetCurrent(c, k)
    BY <2>3, SetCurrentType
  <2>4. CASE \E k \in Ids : RetireOther(c, k)
    BY <2>4, RetireOtherType
  <2>5. CASE \E k \in Ids, r \in Ids : RetireCurrent(c, k, r)
    BY <2>5, RetireCurrentType
  <2>6. CASE \E k \in Ids : DeleteVersion(c, k)
    BY <2>6, DeleteType
  <2>7. CASE \E t \in Texts : EntityUpdate(c, t)
    BY <2>7, EntityUpdateType
  <2>8. CASE ClassifyChunk(c) \/ \E empty \in BOOLEAN : ReplaceTags(c, empty)
    BY <2>8, MetadataType
  <2> QED
    BY <1>2, <2>1, <2>2, <2>3, <2>4, <2>5, <2>6, <2>7, <2>8 DEF ChunkOperation, VersionOperation
<1>3. ASSUME NEW c \in Chunks, NEW w \in Writers, WriterOperation(w, c) PROVE TypeOK'
  <2>1. CASE ReadCurrent(w, c)
    BY <2>1, WriterSeenType
       DEF ReadCurrent, TypeOK, CurrentRefersToRow, Live, SeenType,
           history, projection, derived, aggregates, flags
  <2>2. CASE \E t \in Texts : AppendExpecting(w, c, t)
    BY <2>2, WriterSeenType, AppendType DEF AppendExpecting
  <2>3. CASE \E k \in Ids : RestoreExpecting(w, c, k)
    BY <2>3, WriterSeenType, RestoreType DEF RestoreExpecting
  <2> QED
    BY <1>3, <2>1, <2>2, <2>3 DEF WriterOperation
<1> QED
  BY <1>1, <1>2, <1>3 DEF Next

\* Every table stays typed and semantic_chunk_current never dangles.
THEOREM TypeCorrect == Spec => []TypeOK
BY InitType, TypeStep, PTL DEF Spec

-----------------------------------------------------------------------------
(* The selection invariant. *)

\* Row ids are issued in order, so an unissued id never names a row.
RowIdsInOrder == \A c \in Chunks : \A i \in Live(c) : i <= issued[c]

\* UniqueVersionNumbers needs RowIdsInOrder (the row inserted next is a new
\* one); ProjectionMatchesSelected and DerivedOfCurrent need CurrentAgreement
\* (retiring by is_current and by pointer retire the same row).  The part on
\* the rows and the selection does not rest on the derived rows, so it also
\* holds beside writers of those.
SelectionInv ==
  /\ TypeOK
  /\ RowIdsInOrder
  /\ UniqueVersionNumbers
  /\ CurrentAgreement
  /\ ProjectionMatchesSelected

Inv == SelectionInv /\ DerivedOfCurrent

\* The same invariant, one chunk at a time.
SelectionOK(c) ==
  /\ \A i \in Live(c) : i <= issued[c]
  /\ \A i, j \in Live(c) : versions[c][i].no = versions[c][j].no => i = j
  /\ \A i \in Ids : versions[c][i].current <=> current[c] = i
  /\ current[c] # NoRow => text[c] = versions[c][current[c]].text

DerivedOK(c) == {assigned[c], tags[c], tokens[c]} \subseteq {NoRow, Null, current[c]}

LEMMA InvByChunk ==
  /\ SelectionInv <=> TypeOK /\ \A c \in Chunks : SelectionOK(c)
  /\ DerivedOfCurrent <=> \A c \in Chunks : DerivedOK(c)
BY DEF SelectionInv, SelectionOK, DerivedOK, RowIdsInOrder, UniqueVersionNumbers,
       CurrentAgreement, ProjectionMatchesSelected, DerivedOfCurrent

\* What a step owes each chunk.
ChunkKept(c) == SelectionOK(c)' /\ (DerivedOK(c) => DerivedOK(c)')

\* An operation on one chunk leaves the rows of every other chunk alone.
Untouched(d) ==
  /\ versions'[d] = versions[d] /\ issued'[d] = issued[d]
  /\ current'[d] = current[d] /\ text'[d] = text[d]
  /\ assigned'[d] = assigned[d] /\ tags'[d] = tags[d] /\ tokens'[d] = tokens[d]

LEMMA UntouchedKept ==
  ASSUME NEW d \in Chunks, SelectionOK(d), Untouched(d)
  PROVE  ChunkKept(d)
BY DEF ChunkKept, SelectionOK, DerivedOK, Untouched, Live

\* After _activate the selection, its projection and the derived rows agree,
\* whatever state it started from.
LEMMA ActivateSelects ==
  ASSUME TypeOK, NEW c \in Chunks, NEW i \in Ids, NEW rows \in [Ids -> Row],
         rows[i] \in LiveRow, Activate(c, i, rows)
  PROVE  /\ \A j \in Ids : versions'[c][j].current <=> current'[c] = j
         /\ \A j \in Ids : /\ versions'[c][j].no = rows[j].no
                           /\ versions'[c][j].text = rows[j].text
         /\ Live(c)' = {j \in Ids : rows[j] \in LiveRow}
         /\ current'[c] = i /\ assigned'[c] = i /\ text'[c] = rows[i].text
         /\ tags'[c] = NoRow /\ tokens'[c] = NoRow
         /\ \A d \in Chunks \ {c} : issued'[d] = issued[d] => Untouched(d)
<1>1. versions'[c] = Selected(rows, i) /\ current'[c] = i
  BY DEF Activate, TypeOK
<1>2. \A j \in Ids : Selected(rows, i)[j] \in Row
  BY SelectedRows
<1>3. Live(c)' = {j \in Ids : rows[j] \in LiveRow}
  <2>1. \A j \in Ids : Selected(rows, i)[j].status # "absent" <=> rows[j] \in LiveRow
    <3> TAKE j \in Ids
    <3>1. Selected(rows, i)[j] \in LiveRow <=> rows[j] \in LiveRow
      BY SelectedRows
    <3> QED
      BY <1>2, <3>1, LiveRows
  <2> QED
    BY <1>1, <2>1 DEF Live
<1>4. \A j \in Ids : versions'[c][j].current <=> current'[c] = j
  BY <1>1, SelectedRows
<1>5. \A j \in Ids : versions'[c][j].no = rows[j].no /\ versions'[c][j].text = rows[j].text
  BY <1>1, SelectedRows
<1>6. /\ assigned'[c] = i /\ text'[c] = rows[i].text
      /\ tags'[c] = NoRow /\ tokens'[c] = NoRow
      /\ \A d \in Chunks \ {c} : issued'[d] = issued[d] => Untouched(d)
  BY DEF Activate, Invalidate, TypeOK, Untouched
<1> QED
  BY <1>1, <1>3, <1>4, <1>5, <1>6

\* Selecting among the existing rows keeps the invariant.
LEMMA ActivateExisting ==
  ASSUME SelectionInv, NEW c \in Chunks, NEW i \in Live(c), Activate(c, i, versions[c]),
         UNCHANGED issued
  PROVE  \A d \in Chunks : ChunkKept(d)
<1>0. TypeOK /\ \A d \in Chunks : SelectionOK(d)
  BY InvByChunk
<1>1. versions[c] \in [Ids -> Row] /\ i \in Ids /\ versions[c][i] \in LiveRow
  BY <1>0, RowTypes
<1>2. Live(c)' = Live(c)
  <2>1. Live(c) = {j \in Ids : versions[c][j] \in LiveRow}
    BY <1>1, LiveRows DEF Live
  <2> QED
    BY <1>0, <1>1, <2>1, ActivateSelects
<1>3. ChunkKept(c)
  <2>1. /\ \A j \in Live(c)' : j <= issued'[c]
        /\ \A j, k \in Live(c)' : versions'[c][j].no = versions'[c][k].no => j = k
    BY <1>0, <1>1, <1>2, ActivateSelects DEF SelectionOK, Live
  <2>2. i # NoRow
    BY <1>1, IdsAreNat
  <2> QED
    BY <1>0, <1>1, <2>1, <2>2, ActivateSelects DEF ChunkKept, SelectionOK, DerivedOK
<1>4. ASSUME NEW d \in Chunks \ {c} PROVE ChunkKept(d)
  BY <1>0, <1>1, <1>4, ActivateSelects, UntouchedKept
<1> QED
  BY <1>3, <1>4

\* MAX + 1 is unused, so inserting and selecting a row keeps the invariant.
LEMMA InsertKeeps ==
  ASSUME SelectionInv, NEW c \in Chunks, NEW n \in Ids, NEW t \in Texts,
         IsNextNo(c, n), InsertAndActivate(c, n, t)
  PROVE  \A d \in Chunks : ChunkKept(d)
<1> DEFINE i == issued[c] + 1
           rows == WithNewRow(versions[c], i, n, t)
<1>0. TypeOK /\ \A d \in Chunks : SelectionOK(d)
  BY InvByChunk
<1>1. i \in Ids /\ issued'[c] = i /\ issued[c] \in Nat
  BY <1>0, ChunkVersionsAssumption DEF TypeOK, InsertAndActivate, Ids
<1>2. rows \in [Ids -> Row] /\ rows[i] \in LiveRow
  BY <1>0, <1>1, WithNewRowType, IdsAreNat DEF TypeOK
<1>3. Activate(c, i, rows)
  BY DEF InsertAndActivate
<1>4. {j \in Ids : rows[j] \in LiveRow} = Live(c) \cup {i}
  BY <1>0, <1>1, <1>2, LiveRows DEF TypeOK, Live, WithNewRow
<1>5. rows[i].no = n /\ \A j \in Live(c) : j # i /\ rows[j] = versions[c][j]
  BY <1>0, <1>1 DEF TypeOK, Live, WithNewRow, SelectionOK
<1> HIDE DEF rows
<1>6. Live(c)' = Live(c) \cup {i}
  BY <1>0, <1>1, <1>2, <1>3, <1>4, ActivateSelects
<1>7. ChunkKept(c)
  <2>1. \A j \in Live(c)' : j <= issued'[c]
    <3>1. \A j \in Live(c) : j \in Nat /\ j <= issued[c]
      BY <1>0, IdsAreNat DEF SelectionOK, Live
    <3> QED
      BY <1>1, <1>6, <3>1
  <2>2. \A j \in Live(c)' : versions'[c][j].no = IF j = i THEN n ELSE versions[c][j].no
    BY <1>0, <1>1, <1>2, <1>3, <1>5, <1>6, ActivateSelects DEF Live
  <2>3. \A j \in Live(c) : versions[c][j].no < n
    BY DEF IsNextNo
  <2>4. \A j \in Live(c) : versions[c][j].no \in Nat
    BY <1>0, LiveRows DEF Live, TypeOK
  <2>5. \A j, k \in Live(c)' : versions'[c][j].no = versions'[c][k].no => j = k
    BY <1>0, <1>6, <2>2, <2>3, <2>4, IdsAreNat DEF SelectionOK
  <2>6. i # NoRow
    BY <1>1, IdsAreNat
  <2> QED
    BY <1>0, <1>1, <1>2, <1>3, <2>1, <2>5, <2>6, ActivateSelects DEF ChunkKept, SelectionOK, DerivedOK
<1>8. ASSUME NEW d \in Chunks \ {c} PROVE ChunkKept(d)
  <2>1. issued'[d] = issued[d]
    BY <1>0 DEF InsertAndActivate, TypeOK
  <2> QED
    BY <1>0, <1>1, <1>2, <1>3, <2>1, ActivateSelects, UntouchedKept
<1> QED
  BY <1>7, <1>8

\* entity_update inserts and selects like append, retiring by the pointer.
LEMMA EntityUpdateKeeps ==
  ASSUME SelectionInv, NEW c \in Chunks, NEW t \in Texts, EntityUpdate(c, t)
  PROVE  \A d \in Chunks : ChunkKept(d)
<1> DEFINE i == issued[c] + 1
<1>0. TypeOK /\ \A d \in Chunks : SelectionOK(d)
  BY InvByChunk
<1>1. i \in Ids /\ issued'[c] = i /\ issued[c] \in Nat
  BY <1>0, ChunkVersionsAssumption DEF TypeOK, EntityUpdate, Ids
<1>2. PICK n \in Ids :
        /\ IsNextNo(c, n)
        /\ versions' = [versions EXCEPT ![c] = [j \in Ids |->
             IF j = i THEN [no |-> n, text |-> t, status |-> "active", current |-> TRUE]
             ELSE IF j = current[c] THEN Retired(versions[c][j])
             ELSE versions[c][j]]]
  BY DEF EntityUpdate
<1>3. \A j \in Ids : versions'[c][j] =
             IF j = i THEN [no |-> n, text |-> t, status |-> "active", current |-> TRUE]
             ELSE IF j = current[c] THEN Retired(versions[c][j])
             ELSE versions[c][j]
  BY <1>0, <1>2 DEF TypeOK
<1>4. /\ versions'[c][i].no = n /\ versions'[c][i].text = t
      /\ versions'[c][i].status # "absent" /\ versions'[c][i].current = TRUE
  BY <1>1, <1>3
<1> HIDE DEF i
<1>5. ASSUME NEW j \in Ids \ {i}
      PROVE  /\ versions'[c][j].no = versions[c][j].no
             /\ versions'[c][j].status # "absent" <=> j \in Live(c)
             /\ versions'[c][j].current = FALSE
  <2>1. versions[c][j] \in Row
    BY <1>0 DEF TypeOK
  <2>2. CASE j = current[c]
    <3>1. versions[c][j] \in LiveRow /\ j \in Live(c)
      BY <1>0, <2>2, IdsAreNat, RowTypes DEF TypeOK, CurrentRefersToRow
    <3>2. versions'[c][j] = Retired(versions[c][j])
      BY <1>3, <2>2
    <3>3. Retired(versions[c][j]).status # "absent"
      BY <3>1, RetiredRow
    <3> QED
      BY <3>1, <3>2, <3>3, RetiredRow
  <2>3. CASE j # current[c]
    <3>1. versions'[c][j] = versions[c][j]
      BY <1>3, <2>3
    <3>2. versions[c][j].current = FALSE
      BY <1>0, <2>1, <2>3, LiveRows DEF SelectionOK
    <3> QED
      BY <3>1, <3>2 DEF Live
  <2> QED
    BY <2>2, <2>3
<1>6. Live(c)' = Live(c) \cup {i}
  BY <1>1, <1>4, <1>5 DEF Live
<1>7. /\ current'[c] = i /\ text'[c] = t /\ assigned'[c] = i
      /\ tags'[c] = NoRow /\ tokens'[c] = NoRow
  BY <1>0 DEF EntityUpdate, TypeOK, i
<1>8. ChunkKept(c)
  <2>1. \A j \in Live(c) : /\ j \in Ids /\ j \in Nat /\ j <= issued[c]
                          /\ versions[c][j].no \in Nat /\ versions[c][j].no < n
    <3> TAKE j \in Live(c)
    <3>1. j \in Ids /\ j <= issued[c] /\ versions[c][j].no < n
      BY <1>0, <1>2 DEF SelectionOK, Live, IsNextNo
    <3>2. versions[c][j] \in Row
      BY <1>0, <3>1 DEF TypeOK
    <3> QED
      BY <3>1, <3>2, IdsAreNat, LiveRows
  <2>2. i \notin Live(c) /\ i # NoRow
    BY <1>1, <2>1, IdsAreNat DEF i
  <2>3. \A j \in Live(c)' : j <= issued'[c]
    BY <1>1, <1>6, <2>1 DEF i
  <2>4. \A j, k \in Live(c)' : versions'[c][j].no = versions'[c][k].no => j = k
    <3>1. \A j \in Live(c) : versions'[c][j].no = versions[c][j].no
      BY <1>5, <2>1, <2>2
    <3>2. n \in Nat
      BY IdsAreNat
    <3> QED
      BY <1>0, <1>4, <1>6, <2>1, <3>1, <3>2 DEF SelectionOK
  <2>5. \A j \in Ids : versions'[c][j].current <=> current'[c] = j
    BY <1>4, <1>5, <1>7
  <2> QED
    BY <1>4, <1>7, <2>2, <2>3, <2>4, <2>5 DEF ChunkKept, SelectionOK, DerivedOK
<1>9. ASSUME NEW d \in Chunks \ {c} PROVE ChunkKept(d)
  <2>1. Untouched(d)
    BY <1>0, <1>2 DEF EntityUpdate, TypeOK, Untouched
  <2> QED
    BY <1>0, <2>1, UntouchedKept
<1> QED
  BY <1>8, <1>9

\* Hard delete: the cascades clear exactly what pointed at the row.
LEMMA DeleteKeeps ==
  ASSUME SelectionInv, NEW c \in Chunks, NEW k, DeleteVersion(c, k)
  PROVE  \A d \in Chunks : ChunkKept(d)
<1>0. TypeOK /\ \A d \in Chunks : SelectionOK(d)
  BY InvByChunk
<1>1. k \in Ids /\ k # NoRow /\ k # Null
  BY IdsAreNat DEF DeleteVersion, Live
<1>2. Live(c)' = Live(c) \ {k}
  BY <1>0 DEF DeleteVersion, TypeOK, Live, AbsentRow
<1>3. \A j \in Ids \ {k} : versions'[c][j] = versions[c][j]
  BY <1>0 DEF DeleteVersion, TypeOK
<1>4. versions'[c][k].current = FALSE
  BY <1>0, <1>1 DEF DeleteVersion, TypeOK, AbsentRow
<1>5. /\ current'[c] = (IF current[c] = k THEN NoRow ELSE current[c])
      /\ text'[c] = text[c] /\ issued'[c] = issued[c]
      /\ assigned'[c] = Unlinked(assigned[c], k)
      /\ tags'[c] = Unlinked(tags[c], k) /\ tokens'[c] = Unlinked(tokens[c], k)
  BY <1>0 DEF DeleteVersion, TypeOK
<1>6. ChunkKept(c)
  <2>1. \A j \in Live(c)' : j <= issued'[c]
    BY <1>0, <1>2, <1>5 DEF SelectionOK
  <2>2. \A j, l \in Live(c)' : versions'[c][j].no = versions'[c][l].no => j = l
    <3>1. \A j \in Live(c)' : j \in Live(c) /\ versions'[c][j] = versions[c][j]
      BY <1>2, <1>3 DEF Live
    <3> QED
      BY <1>0, <3>1 DEF SelectionOK
  <2>3. ASSUME NEW j \in Ids PROVE versions'[c][j].current <=> current'[c] = j
    <3>1. CASE j = k
      BY <1>1, <1>4, <1>5, <3>1
    <3>2. CASE j # k
      BY <1>0, <1>1, <1>3, <1>5, <3>2, IdsAreNat DEF SelectionOK
    <3> QED
      BY <3>1, <3>2
  <2>4. current'[c] # NoRow => text'[c] = versions'[c][current'[c]].text
    BY <1>0, <1>3, <1>5 DEF SelectionOK, TypeOK
  <2>5. DerivedOK(c) =>
          {assigned'[c], tags'[c], tokens'[c]} \subseteq {NoRow, Null, current'[c]}
    BY <1>1, <1>5 DEF DerivedOK, Unlinked
  <2> QED
    BY <2>1, <2>2, <2>3, <2>4, <2>5 DEF ChunkKept, SelectionOK, DerivedOK
<1>7. ASSUME NEW d \in Chunks \ {c} PROVE ChunkKept(d)
  <2>1. Untouched(d)
    BY <1>0 DEF DeleteVersion, TypeOK, Untouched
  <2> QED
    BY <1>0, <2>1, UntouchedKept
<1> QED
  BY <1>6, <1>7

\* retire_version of another row only changes its status.
LEMMA RetireOtherKeeps ==
  ASSUME SelectionInv, NEW c \in Chunks, NEW k, RetireOther(c, k)
  PROVE  \A d \in Chunks : ChunkKept(d)
<1>0. TypeOK /\ \A d \in Chunks : SelectionOK(d)
  BY InvByChunk
<1>1. k \in Ids /\ versions[c][k] \in LiveRow
  BY <1>0, RowTypes DEF RetireOther
<1>2. versions'[c][k] = [versions[c][k] EXCEPT !.status = "retired"]
  BY <1>0, <1>1 DEF RetireOther, TypeOK
<1>3. /\ versions'[c][k].no = versions[c][k].no /\ versions'[c][k].text = versions[c][k].text
      /\ versions'[c][k].current = versions[c][k].current
      /\ versions'[c][k].status # "absent"
  BY <1>1, <1>2 DEF LiveRow
<1>4. \A j \in Ids \ {k} : versions'[c][j] = versions[c][j]
  BY <1>0, <1>1 DEF RetireOther, TypeOK
<1>5. Live(c)' = Live(c)
  BY <1>1, <1>3, <1>4 DEF Live, RetireOther
<1>6. \A j \in Ids : /\ versions'[c][j].no = versions[c][j].no
                    /\ versions'[c][j].text = versions[c][j].text
                    /\ versions'[c][j].current = versions[c][j].current
  BY <1>3, <1>4
<1>7. UNCHANGED <<issued, current, text, assigned, tags, tokens>>
  BY DEF RetireOther, projection, derived
<1>8. Live(c) \subseteq Ids /\ current[c] \in Ids \cup {NoRow}
  BY <1>0 DEF Live, TypeOK
<1>9. ChunkKept(c)
  BY <1>0, <1>5, <1>6, <1>7, <1>8 DEF ChunkKept, SelectionOK, DerivedOK
<1>10. ASSUME NEW d \in Chunks \ {c} PROVE ChunkKept(d)
  <2>1. Untouched(d)
    BY <1>0, <1>7 DEF RetireOther, TypeOK, Untouched
  <2> QED
    BY <1>0, <2>1, UntouchedKept
<1> QED
  BY <1>9, <1>10

\* The metadata writer stores the selected version, or NULL without one.
LEMMA MetadataKeeps ==
  ASSUME SelectionInv, NEW c \in Chunks, ClassifyChunk(c) \/ \E empty \in BOOLEAN : ReplaceTags(c, empty)
  PROVE  \A d \in Chunks : ChunkKept(d)
<1>0. TypeOK /\ \A d \in Chunks : SelectionOK(d)
  BY InvByChunk
<1>1. UNCHANGED <<versions, issued, current, text, tokens>>
  BY DEF ClassifyChunk, ReplaceTags, history, projection, derived
<1>2. /\ assigned'[c] \in {assigned[c], CurrentOrNull(c)}
      /\ tags'[c] \in {tags[c], NoRow, CurrentOrNull(c)}
      /\ \A d \in Chunks \ {c} : assigned'[d] = assigned[d] /\ tags'[d] = tags[d]
  BY <1>0 DEF ClassifyChunk, ReplaceTags, TypeOK, derived, projection
<1>3. ChunkKept(c)
  <2>1. CASE current[c] = NoRow
    BY <1>0, <1>1, <1>2, <2>1 DEF ChunkKept, SelectionOK, DerivedOK, CurrentOrNull, Live
  <2>2. CASE current[c] # NoRow
    BY <1>0, <1>1, <1>2, <2>2 DEF ChunkKept, SelectionOK, DerivedOK, CurrentOrNull, Live
  <2> QED
    BY <2>1, <2>2
<1>4. ASSUME NEW d \in Chunks \ {c} PROVE ChunkKept(d)
  <2>1. Untouched(d)
    BY <1>1, <1>2 DEF Untouched
  <2> QED
    BY <1>0, <2>1, UntouchedKept
<1> QED
  BY <1>3, <1>4

LEMMA AppendKeeps ==
  ASSUME SelectionInv, NEW c \in Chunks, NEW t \in Texts, NEW e, AppendVersion(c, t, e)
  PROVE  \A d \in Chunks : ChunkKept(d)
BY InsertKeeps DEF AppendVersion

LEMMA RestoreKeeps ==
  ASSUME SelectionInv, NEW c \in Chunks, NEW k, NEW e, RestoreVersion(c, k, e)
  PROVE  \A d \in Chunks : ChunkKept(d)
BY InsertKeeps, RowTypes DEF RestoreVersion, SelectionInv

\* Every operation keeps every chunk's selection consistent.
LEMMA StepKeeps ==
  ASSUME SelectionInv, [Next]_chunkVars
  PROVE  \A d \in Chunks : ChunkKept(d)
<1>0. TypeOK /\ \A d \in Chunks : SelectionOK(d)
  BY InvByChunk
<1>1. ASSUME UNCHANGED <<history, projection, derived>>
      PROVE  \A d \in Chunks : ChunkKept(d)
  BY <1>0, <1>1, UntouchedKept DEF Untouched, history, projection, derived
<1>2. CASE UNCHANGED chunkVars
  BY <1>1, <1>2 DEF chunkVars
<1>3. ASSUME NEW c \in Chunks, ChunkOperation(c)
      PROVE  \A d \in Chunks : ChunkKept(d)
  <2>1. CASE \E t \in Texts : AppendVersion(c, t, Null)
    BY <2>1, AppendKeeps
  <2>2. CASE \E k \in Ids : RestoreVersion(c, k, Null)
    BY <2>2, RestoreKeeps
  <2>3. CASE \E k \in Ids : SetCurrent(c, k)
    BY <2>3, ActivateExisting DEF SetCurrent
  <2>4. CASE \E k \in Ids : RetireOther(c, k)
    BY <2>4, RetireOtherKeeps
  <2>5. CASE \E k \in Ids, r \in Ids : RetireCurrent(c, k, r)
    BY <2>5, ActivateExisting DEF RetireCurrent
  <2>6. CASE \E k \in Ids : DeleteVersion(c, k)
    BY <2>6, DeleteKeeps
  <2>7. CASE \E t \in Texts : EntityUpdate(c, t)
    BY <2>7, EntityUpdateKeeps
  <2>8. CASE ClassifyChunk(c) \/ \E empty \in BOOLEAN : ReplaceTags(c, empty)
    BY <2>8, MetadataKeeps
  <2> QED
    BY <1>3, <2>1, <2>2, <2>3, <2>4, <2>5, <2>6, <2>7, <2>8 DEF ChunkOperation, VersionOperation
<1>4. ASSUME NEW c \in Chunks, NEW w \in Writers, WriterOperation(w, c)
      PROVE  \A d \in Chunks : ChunkKept(d)
  <2>1. CASE ReadCurrent(w, c)
    BY <1>1, <2>1 DEF ReadCurrent
  <2>2. CASE \E t \in Texts : AppendExpecting(w, c, t)
    BY <2>2, AppendKeeps DEF AppendExpecting
  <2>3. CASE \E k \in Ids : RestoreExpecting(w, c, k)
    BY <2>3, RestoreKeeps DEF RestoreExpecting
  <2> QED
    BY <1>4, <2>1, <2>2, <2>3 DEF WriterOperation
<1> QED
  BY <1>2, <1>3, <1>4 DEF Next

LEMMA InitOK ==
  ASSUME Init
  PROVE  \A c \in Chunks : SelectionOK(c) /\ DerivedOK(c)
<1> TAKE c \in Chunks
<1>1. /\ \A i \in Ids : versions[c][i] =
           IF i = 1 THEN [no |-> 1, text |-> text[c], status |-> "active", current |-> TRUE]
                    ELSE AbsentRow
      /\ issued[c] = 1 /\ current[c] = 1
      /\ {assigned[c], tags[c], tokens[c]} \subseteq {NoRow, Null, 1}
  BY DEF Init
<1>2. Live(c) = {1}
  <2>1. \A i \in Ids : versions[c][i].status # "absent" <=> i = 1
    BY <1>1 DEF AbsentRow
  <2> QED
    BY <2>1, IdsAreNat DEF Live
<1>3. \A i \in Ids : versions[c][i].current <=> current[c] = i
  BY <1>1 DEF AbsentRow
<1> QED
  BY <1>1, <1>2, <1>3, IdsAreNat DEF SelectionOK, DerivedOK, NoRow

\* A step keeps the part on the rows and the selection, whoever writes tag,
\* classifier and token rows beside it.
LEMMA SelectionStep ==
  ASSUME SelectionInv, [Next]_chunkVars
  PROVE  SelectionInv'
<1>1. TypeOK'
  BY TypeStep DEF SelectionInv
<1>2. \A d \in Chunks : SelectionOK(d)'
  BY StepKeeps DEF ChunkKept
<1> QED
  BY <1>1, <1>2 DEF SelectionInv, SelectionOK, RowIdsInOrder, UniqueVersionNumbers,
                    CurrentAgreement, ProjectionMatchesSelected

\* The invariant, for every instance.
THEOREM InvHolds == Spec => []Inv
<1>1. Init => Inv
  BY InitOK, InitType, InvByChunk DEF Inv
<1>2. Inv /\ [Next]_chunkVars => Inv'
  <2> SUFFICES ASSUME Inv, [Next]_chunkVars PROVE Inv'
    OBVIOUS
  <2>1. SelectionInv'
    BY SelectionStep DEF Inv
  <2>2. \A d \in Chunks : DerivedOK(d)'
    BY StepKeeps, InvByChunk DEF Inv, ChunkKept
  <2> QED
    BY <2>1, <2>2 DEF Inv, DerivedOK, DerivedOfCurrent
<1> QED
  BY <1>1, <1>2, PTL DEF Spec

\* Version numbers of surviving rows are unique (append, restore and
\* entity_update number by MAX + 1; hard deletes may free a number).
THEOREM VersionNumbersUnique == Spec => []UniqueVersionNumbers
BY InvHolds, PTL DEF Inv, SelectionInv

\* is_current and semantic_chunk_current name the same row.
THEOREM SelectionAgrees == Spec => []CurrentAgreement
BY InvHolds, PTL DEF Inv, SelectionInv

\* Readers of semantic_chunk_texts see the text of the selected version.
THEOREM ProjectionCorrect == Spec => []ProjectionMatchesSelected
BY InvHolds, PTL DEF Inv, SelectionInv

\* No classifier, tag or token row of an earlier text is left behind.
THEOREM DerivedCurrent == Spec => []DerivedOfCurrent
BY InvHolds, PTL DEF Inv, SelectionInv

-----------------------------------------------------------------------------
(* What a step may never do to the history of a chunk, and the optimistic   *)
(* lock of the version commands.                                           *)

\* A step keeps the rows of chunk c that it does not delete: a surviving id
\* names the row it named, an id above `issued` names a numbered new row, and
\* the selection is lost only with the selected row.
RowsKept(c) ==
  /\ issued[c] <= issued'[c]
  /\ \A i \in Live(c)' :
       IF i <= issued[c]
       THEN /\ i \in Live(c)
            /\ versions'[c][i].no = versions[c][i].no
            /\ versions'[c][i].text = versions[c][i].text
       ELSE versions'[c][i].no # Null
  /\ current[c] # NoRow /\ current'[c] = NoRow => current[c] \notin Live(c)'

\* What the invariant says of one chunk.
LEMMA ChunkTypes ==
  ASSUME SelectionInv, NEW c \in Chunks
  PROVE  /\ TypeOK /\ SelectionOK(c)
         /\ issued[c] \in Nat
         /\ Live(c) \subseteq Ids
         /\ \A i \in Live(c) : i \in Nat /\ i <= issued[c]
BY InvByChunk, IdsAreNat, ChunkVersionsAssumption DEF TypeOK, Live, SelectionOK

LEMMA UntouchedRows ==
  ASSUME SelectionInv, NEW c \in Chunks,
         versions'[c] = versions[c], issued'[c] = issued[c], current'[c] = current[c]
  PROVE  RowsKept(c)
<1>1. Live(c)' = Live(c)
  BY DEF Live
<1> QED
  BY <1>1, ChunkTypes DEF RowsKept

\* Selecting among the existing rows (set_current, retire_version).
LEMMA ActivateRows ==
  ASSUME SelectionInv, NEW c \in Chunks, NEW k \in Live(c), Activate(c, k, versions[c]),
         UNCHANGED issued
  PROVE  \A d \in Chunks : RowsKept(d)
<1>0. TypeOK /\ k \in Ids /\ versions[c] \in [Ids -> Row] /\ versions[c][k] \in LiveRow
  BY ChunkTypes, RowTypes
<1>1. Live(c)' = Live(c)
  <2>1. Live(c) = {j \in Ids : versions[c][j] \in LiveRow}
    BY <1>0, LiveRows DEF Live
  <2> QED
    BY <1>0, <2>1, ActivateSelects
<1>2. RowsKept(c)
  <2>1. current'[c] = k /\ k # NoRow
    BY <1>0, IdsAreNat, ActivateSelects
  <2>2. \A j \in Ids : /\ versions'[c][j].no = versions[c][j].no
                      /\ versions'[c][j].text = versions[c][j].text
    BY <1>0, ActivateSelects
  <2> QED
    BY <1>1, <2>1, <2>2, ChunkTypes DEF RowsKept
<1>3. ASSUME NEW d \in Chunks \ {c} PROVE RowsKept(d)
  <2>1. Untouched(d)
    BY <1>0, ActivateSelects
  <2> QED
    BY <2>1, UntouchedRows DEF Untouched
<1> QED
  BY <1>2, <1>3

\* Inserting (append_version, update_text, restore_version).
LEMMA InsertRows ==
  ASSUME SelectionInv, NEW c \in Chunks, NEW n \in Ids, NEW t \in Texts, InsertAndActivate(c, n, t)
  PROVE  \A d \in Chunks : RowsKept(d)
<1> DEFINE i == issued[c] + 1
           rows == WithNewRow(versions[c], i, n, t)
<1>0. TypeOK /\ versions[c] \in [Ids -> Row]
  BY ChunkTypes DEF TypeOK
<1>1. i \in Ids /\ issued'[c] = i /\ issued[c] \in Nat
  BY <1>0, ChunkVersionsAssumption DEF TypeOK, InsertAndActivate, Ids
<1>2. rows \in [Ids -> Row] /\ rows[i] \in LiveRow
  BY <1>0, <1>1, WithNewRowType, IdsAreNat
<1>3. Activate(c, i, rows)
  BY DEF InsertAndActivate
<1>4. rows[i].no = n /\ \A j \in Ids \ {i} : rows[j] = versions[c][j]
  BY <1>0, <1>1 DEF WithNewRow
<1> HIDE DEF rows
<1>5. /\ current'[c] = i
      /\ Live(c)' = {j \in Ids : rows[j] \in LiveRow}
      /\ \A j \in Ids : /\ versions'[c][j].no = rows[j].no
                        /\ versions'[c][j].text = rows[j].text
      /\ \A d \in Chunks \ {c} : issued'[d] = issued[d] => Untouched(d)
  BY <1>0, <1>1, <1>2, <1>3, ActivateSelects
<1>6. RowsKept(c)
  <2>1. ASSUME NEW j \in Live(c)', j <= issued[c]
        PROVE  /\ j \in Live(c)
               /\ versions'[c][j].no = versions[c][j].no
               /\ versions'[c][j].text = versions[c][j].text
    <3>1. j \in Ids \ {i} /\ rows[j] \in LiveRow
      BY <1>1, <1>5, <2>1, IdsAreNat
    <3>2. rows[j] = versions[c][j]
      BY <1>4, <3>1
    <3> QED
      BY <1>0, <1>5, <3>1, <3>2, LiveRows DEF Live
  <2>2. ASSUME NEW j \in Live(c)', ~(j <= issued[c])
        PROVE  versions'[c][j].no # Null
    <3>1. j \in Ids /\ rows[j] \in LiveRow
      BY <1>5
    <3>2. CASE j = i
      BY <1>4, <1>5, <3>1, <3>2, IdsAreNat
    <3>3. CASE j # i
      <4>1. j \in Live(c)
        BY <1>0, <1>4, <3>1, <3>3, LiveRows DEF Live
      <4> QED
        BY <2>2, <4>1, ChunkTypes
    <3> QED
      BY <3>2, <3>3
  <2>3. current'[c] # NoRow
    BY <1>1, <1>5, IdsAreNat
  <2> QED
    BY <1>1, <2>1, <2>2, <2>3 DEF RowsKept
<1>7. ASSUME NEW d \in Chunks \ {c} PROVE RowsKept(d)
  <2>1. issued'[d] = issued[d]
    BY <1>0 DEF InsertAndActivate, TypeOK
  <2> QED
    BY <1>5, <2>1, UntouchedRows DEF Untouched
<1> QED
  BY <1>6, <1>7

\* entity_update, which retires by the pointer.
LEMMA EntityUpdateRows ==
  ASSUME SelectionInv, NEW c \in Chunks, NEW t \in Texts, EntityUpdate(c, t)
  PROVE  \A d \in Chunks : RowsKept(d)
<1> DEFINE i == issued[c] + 1
<1>0. TypeOK /\ issued[c] \in Nat
  BY ChunkTypes
<1>1. i \in Ids /\ issued'[c] = i /\ current'[c] = i
  BY <1>0, ChunkVersionsAssumption DEF TypeOK, EntityUpdate, Ids
<1>2. PICK n \in Ids :
        versions' = [versions EXCEPT ![c] = [j \in Ids |->
          IF j = i THEN [no |-> n, text |-> t, status |-> "active", current |-> TRUE]
          ELSE IF j = current[c] THEN Retired(versions[c][j])
          ELSE versions[c][j]]]
  BY DEF EntityUpdate
<1>3. versions'[c][i].no = n
  BY <1>0, <1>1, <1>2 DEF TypeOK
<1>4. \A j \in Ids \ {i} : versions'[c][j] =
        IF j = current[c] THEN Retired(versions[c][j]) ELSE versions[c][j]
  BY <1>0, <1>2 DEF TypeOK
<1>5. ASSUME NEW j \in Ids \ {i}, versions'[c][j].status # "absent"
      PROVE  /\ j \in Live(c)
             /\ versions'[c][j].no = versions[c][j].no
             /\ versions'[c][j].text = versions[c][j].text
  <2>1. CASE j = current[c]
    <3>1. versions[c][j] \in LiveRow /\ j \in Live(c)
      BY <1>0, <2>1, IdsAreNat, RowTypes DEF TypeOK, CurrentRefersToRow
    <3> QED
      BY <1>4, <2>1, <3>1, RetiredRow
  <2>2. CASE j # current[c]
    BY <1>4, <1>5, <2>2 DEF Live
  <2> QED
    BY <2>1, <2>2
<1>6. RowsKept(c)
  <2>1. ASSUME NEW j \in Live(c)', j <= issued[c]
        PROVE  /\ j \in Live(c)
               /\ versions'[c][j].no = versions[c][j].no
               /\ versions'[c][j].text = versions[c][j].text
    <3>1. j \in Ids \ {i} /\ versions'[c][j].status # "absent"
      BY <1>0, <2>1, IdsAreNat DEF Live
    <3> QED
      BY <1>5, <3>1
  <2>2. ASSUME NEW j \in Live(c)', ~(j <= issued[c])
        PROVE  versions'[c][j].no # Null
    <3>1. CASE j = i
      BY <1>3, <3>1, IdsAreNat
    <3>2. CASE j # i
      <4>1. j \in Live(c)
        BY <1>5, <3>2 DEF Live
      <4> QED
        BY <2>2, <4>1, ChunkTypes
    <3> QED
      BY <3>1, <3>2
  <2>3. current'[c] # NoRow
    BY <1>1, IdsAreNat
  <2> QED
    BY <1>0, <1>1, <2>1, <2>2, <2>3 DEF RowsKept
<1>7. ASSUME NEW d \in Chunks \ {c} PROVE RowsKept(d)
  <2>1. versions'[d] = versions[d] /\ issued'[d] = issued[d] /\ current'[d] = current[d]
    BY <1>0, <1>2 DEF EntityUpdate, TypeOK
  <2> QED
    BY <2>1, UntouchedRows
<1> QED
  BY <1>6, <1>7

\* delete_version and retire_version of another row.
LEMMA DeleteRows ==
  ASSUME SelectionInv, NEW c \in Chunks, NEW k, DeleteVersion(c, k)
  PROVE  \A d \in Chunks : RowsKept(d)
<1>0. TypeOK /\ k \in Ids
  BY ChunkTypes DEF DeleteVersion
<1>1. Live(c)' = Live(c) \ {k}
  BY <1>0 DEF DeleteVersion, TypeOK, Live, AbsentRow
<1>2. \A j \in Ids \ {k} : versions'[c][j] = versions[c][j]
  BY <1>0 DEF DeleteVersion, TypeOK
<1>3. /\ issued' = issued
      /\ current'[c] = IF current[c] = k THEN NoRow ELSE current[c]
  BY <1>0 DEF DeleteVersion, TypeOK
<1>4. RowsKept(c)
  <2>1. \A j \in Live(c)' : /\ j <= issued[c] /\ j \in Live(c)
                           /\ versions'[c][j] = versions[c][j]
    BY <1>1, <1>2, ChunkTypes
  <2>2. current[c] # NoRow /\ current'[c] = NoRow => current[c] \notin Live(c)'
    BY <1>1, <1>3
  <2> QED
    BY <1>3, <2>1, <2>2, ChunkTypes DEF RowsKept
<1>5. ASSUME NEW d \in Chunks \ {c} PROVE RowsKept(d)
  <2>1. versions'[d] = versions[d] /\ issued'[d] = issued[d] /\ current'[d] = current[d]
    BY <1>0 DEF DeleteVersion, TypeOK
  <2> QED
    BY <2>1, UntouchedRows
<1> QED
  BY <1>4, <1>5

LEMMA RetireOtherRows ==
  ASSUME SelectionInv, NEW c \in Chunks, NEW k, RetireOther(c, k)
  PROVE  \A d \in Chunks : RowsKept(d)
<1>0. TypeOK /\ k \in Ids /\ k \in Live(c) /\ versions[c][k] \in LiveRow
  BY ChunkTypes, RowTypes DEF RetireOther
<1>1. versions'[c][k] = [versions[c][k] EXCEPT !.status = "retired"]
  BY <1>0 DEF RetireOther, TypeOK
<1>2. versions'[c][k].no = versions[c][k].no /\ versions'[c][k].text = versions[c][k].text
  BY <1>0, <1>1 DEF LiveRow
<1>3. \A j \in Ids \ {k} : versions'[c][j] = versions[c][j]
  BY <1>0 DEF RetireOther, TypeOK
<1>4. issued' = issued /\ current' = current
  BY DEF RetireOther, projection
<1>5. RowsKept(c)
  <2>1. \A j \in Live(c)' : j \in Live(c)
    BY <1>0, <1>3 DEF Live
  <2>2. \A j \in Live(c)' : /\ versions'[c][j].no = versions[c][j].no
                           /\ versions'[c][j].text = versions[c][j].text
    BY <1>2, <1>3, <2>1, ChunkTypes
  <2> QED
    BY <1>4, <2>1, <2>2, ChunkTypes DEF RowsKept
<1>6. ASSUME NEW d \in Chunks \ {c} PROVE RowsKept(d)
  <2>1. versions'[d] = versions[d]
    BY <1>0 DEF RetireOther, TypeOK
  <2> QED
    BY <1>4, <2>1, UntouchedRows
<1> QED
  BY <1>5, <1>6

\* No operation rewrites or revives a row.
LEMMA StepRows ==
  ASSUME SelectionInv, [Next]_chunkVars
  PROVE  \A d \in Chunks : RowsKept(d)
<1>1. ASSUME UNCHANGED <<history, current>> PROVE \A d \in Chunks : RowsKept(d)
  BY <1>1, UntouchedRows DEF history
<1>2. CASE UNCHANGED chunkVars
  BY <1>1, <1>2 DEF chunkVars, projection
<1>3. ASSUME NEW c \in Chunks, NEW t \in Texts, NEW e, AppendVersion(c, t, e)
      PROVE  \A d \in Chunks : RowsKept(d)
  BY <1>3, InsertRows DEF AppendVersion
<1>4. ASSUME NEW c \in Chunks, NEW k, NEW e, RestoreVersion(c, k, e)
      PROVE  \A d \in Chunks : RowsKept(d)
  <2>1. versions[c][k].text \in Texts
    BY <1>4, ChunkTypes, RowTypes DEF RestoreVersion
  <2> QED
    BY <1>4, <2>1, InsertRows DEF RestoreVersion
<1>5. ASSUME NEW c \in Chunks, ChunkOperation(c)
      PROVE  \A d \in Chunks : RowsKept(d)
  <2>1. CASE \E t \in Texts : AppendVersion(c, t, Null)
    BY <1>3, <2>1
  <2>2. CASE \E k \in Ids : RestoreVersion(c, k, Null)
    BY <1>4, <2>2
  <2>3. CASE \E k \in Ids : SetCurrent(c, k)
    BY <2>3, ActivateRows DEF SetCurrent
  <2>4. CASE \E k \in Ids : RetireOther(c, k)
    BY <2>4, RetireOtherRows
  <2>5. CASE \E k \in Ids, r \in Ids : RetireCurrent(c, k, r)
    BY <2>5, ActivateRows DEF RetireCurrent
  <2>6. CASE \E k \in Ids : DeleteVersion(c, k)
    BY <2>6, DeleteRows
  <2>7. CASE \E t \in Texts : EntityUpdate(c, t)
    BY <2>7, EntityUpdateRows
  <2>8. CASE ClassifyChunk(c) \/ \E empty \in BOOLEAN : ReplaceTags(c, empty)
    BY <1>1, <2>8 DEF ClassifyChunk, ReplaceTags, projection
  <2> QED
    BY <1>5, <2>1, <2>2, <2>3, <2>4, <2>5, <2>6, <2>7, <2>8 DEF ChunkOperation, VersionOperation
<1>6. ASSUME NEW c \in Chunks, NEW w \in Writers, WriterOperation(w, c)
      PROVE  \A d \in Chunks : RowsKept(d)
  <2>1. CASE ReadCurrent(w, c)
    BY <1>1, <2>1 DEF ReadCurrent, projection
  <2>2. CASE \E t \in Texts : AppendExpecting(w, c, t)
    BY <1>3, <2>2 DEF AppendExpecting
  <2>3. CASE \E k \in Ids : RestoreExpecting(w, c, k)
    BY <1>4, <2>3 DEF RestoreExpecting
  <2> QED
    BY <1>6, <2>1, <2>2, <2>3 DEF WriterOperation
<1> QED
  BY <1>2, <1>5, <1>6 DEF Next

\* list, get and diff stay reproducible: whatever append, restore, select,
\* retire, delete and entity_update do, a surviving row keeps number and text.
THEOREM HistoryPreserved == Spec => HistoryAppendOnly
<1>1. Inv /\ [Next]_chunkVars =>
        \A c \in Chunks : \A i \in Live(c) :
          i \in Live(c)' => /\ versions'[c][i].no = versions[c][i].no
                           /\ versions'[c][i].text = versions[c][i].text
  BY StepRows, ChunkTypes DEF Inv, RowsKept
<1> QED
  BY <1>1, InvHolds, PTL DEF Spec, HistoryAppendOnly

\* Only delete_version of the selected row leaves a chunk without a selection.
THEOREM SelectionKept == Spec => SelectionLostOnlyByDelete
<1>1. Inv /\ [Next]_chunkVars =>
        \A c \in Chunks :
          current[c] # NoRow /\ current'[c] = NoRow => current[c] \notin Live(c)'
  BY StepRows DEF Inv, RowsKept
<1> QED
  BY <1>1, InvHolds, PTL DEF Spec, SelectionLostOnlyByDelete

-----------------------------------------------------------------------------
(* The optimistic lock.  A writer remembers a number and the row it named; *)
(* numbers may be reused after a hard delete, row ids are not.             *)

\* No surviving row has the number that stands for "not supplied".
NumbersGiven == \A c \in Chunks : \A i \in Live(c) : versions[c][i].no # Null

\* What a writer remembers names an issued row, which still has the number
\* read if it survives.
SeenNamesRow(w, c) ==
  seen[w][c] # Unseen =>
    /\ seen[w][c].no # Null
    /\ seen[w][c].id \in Ids /\ seen[w][c].id <= issued[c]
    /\ seen[w][c].id \in Live(c) => versions[c][seen[w][c].id].no = seen[w][c].no

LockInv ==
  /\ Inv
  /\ NumbersGiven
  /\ \A w \in Writers, c \in Chunks : SeenNamesRow(w, c)

\* A memory is made by a read and dropped by a write the lock let through.
LEMMA SeenChanges ==
  ASSUME TypeOK, [Next]_chunkVars, NEW w \in Writers, NEW c \in Chunks
  PROVE  \/ seen'[w][c] = seen[w][c]
         \/ ReadCurrent(w, c)
         \/ seen'[w][c] = Unseen /\ ExpectedIsCurrent(c, seen[w][c].no)
<1>1. CASE UNCHANGED seen
  BY <1>1
<1>2. CASE UNCHANGED chunkVars
  BY <1>2 DEF chunkVars
<1>3. ASSUME NEW d \in Chunks, ChunkOperation(d) PROVE UNCHANGED seen
  BY <1>3 DEF ChunkOperation, VersionOperation, SetCurrent, RetireOther, RetireCurrent, DeleteVersion,
              EntityUpdate, ClassifyChunk, ReplaceTags
<1>4. ASSUME NEW d \in Chunks, NEW v \in Writers, ReadCurrent(v, d)
      PROVE  seen'[w][c] = seen[w][c] \/ ReadCurrent(w, c)
  BY <1>4 DEF ReadCurrent, TypeOK
<1>5. ASSUME NEW d \in Chunks, NEW v \in Writers, Forget(v, d),
             ExpectedIsCurrent(d, seen[v][d].no)
      PROVE  \/ seen'[w][c] = seen[w][c]
             \/ seen'[w][c] = Unseen /\ ExpectedIsCurrent(c, seen[w][c].no)
  BY <1>5 DEF Forget, TypeOK
<1>6. ASSUME NEW d \in Chunks, NEW v \in Writers, WriterOperation(v, d)
      PROVE  \/ ReadCurrent(v, d)
             \/ Forget(v, d) /\ ExpectedIsCurrent(d, seen[v][d].no)
  BY <1>6 DEF WriterOperation, AppendExpecting, RestoreExpecting, AppendVersion, RestoreVersion
<1> QED
  BY <1>1, <1>2, <1>3, <1>4, <1>5, <1>6 DEF Next

LEMMA LockInvStep ==
  ASSUME LockInv, [Next]_chunkVars
  PROVE  /\ NumbersGiven'
         /\ \A w \in Writers, c \in Chunks : SeenNamesRow(w, c)'
<1>0. SelectionInv /\ TypeOK /\ \A d \in Chunks : RowsKept(d)
  BY StepRows DEF LockInv, Inv, SelectionInv
<1>1. NumbersGiven'
  BY <1>0 DEF LockInv, NumbersGiven, RowsKept
<1>2. ASSUME NEW w \in Writers, NEW c \in Chunks, seen'[w][c] = seen[w][c]
      PROVE  SeenNamesRow(w, c)'
  <2> SUFFICES ASSUME seen[w][c] # Unseen
               PROVE  /\ seen[w][c].no # Null
                      /\ seen[w][c].id \in Ids /\ seen[w][c].id <= issued'[c]
                      /\ seen[w][c].id \in Live(c)' =>
                           versions'[c][seen[w][c].id].no = seen[w][c].no
    BY <1>2 DEF SeenNamesRow
  <2> DEFINE i == seen[w][c].id
  <2>1. /\ seen[w][c].no # Null /\ i \in Ids /\ i \in Nat /\ i <= issued[c]
        /\ i \in Live(c) => versions[c][i].no = seen[w][c].no
    BY IdsAreNat DEF LockInv, SeenNamesRow
  <2>2. issued[c] \in Nat /\ issued'[c] \in Int /\ issued[c] <= issued'[c]
    BY <1>0, TypeStep, ChunkTypes, ChunkVersionsAssumption DEF RowsKept, TypeOK
  <2>3. i \in Live(c)' => versions'[c][i].no = seen[w][c].no
    BY <1>0, <2>1 DEF RowsKept
  <2> QED
    BY <2>1, <2>2, <2>3
<1>3. ASSUME NEW w \in Writers, NEW c \in Chunks, ReadCurrent(w, c)
      PROVE  SeenNamesRow(w, c)'
  <2>1. current[c] \in Live(c)
    BY <1>0, <1>3 DEF ReadCurrent, TypeOK, CurrentRefersToRow
  <2>2. seen'[w][c] = [no |-> versions[c][current[c]].no, id |-> current[c]]
    BY <1>0, <1>3 DEF ReadCurrent, TypeOK
  <2>3. issued' = issued /\ versions' = versions
    BY <1>3 DEF ReadCurrent, history
  <2>4. current[c] \in Ids /\ current[c] <= issued[c]
    BY <1>0, <2>1, ChunkTypes
  <2>5. versions[c][current[c]].no # Null
    BY <2>1 DEF LockInv, NumbersGiven
  <2> QED
    BY <2>2, <2>3, <2>4, <2>5 DEF SeenNamesRow
<1>4. ASSUME NEW w \in Writers, NEW c \in Chunks, seen'[w][c] = Unseen
      PROVE  SeenNamesRow(w, c)'
  BY <1>4 DEF SeenNamesRow
<1> QED
  BY <1>0, <1>1, <1>2, <1>3, <1>4, SeenChanges

THEOREM LockInvHolds == Spec => []LockInv
<1>1. Init /\ Inv => LockInv
  <2> SUFFICES ASSUME Init, Inv PROVE LockInv
    OBVIOUS
  <2>1. \A w \in Writers, c \in Chunks : SeenNamesRow(w, c)
    BY DEF Init, SeenNamesRow
  <2>2. NumbersGiven
    BY IdsAreNat DEF Init, NumbersGiven, Live, AbsentRow, Null
  <2> QED
    BY <2>1, <2>2 DEF LockInv
<1>2. LockInv /\ Inv' /\ [Next]_chunkVars => LockInv'
  BY LockInvStep DEF LockInv
<1> QED
  BY <1>1, <1>2, InvHolds, PTL DEF Spec

\* expected_current_version lets a write through only if the row the caller
\* read is still selected, or was hard-deleted since.
THEOREM StaleWriteRefused == Spec => LockDetectsIntervening
<1>1. LockInv /\ [Next]_chunkVars =>
        \A w \in Writers, c \in Chunks :
          seen[w][c] # Unseen /\ seen'[w][c] = Unseen =>
            \/ current[c] = seen[w][c].id
            \/ seen[w][c].id \notin Live(c)
  <2> SUFFICES ASSUME LockInv, [Next]_chunkVars, NEW w \in Writers, NEW c \in Chunks,
                      seen[w][c] # Unseen, seen'[w][c] = Unseen, seen[w][c].id \in Live(c)
               PROVE  current[c] = seen[w][c].id
    OBVIOUS
  <2>1. TypeOK /\ SelectionOK(c)
    BY ChunkTypes DEF LockInv, Inv
  <2>2. ~ReadCurrent(w, c)
    <3> SUFFICES ASSUME ReadCurrent(w, c) PROVE FALSE
      OBVIOUS
    <3>1. seen'[w][c].id = current[c] /\ current[c] \in Ids
      BY <2>1, IdsAreNat DEF ReadCurrent, TypeOK
    <3> QED
      BY <3>1, IdsAreNat DEF Unseen, Null
  <2>3. /\ ExpectedIsCurrent(c, seen[w][c].no)
        /\ seen[w][c].no # Null
        /\ versions[c][seen[w][c].id].no = seen[w][c].no
    BY <2>1, <2>2, SeenChanges DEF LockInv, SeenNamesRow
  <2>4. current[c] \in Live(c) /\ versions[c][current[c]].no = seen[w][c].no
    BY <2>1, <2>3 DEF ExpectedIsCurrent, TypeOK, CurrentRefersToRow
  <2> QED
    BY <2>1, <2>3, <2>4 DEF SelectionOK
<1> QED
  BY <1>1, LockInvHolds, PTL DEF Spec, LockDetectsIntervening

(***************************************************************************)
(* Part 2: the vectorization worker.                                       *)
(***************************************************************************)

\* A finite set of numbers has a largest one (the last document of a page).
LEMMA FiniteMax ==
  ASSUME NEW S \in SUBSET Int, IsFiniteSet(S), S # {}
  PROVE  \E m \in S : \A y \in S : y <= m
<1> DEFINE Bad == {U \in FiniteSubsetsOf(S) : U # {} /\ ~ \E m \in U : \A y \in U : y <= m}
<1>0. S \in FiniteSubsetsOf(S)
  BY DEF FiniteSubsetsOf
<1>1. SUFFICES ASSUME Bad # {} PROVE FALSE
  BY <1>0
<1>2. PICK U \in Bad : \A V \in Bad : <<V, U>> \notin StrictSubsetOrdering(S)
  <2>1. Bad \subseteq FiniteSubsetsOf(S)
    OBVIOUS
  <2> HIDE DEF Bad
  <2> QED
    BY <1>1, <2>1, FS_StrictSubsetOrderingWellFounded, WFMin
<1>3. PICK x \in U : TRUE
  OBVIOUS
<1>4. U \ {x} \notin Bad
  <2>1. <<U \ {x}, U>> \in StrictSubsetOrdering(S)
    BY DEF StrictSubsetOrdering, FiniteSubsetsOf
  <2> QED
    BY <1>2, <2>1
<1>5. U \ {x} \in FiniteSubsetsOf(S)
  BY FS_FiniteSubsetsOfFinite DEF FiniteSubsetsOf
<1>6. CASE U \ {x} = {}
  BY <1>3, <1>6 DEF FiniteSubsetsOf
<1>7. CASE U \ {x} # {}
  <2>1. PICK m \in U \ {x} : \A y \in U \ {x} : y <= m
    BY <1>4, <1>5, <1>7
  <2>2. m \in Int /\ x \in Int /\ U \subseteq Int
    BY DEF FiniteSubsetsOf
  <2>3. \A y \in U : y <= IF x <= m THEN m ELSE x
    BY <2>1, <2>2
  <2> QED
    BY <2>1, <2>3
<1> QED
  BY <1>6, <1>7

LEMMA LastType ==
  ASSUME NEW ds \in SUBSET Docs, ds # {}
  PROVE  Last(ds) \in Docs
<1>1. IsFiniteSet(Docs) /\ Docs \subseteq Int
  BY VectorizationAssumption
<1>2. IsFiniteSet(ds) /\ ds \subseteq Int
  BY <1>1, FS_Subset
<1>3. \E d \in ds : \A e \in ds : e <= d
  BY <1>2, FiniteMax
<1> QED
  BY <1>3 DEF Last

-----------------------------------------------------------------------------
(* What the chunk operations do to a stored vector and to the flags.       *)

\* A chunk operation never moves a vector to another version or text, and
\* deletes no version that a vector still names.
VectorKept(c) ==
  \A i \in Ids : vec'[c].version = i =>
    /\ vec[c].version = i /\ vec'[c].text = vec[c].text
    /\ i \in Live(c) => i \in Live(c)'

\* It never lowers a flag: chunk operations only ask for embedding.
FlagsRaised == \A d \in Docs : dirtyDoc[d] => dirtyDoc'[d]

\* A vector keeps its version and text, and every row stays.
LEMMA SameVector ==
  ASSUME NEW c \in Chunks, vec'[c].version = vec[c].version, vec'[c].text = vec[c].text,
         Live(c) \subseteq Live(c)'
  PROVE  VectorKept(c)
BY DEF VectorKept

LEMMA DeactivatedVector ==
  ASSUME NEW v \in Vector
  PROVE  Deactivated(v).version = v.version /\ Deactivated(v).text = v.text
BY DEF Deactivated, Vector

\* _activate over rows that keep every row of the chunk.
LEMMA ActivateVectors ==
  ASSUME TypeOK, NEW c \in Chunks, NEW i \in Ids, NEW rows \in [Ids -> Row],
         rows[i] \in LiveRow, \A j \in Live(c) : rows[j] \in LiveRow, Activate(c, i, rows)
  PROVE  /\ \A d \in Chunks : VectorKept(d)
         /\ FlagsRaised
<1>1. Live(c) \subseteq Live(c)'
  BY ActivateSelects DEF Live
<1>2. vec' = [vec EXCEPT ![c] = Deactivated(vec[c])]
  BY DEF Activate, Invalidate
<1>3. vec \in [Chunks -> Vector] /\ versions \in [Chunks -> [Ids -> Row]]
  BY DEF TypeOK
<1>4. VectorKept(c)
  BY <1>1, <1>2, <1>3, DeactivatedVector, SameVector
<1>5. ASSUME NEW d \in Chunks \ {c} PROVE VectorKept(d)
  <2>1. versions'[d] = versions[d] /\ vec'[d] = vec[d]
    BY <1>2, <1>3 DEF Activate
  <2> QED
    BY <2>1, SameVector DEF Live
<1>6. FlagsRaised
  BY DEF Activate, Invalidate, TypeOK, FlagsRaised
<1> QED
  BY <1>4, <1>5, <1>6

LEMMA InsertVectors ==
  ASSUME SelectionInv, NEW c \in Chunks, NEW n \in Ids, NEW t \in Texts,
         InsertAndActivate(c, n, t)
  PROVE  /\ \A d \in Chunks : VectorKept(d)
         /\ FlagsRaised
<1> DEFINE i == issued[c] + 1
           rows == WithNewRow(versions[c], i, n, t)
<1>1. TypeOK /\ versions[c] \in [Ids -> Row]
  BY ChunkTypes DEF TypeOK
<1>2. i \in Ids
  BY <1>1, ChunkVersionsAssumption DEF TypeOK, InsertAndActivate, Ids
<1>3. rows \in [Ids -> Row] /\ rows[i] \in LiveRow
  BY <1>1, <1>2, WithNewRowType, IdsAreNat
<1>4. \A j \in Live(c) : rows[j] \in LiveRow
  BY <1>1, <1>2, <1>3, RowTypes DEF WithNewRow
<1>5. Activate(c, i, rows)
  BY DEF InsertAndActivate
<1> HIDE DEF i, rows
<1> QED
  BY <1>1, <1>2, <1>3, <1>4, <1>5, ActivateVectors

LEMMA SelectVectors ==
  ASSUME SelectionInv, NEW c \in Chunks, NEW k \in Live(c), Activate(c, k, versions[c])
  PROVE  /\ \A d \in Chunks : VectorKept(d)
         /\ FlagsRaised
<1>1. TypeOK /\ k \in Ids /\ versions[c] \in [Ids -> Row]
  BY ChunkTypes, RowTypes
<1>2. \A j \in Live(c) : versions[c][j] \in LiveRow
  BY <1>1, RowTypes
<1> QED
  BY <1>1, <1>2, ActivateVectors

\* entity_update drops the vector of the chunk.
LEMMA EntityUpdateVectors ==
  ASSUME SelectionInv, NEW c \in Chunks, NEW t \in Texts, EntityUpdate(c, t)
  PROVE  /\ \A d \in Chunks : VectorKept(d)
         /\ FlagsRaised
<1>1. vec \in [Chunks -> Vector] /\ vec' = [vec EXCEPT ![c] = NoVector]
  BY ChunkTypes DEF TypeOK, EntityUpdate
<1>2. VectorKept(c)
  BY <1>1, IdsAreNat DEF VectorKept, NoVector
<1>3. ASSUME NEW d \in Chunks \ {c} PROVE VectorKept(d)
  <2>1. versions'[d] = versions[d] /\ vec'[d] = vec[d]
    BY <1>1, ChunkTypes DEF EntityUpdate, TypeOK
  <2> QED
    BY <2>1, SameVector DEF Live
<1> QED
  BY <1>2, <1>3 DEF EntityUpdate, flags, FlagsRaised

\* ON DELETE SET NULL reaches semantic_chunk_embeddings too.
LEMMA DeleteVectors ==
  ASSUME SelectionInv, NEW c \in Chunks, NEW k, DeleteVersion(c, k)
  PROVE  /\ \A d \in Chunks : VectorKept(d)
         /\ FlagsRaised
<1>1. TypeOK /\ k \in Ids /\ vec \in [Chunks -> Vector]
  BY ChunkTypes DEF DeleteVersion, TypeOK
<1>2. Live(c)' = Live(c) \ {k}
  BY <1>1 DEF DeleteVersion, TypeOK, Live, AbsentRow
<1>3. /\ vec'[c].version = Unlinked(vec[c].version, k)
      /\ vec'[c].text = vec[c].text
  BY <1>1 DEF DeleteVersion, Vector
<1>4. VectorKept(c)
  BY <1>2, <1>3, IdsAreNat DEF VectorKept, Unlinked
<1>5. ASSUME NEW d \in Chunks \ {c} PROVE VectorKept(d)
  <2>1. versions'[d] = versions[d] /\ vec'[d] = vec[d]
    BY <1>1 DEF DeleteVersion, TypeOK
  <2> QED
    BY <2>1, SameVector DEF Live
<1> QED
  BY <1>4, <1>5 DEF DeleteVersion, flags, FlagsRaised

LEMMA RetireOtherVectors ==
  ASSUME SelectionInv, NEW c \in Chunks, NEW k, RetireOther(c, k)
  PROVE  /\ \A d \in Chunks : VectorKept(d)
         /\ FlagsRaised
<1>1. \A d \in Chunks : Live(d) \subseteq Live(d)'
  <2>1. k \in Ids /\ versions[c][k] \in LiveRow
    BY ChunkTypes, RowTypes DEF RetireOther
  <2> QED
    BY <2>1, ChunkTypes DEF RetireOther, TypeOK, Live
<1> QED
  BY <1>1, SameVector DEF RetireOther, derived, flags, FlagsRaised

LEMMA StepVectors ==
  ASSUME SelectionInv, [Next]_chunkVars
  PROVE  /\ \A d \in Chunks : VectorKept(d)
         /\ FlagsRaised
<1> DEFINE Goal == (\A d \in Chunks : VectorKept(d)) /\ FlagsRaised
<1> SUFFICES Goal
  OBVIOUS
<1>1. ASSUME UNCHANGED <<versions, vec, dirtyDoc>> PROVE Goal
  BY <1>1, SameVector DEF FlagsRaised, Live
<1> HIDE DEF Goal
<1>2. CASE UNCHANGED chunkVars
  BY <1>1, <1>2 DEF chunkVars, history, derived, flags
<1>3. ASSUME NEW c \in Chunks, NEW t \in Texts, NEW e, AppendVersion(c, t, e) PROVE Goal
  BY <1>3, InsertVectors DEF AppendVersion, Goal
<1>4. ASSUME NEW c \in Chunks, NEW k, NEW e, RestoreVersion(c, k, e) PROVE Goal
  <2>1. versions[c][k].text \in Texts
    BY <1>4, ChunkTypes, RowTypes DEF RestoreVersion
  <2> QED
    BY <1>4, <2>1, InsertVectors DEF RestoreVersion, Goal
<1>5. ASSUME NEW c \in Chunks, ChunkOperation(c) PROVE Goal
  <2>1. CASE \E t \in Texts : AppendVersion(c, t, Null)
    BY <1>3, <2>1
  <2>2. CASE \E k \in Ids : RestoreVersion(c, k, Null)
    BY <1>4, <2>2
  <2>3. CASE \E k \in Ids : SetCurrent(c, k)
    BY <2>3, SelectVectors DEF SetCurrent, Goal
  <2>4. CASE \E k \in Ids : RetireOther(c, k)
    BY <2>4, RetireOtherVectors DEF Goal
  <2>5. CASE \E k \in Ids, r \in Ids : RetireCurrent(c, k, r)
    BY <2>5, SelectVectors DEF RetireCurrent, Goal
  <2>6. CASE \E k \in Ids : DeleteVersion(c, k)
    BY <2>6, DeleteVectors DEF Goal
  <2>7. CASE \E t \in Texts : EntityUpdate(c, t)
    BY <2>7, EntityUpdateVectors DEF Goal
  <2>8. CASE ClassifyChunk(c) \/ \E empty \in BOOLEAN : ReplaceTags(c, empty)
    BY <1>1, <2>8 DEF ClassifyChunk, ReplaceTags, history, derived, flags
  <2> QED
    BY <1>5, <2>1, <2>2, <2>3, <2>4, <2>5, <2>6, <2>7, <2>8 DEF ChunkOperation, VersionOperation
<1>6. ASSUME NEW c \in Chunks, NEW w \in Writers, WriterOperation(w, c) PROVE Goal
  <2>1. CASE ReadCurrent(w, c)
    BY <1>1, <2>1 DEF ReadCurrent, history, derived, flags
  <2>2. CASE \E t \in Texts : AppendExpecting(w, c, t)
    BY <1>3, <2>2 DEF AppendExpecting
  <2>3. CASE \E k \in Ids : RestoreExpecting(w, c, k)
    BY <1>4, <2>3 DEF RestoreExpecting
  <2> QED
    BY <1>6, <2>1, <2>2, <2>3 DEF WriterOperation
<1> QED
  BY <1>2, <1>5, <1>6 DEF Next

\* A vector is withdrawn or dropped with the flag of its document raised.
WithdrawnFlagged(c) ==
  vec'[c].state # "active" => vec[c].state # "active" \/ dirtyDoc'[DocOf[c]]

LEMMA VersionFlags ==
  ASSUME SelectionInv, NEW c \in Chunks,
         VersionOperation(c) \/ \E w \in Writers : WriterOperation(w, c)
  PROVE  \A d \in Chunks : WithdrawnFlagged(d)
<1> DEFINE Goal == \A d \in Chunks : WithdrawnFlagged(d)
<1> SUFFICES Goal
  OBVIOUS
<1>0. TypeOK /\ vec \in [Chunks -> Vector] /\ dirtyDoc \in [Docs -> BOOLEAN]
  BY DEF SelectionInv, TypeOK
<1>1. ASSUME UNCHANGED vec PROVE Goal
  BY <1>1 DEF WithdrawnFlagged
<1>2. ASSUME Invalidate(c) PROVE Goal
  <2>1. DocOf[c] \in Docs /\ dirtyDoc'[DocOf[c]]
    BY <1>0, <1>2, ChunkVersionsAssumption DEF Invalidate
  <2>2. \A d \in Chunks \ {c} : vec'[d] = vec[d]
    BY <1>0, <1>2 DEF Invalidate
  <2> QED
    BY <2>1, <2>2 DEF WithdrawnFlagged
<1> HIDE DEF Goal
<1>3. ASSUME NEW t, NEW e, AppendVersion(c, t, e) PROVE Goal
  BY <1>2, <1>3 DEF AppendVersion, InsertAndActivate, Activate
<1>4. ASSUME NEW k, NEW e, RestoreVersion(c, k, e) PROVE Goal
  BY <1>2, <1>4 DEF RestoreVersion, InsertAndActivate, Activate
<1>5. ASSUME NEW k, DeleteVersion(c, k) PROVE Goal
  <2>1. \A d \in Chunks : vec'[d].state = vec[d].state
    BY <1>0, <1>5 DEF DeleteVersion, Vector
  <2> QED
    BY <2>1 DEF Goal, WithdrawnFlagged
<1>6. CASE VersionOperation(c)
  <2>1. CASE \E k \in Ids : SetCurrent(c, k)
    BY <1>2, <2>1 DEF SetCurrent, Activate
  <2>2. CASE \E k \in Ids : RetireOther(c, k)
    BY <1>1, <2>2 DEF RetireOther, derived
  <2>3. CASE \E k \in Ids, r \in Ids : RetireCurrent(c, k, r)
    BY <1>2, <2>3 DEF RetireCurrent, Activate
  <2>4. CASE ClassifyChunk(c) \/ \E empty \in BOOLEAN : ReplaceTags(c, empty)
    BY <1>1, <2>4 DEF ClassifyChunk, ReplaceTags, derived
  <2> QED
    BY <1>3, <1>4, <1>5, <1>6, <2>1, <2>2, <2>3, <2>4 DEF VersionOperation
<1>7. ASSUME NEW w \in Writers, WriterOperation(w, c) PROVE Goal
  BY <1>1, <1>3, <1>4, <1>7 DEF WriterOperation, ReadCurrent, AppendExpecting, RestoreExpecting, derived
<1> QED
  BY <1>6, <1>7

\* entity_update leaves the vectors of the other chunks; of its own it is not so.
LEMMA EntityUpdateFlags ==
  ASSUME SelectionInv, NEW c \in Chunks, NEW t \in Texts, EntityUpdate(c, t)
  PROVE  \A d \in Chunks \ {c} : WithdrawnFlagged(d)
<1>1. vec \in [Chunks -> Vector]
  BY DEF SelectionInv, TypeOK
<1> QED
  BY <1>1 DEF EntityUpdate, WithdrawnFlagged

-----------------------------------------------------------------------------
(* Types of the jobs.                                                      *)

Inputs == UNION {[cs -> Input] : cs \in SUBSET Chunks}

LEMMA NoInputs == IdleJob.inputs \in Inputs /\ DOMAIN IdleJob.inputs = {}
<1>1. [c \in {} |-> NoText] \in [{} -> Input]
  OBVIOUS
<1> QED
  BY <1>1 DEF Inputs, IdleJob

LEMMA IdleJobType == IdleJob \in Job /\ IdleJob.pc = "idle"
BY NoInputs, VectorizationAssumption DEF IdleJob, Job, Modes, Inputs

LEMMA SmallerType ==
  ASSUME NEW m \in Nat, NEW n \in Nat
  PROVE  Smaller(m, n) \in Nat /\ (m > 0 /\ n > 0 => Smaller(m, n) > 0)
BY DEF Smaller

\* A batch holds documents, and the page of an unfinished job is not empty.
LEMMA BatchType ==
  ASSUME NEW j \in Job, NEW ds \in Batches(j)
  PROVE  /\ ds \in SUBSET Docs
         /\ j.mode = "all" /\ ~Finished(j) => ds # {}
<1>1. Selectable(j) \subseteq Docs /\ IsFiniteSet(Docs)
  BY VectorizationAssumption DEF Selectable
<1>2. ds \in SUBSET Docs
  BY <1>1 DEF Batches
<1>3. ASSUME j.mode = "all", ~Finished(j) PROVE ds # {}
  <2>1. Selectable(j) # {} /\ ~(j.limit > 0 /\ j.done >= j.limit)
    BY <1>3 DEF Finished
  <2>2. IsFiniteSet(Selectable(j))
    BY <1>1, FS_Subset
  <2>3. Cardinality(Selectable(j)) \in Nat /\ Cardinality(Selectable(j)) > 0
    BY <2>1, <2>2, FS_CardinalityType, FS_EmptySet
  <2>4. Quota(j) \in Nat /\ Quota(j) > 0
    <3>1. /\ BatchSize \in Nat /\ BatchSize > 0
          /\ j.limit \in Nat /\ j.done \in Nat
      BY VectorizationAssumption DEF Job
    <3>2. CASE j.limit = 0
      BY <1>3, <3>1, <3>2 DEF Quota
    <3>3. CASE j.limit # 0
      <4>1. j.limit - j.done \in Nat /\ j.limit - j.done > 0
        BY <2>1, <3>1, <3>3
      <4> QED
        BY <1>3, <3>1, <3>3, <4>1, SmallerType DEF Quota
    <3> QED
      BY <3>2, <3>3
  <2>5. Cardinality(ds) = Smaller(Quota(j), Cardinality(Selectable(j)))
    BY DEF Batches
  <2>6. Cardinality(ds) > 0
    BY <2>3, <2>4, <2>5, SmallerType
  <2> QED
    BY <2>6, FS_EmptySet
<1> QED
  BY <1>2, <1>3

\* The loop variables after a batch, processed or dry.
LEMMA ProcessedType ==
  ASSUME NEW j \in Job
  PROVE  /\ Processed(j) \in Job
         /\ Processed(j).pc = "select" /\ DOMAIN Processed(j).inputs = {}
<1>1. Cardinality(j.batch) \in Nat /\ j.done \in Nat
  <2>1. j.batch \in SUBSET Docs /\ IsFiniteSet(Docs)
    BY VectorizationAssumption DEF Job
  <2>2. IsFiniteSet(j.batch)
    BY <2>1, FS_Subset
  <2> QED
    BY <2>2, FS_CardinalityType DEF Job
<1>2. j.done + Cardinality(j.batch) \in Nat
  BY <1>1
<1> DEFINE done == IF j.limit = 0 THEN Smaller(1, j.done + Cardinality(j.batch))
                                  ELSE j.done + Cardinality(j.batch)
<1>3. done \in Nat
  BY <1>2, SmallerType
<1>4. Processed(j) = [j EXCEPT !.pc = "select", !.batch = {},
                               !.inputs = IdleJob.inputs, !.done = done]
  BY DEF Processed
<1> HIDE DEF done
<1> QED
  BY <1>3, <1>4, NoInputs DEF Job, Inputs

-----------------------------------------------------------------------------
(* The invariant behind search.                                            *)

\* What was read for a chunk: the version is an id that was given out, and if
\* it still names a row, that row has the text read with it.
ReadOf(c, ref, t) ==
  ref # Null => /\ ref <= issued[c]
                /\ ref \in Live(c) => versions[c][ref].text = t

\* A stored vector names no deleted version, and was made of the one it names.
VectorOK(c) ==
  vec[c].version # Null => /\ vec[c].version \in Live(c)
                           /\ versions[c][vec[c].version].text = vec[c].text

JobOK(j) == \A c \in DOMAIN j.inputs : ReadOf(c, j.inputs[c].version, j.inputs[c].text)

VectorInv ==
  /\ VectorTypeOK
  /\ SelectionInv
  /\ \A c \in Chunks : VectorOK(c)
  /\ \A w \in Workers : JobOK(job[w])

LEMMA InputTypes ==
  ASSUME NEW j \in Job, NEW c \in DOMAIN j.inputs
  PROVE  /\ c \in Chunks
         /\ j.inputs[c].version \in Ids \cup {Null}
         /\ j.inputs[c].text \in Texts
<1>1. PICK cs \in SUBSET Chunks : j.inputs \in [cs -> Input]
  BY DEF Job
<1> QED
  BY <1>1 DEF Input

LEMMA VectorInitOK == ASSUME VectorInit PROVE VectorInv
<1>1. TypeOK /\ SelectionInv
  BY InitType, InitOK, InvByChunk DEF VectorInit
<1>2. VectorTypeOK
  BY <1>1, IdleJobType DEF VectorInit, VectorTypeOK
<1>3. \A c \in Chunks : VectorOK(c)
  BY DEF VectorInit, Init, NoVector, VectorOK
<1>4. \A w \in Workers : JobOK(job[w])
  BY NoInputs, IdleJobType DEF VectorInit, JobOK
<1> QED
  BY <1>1, <1>2, <1>3, <1>4 DEF VectorInv

-----------------------------------------------------------------------------
(* Its steps.                                                              *)

\* A step that only changes one job.
LEMMA JobStep ==
  ASSUME VectorInv, UNCHANGED <<chunkVars, hierarchy, unmarked>>,
         late' \in [Workers -> SUBSET Chunks],
         NEW w \in Workers, NEW j \in Job, JobOK(j), job' = [job EXCEPT ![w] = j]
  PROVE  VectorInv'
<1>1. job' \in [Workers -> Job] /\ \A v \in Workers : JobOK(job'[v])
  BY DEF VectorInv, VectorTypeOK
<1>2. UNCHANGED <<versions, issued, current, text, vec, published, live, deleted, unmarked>>
  BY DEF chunkVars, history, projection, derived, hierarchy
<1>3. \A v \in Workers : JobOK(job[v])'
  BY <1>1, <1>2 DEF JobOK, ReadOf, Live
<1>4. SelectionInv' /\ TypeOK'
  BY SelectionStep DEF VectorInv, SelectionInv
<1>5. \A c \in Chunks : VectorOK(c)'
  BY <1>2 DEF VectorInv, VectorOK, Live
<1> QED
  BY <1>1, <1>2, <1>3, <1>4, <1>5 DEF VectorInv, VectorTypeOK

\* A job that ends, whatever the reason, and one that begins.
LEMMA JobEnds ==
  ASSUME VectorInv, UNCHANGED <<chunkVars, hierarchy, unmarked>>, NEW w \in Workers, EndJob(w)
  PROVE  VectorInv'
<1>1. JobOK(IdleJob)
  BY NoInputs, IdleJobType DEF JobOK
<1>2. late' \in [Workers -> SUBSET Chunks]
  BY DEF VectorInv, VectorTypeOK, EndJob
<1> QED
  BY <1>1, <1>2, IdleJobType, JobStep DEF EndJob

LEMMA JobStarts ==
  ASSUME VectorInv, NEW w \in Workers, NEW request \in Requests, NEW d \in Docs,
         StartJob(w, request, d)
  PROVE  VectorInv'
<1> DEFINE j == [IdleJob EXCEPT !.pc = "select", !.target = d, !.mode = request.mode,
                   !.dry = request.dry, !.limit = request.limit]
<1>1. j \in Job /\ j.pc = "select" /\ j.inputs = IdleJob.inputs
  BY IdleJobType, VectorizationAssumption DEF Job, Modes
<1> HIDE DEF j
<1>2. JobOK(j)
  BY <1>1, NoInputs DEF JobOK
<1>3. job' = [job EXCEPT ![w] = j]
  BY DEF StartJob, j
<1> QED
  BY <1>1, <1>2, <1>3, JobStep DEF StartJob, VectorInv, VectorTypeOK, accounts

LEMMA JobSelects ==
  ASSUME VectorInv, NEW w \in Workers, SelectDocuments(w)
  PROVE  VectorInv'
<1>1. PICK ds \in Batches(job[w]) :
        job' = [job EXCEPT ![w].pc = "read", ![w].batch = ds,
                  ![w].after = IF job[w].mode = "all" THEN Last(ds) ELSE @]
  BY DEF SelectDocuments
<1> DEFINE after == IF job[w].mode = "all" THEN Last(ds) ELSE job[w].after
           j == [job[w] EXCEPT !.pc = "read", !.batch = ds, !.after = after]
<1>2. job[w] \in Job /\ ~Finished(job[w]) /\ JobOK(job[w]) /\ job \in [Workers -> Job]
  BY DEF VectorInv, VectorTypeOK, SelectDocuments
<1>3. ds \in SUBSET Docs /\ after \in Docs \cup {0}
  BY <1>2, BatchType, LastType DEF Job
<1>4. job' = [job EXCEPT ![w] = j]
  BY <1>1, <1>2
<1> HIDE DEF after
<1>5. j \in Job /\ j.pc = "read" /\ j.inputs = job[w].inputs
  BY <1>2, <1>3 DEF Job
<1> HIDE DEF j
<1>6. JobOK(j)
  BY <1>2, <1>5 DEF JobOK
<1> QED
  BY <1>4, <1>5, <1>6, JobStep DEF SelectDocuments, VectorInv, VectorTypeOK, accounts

\* What is read for a chunk is the selected version with its own text.
LEMMA SelectedRead ==
  ASSUME SelectionInv, NEW c \in Chunks
  PROVE  CurrentOrNull(c) \in Ids \cup {Null} /\ ReadOf(c, CurrentOrNull(c), text[c])
<1>1. TypeOK /\ SelectionOK(c) /\ current[c] \in Ids \cup {NoRow}
  BY ChunkTypes DEF TypeOK
<1>2. CASE current[c] = NoRow
  BY <1>2 DEF CurrentOrNull, ReadOf
<1>3. CASE current[c] # NoRow
  <2>1. current[c] \in Live(c) /\ CurrentOrNull(c) = current[c]
    BY <1>1, <1>3 DEF TypeOK, CurrentRefersToRow, CurrentOrNull
  <2> QED
    BY <1>1, <1>3, <2>1, ChunkTypes DEF ReadOf, SelectionOK
<1> QED
  BY <1>2, <1>3

LEMMA JobReads ==
  ASSUME VectorInv, NEW w \in Workers, ReadInputs(w)
  PROVE  VectorInv'
<1> DEFINE j == job[w]
           chunks == ChunksOf(j.batch) \cap live
           inputs == [c \in chunks |-> [version |-> CurrentOrNull(c), text |-> text[c]]]
           read == [j EXCEPT !.pc = "embed", !.inputs = inputs]
<1>1. j \in Job /\ JobOK(j) /\ SelectionInv /\ late' \in [Workers -> SUBSET Chunks]
  BY DEF VectorInv, VectorTypeOK, ReadInputs, accounts
<1>2. CASE j.dry
  <2>1. job' = [job EXCEPT ![w] = Processed(j)]
    BY <1>2 DEF ReadInputs
  <2>2. JobOK(Processed(j))
    BY <1>1, ProcessedType DEF JobOK
  <2> QED
    BY <1>1, <2>1, <2>2, ProcessedType, JobStep DEF ReadInputs, accounts
<1>3. CASE ~j.dry
  <2>1. job' = [job EXCEPT ![w] = read]
    BY <1>3 DEF ReadInputs
  <2>2. chunks \in SUBSET Chunks
    BY DEF ChunksOf
  <2>3. ASSUME NEW c \in chunks
        PROVE  [version |-> CurrentOrNull(c), text |-> text[c]] \in Input
    <3>1. CurrentOrNull(c) \in Ids \cup {Null}
      BY <1>1, <2>2, SelectedRead
    <3>2. text[c] \in Texts
      BY <2>2 DEF VectorInv, VectorTypeOK, TypeOK
    <3> QED
      BY <3>1, <3>2 DEF Input
  <2>4. inputs \in [chunks -> Input]
    BY <2>3
  <2>5. \A c \in chunks : ReadOf(c, inputs[c].version, inputs[c].text)
    BY <1>1, <2>2, SelectedRead
  <2>7. DOMAIN inputs = chunks /\ inputs \in Inputs
    BY <2>2, <2>4 DEF Inputs
  <2> HIDE DEF chunks, inputs
  <2>8. read \in Job /\ read.inputs = inputs
    <3> HIDE DEF j
    <3> QED
      BY <1>1, <2>7 DEF Job, Inputs
  <2> HIDE DEF read
  <2>9. JobOK(read)
    BY <2>5, <2>7, <2>8 DEF JobOK
  <2> QED
    BY <1>1, <2>1, <2>8, <2>9, JobStep DEF ReadInputs, accounts
<1> QED
  BY <1>2, <1>3

\* Persisting: the foreign key has compared every version that is stored.
LEMMA JobPersists ==
  ASSUME VectorInv, NEW w \in Workers, NEW bm25, Persist(w, bm25)
  PROVE  VectorInv'
<1> DEFINE j == job[w]
<1>1. /\ j \in Job /\ JobOK(j) /\ TypeOK /\ VersionsExist(j)
      /\ job \in [Workers -> Job]
  BY DEF VectorInv, VectorTypeOK, Persist
<1>2. UNCHANGED <<versions, issued, current, text, assigned, labels, tags, seen,
                  published, live, deleted>>
  BY DEF Persist, history, projection, hierarchy
<1>3. \A c \in DOMAIN j.inputs :
        /\ c \in Chunks
        /\ j.inputs[c].version \in Ids \cup {Null}
        /\ j.inputs[c].text \in Texts
  BY <1>1, InputTypes
<1> HIDE DEF j
<1>4. vec' = [c \in Chunks |-> IF c \in DOMAIN j.inputs
                              THEN EmbeddedVector(c, j.inputs[c]) ELSE vec[c]]
  BY DEF Persist, j
<1>5. vec' \in [Chunks -> Vector]
  <2>1. \A c \in DOMAIN j.inputs : EmbeddedVector(c, j.inputs[c]) \in Vector
    BY <1>3 DEF EmbeddedVector, Vector
  <2> QED
    BY <1>1, <1>4, <2>1 DEF TypeOK
<1>6. tokens' \in [Chunks -> Refs]
  <2>1. tokens' = [c \in Chunks |->
           IF c \notin DOMAIN j.inputs \/ bm25 = "absent" THEN tokens[c]
           ELSE IF bm25 = "empty" THEN NoRow ELSE j.inputs[c].version]
    BY DEF Persist, j
  <2>2. ASSUME NEW c \in Chunks PROVE tokens'[c] \in Refs
    BY <1>1, <1>3, <2>1 DEF TypeOK, Refs
  <2> QED
    BY <2>1, <2>2
<1>7. docVec' \in [Docs -> BOOLEAN] /\ fileVec' \in [Files -> BOOLEAN]
  <2>1. docVec \in [Docs -> BOOLEAN] /\ fileVec \in [Files -> BOOLEAN]
    BY <1>1 DEF TypeOK
  <2> QED
    BY <2>1 DEF Persist
<1>9. dirtyDoc' \in [Docs -> BOOLEAN] /\ dirtyFile' \in [Files -> BOOLEAN]
  <2>1. /\ dirtyDoc' = [d \in Docs |-> dirtyDoc[d] /\ d \notin j.batch]
        /\ dirtyFile' = [f \in Files |-> dirtyFile[f] /\ DocsOf(f) \cap j.batch = {}]
    BY DEF Persist, j
  <2> QED
    BY <1>1, <2>1 DEF TypeOK
<1>10. job' = [job EXCEPT ![w] = Processed(j)]
  BY DEF Persist, j
<1>11. SelectionInv'
  <2>1. TypeOK'
    BY <1>1, <1>2, <1>5, <1>6, <1>7, <1>9 DEF TypeOK, CurrentRefersToRow, Live
  <2> QED
    BY <1>2, <2>1 DEF VectorInv, SelectionInv, RowIdsInOrder, UniqueVersionNumbers,
                      CurrentAgreement, ProjectionMatchesSelected, Live
<1>12. ASSUME NEW c \in Chunks PROVE VectorOK(c)'
  <2>1. Live(c)' = Live(c)
    BY <1>2 DEF Live
  <2>2. CASE c \in DOMAIN j.inputs
    <3>1. /\ vec'[c].version = j.inputs[c].version
          /\ vec'[c].text = j.inputs[c].text
      BY <1>4, <2>2 DEF EmbeddedVector
    <3>2. /\ j.inputs[c].version \in Live(c) \cup {Null}
          /\ ReadOf(c, j.inputs[c].version, j.inputs[c].text)
      BY <1>1, <2>2 DEF VersionsExist, JobOK
    <3> QED
      BY <1>2, <2>1, <3>1, <3>2 DEF ReadOf, VectorOK
  <2>3. CASE c \notin DOMAIN j.inputs
    BY <1>2, <1>4, <2>1, <2>3 DEF VectorInv, VectorOK
  <2> QED
    BY <2>2, <2>3
<1>13. ASSUME NEW v \in Workers PROVE JobOK(job[v])'
  <2>1. CASE v = w
    BY <1>1, <1>10, <2>1, ProcessedType DEF JobOK
  <2>2. CASE v # w
    BY <1>2, <1>10, <2>2 DEF VectorInv, JobOK, ReadOf, Live
  <2> QED
    BY <2>1, <2>2
<1>14. late' \in [Workers -> SUBSET Chunks] /\ unmarked' \in SUBSET Chunks
  <2>1. late \in [Workers -> SUBSET Chunks] /\ unmarked \in SUBSET Chunks
    BY DEF VectorInv, VectorTypeOK
  <2> QED
    BY <2>1 DEF Persist, Unflagged
<1>15. VectorTypeOK'
  BY <1>1, <1>2, <1>10, <1>11, <1>14, ProcessedType DEF VectorInv, VectorTypeOK, SelectionInv
<1> QED
  BY <1>11, <1>12, <1>13, <1>15 DEF VectorInv

\* A row that survives a chunk operation has the text it was read with, and
\* an id that named no row, or whose row is deleted now, names none later.
LEMMA ReadKept ==
  ASSUME SelectionInv, SelectionInv', NEW c \in Chunks, RowsKept(c),
         NEW ref \in Ids \cup {Null}, NEW t, ReadOf(c, ref, t)
  PROVE  ReadOf(c, ref, t)'
<1>1. issued[c] \in Nat /\ issued'[c] \in Int /\ ref \in Nat
  BY IdsAreNat, ChunkVersionsAssumption DEF SelectionInv, TypeOK, Null
<1> QED
  BY <1>1 DEF ReadOf, RowsKept

LEMMA ChunkStepKeeps ==
  ASSUME VectorInv, [Next]_chunkVars, UNCHANGED <<hierarchy, job, late>>,
         unmarked' \in SUBSET Chunks
  PROVE  VectorInv'
<1>1. SelectionInv /\ SelectionInv' /\ TypeOK' /\ vec \in [Chunks -> Vector]
  BY SelectionStep DEF VectorInv, SelectionInv, TypeOK
<1>2. \A d \in Chunks : RowsKept(d) /\ VectorKept(d)
  BY <1>1, StepRows, StepVectors
<1>3. VectorTypeOK'
  BY <1>1 DEF VectorInv, VectorTypeOK, hierarchy
<1>4. ASSUME NEW c \in Chunks, vec'[c].version # Null
      PROVE  /\ vec'[c].version \in Live(c)'
             /\ versions'[c][vec'[c].version].text = vec'[c].text
  <2> DEFINE i == vec'[c].version
  <2>1. i \in Ids
    BY <1>1, <1>4 DEF TypeOK, Vector
  <2>2. vec[c].version = i /\ vec'[c].text = vec[c].text
    BY <1>2, <2>1 DEF VectorKept
  <2>3. i \in Live(c) /\ i \in Live(c)' /\ versions[c][i].text = vec[c].text
    BY <1>2, <1>4, <2>1, <2>2 DEF VectorInv, VectorOK, VectorKept
  <2>4. i <= issued[c]
    BY <1>1, <2>3, ChunkTypes
  <2> QED
    BY <1>2, <2>2, <2>3, <2>4 DEF RowsKept
<1>5. ASSUME NEW w \in Workers PROVE JobOK(job[w])'
  <2>1. job[w] \in Job /\ JobOK(job[w])
    BY DEF VectorInv, VectorTypeOK
  <2>2. ASSUME NEW c \in DOMAIN job[w].inputs
        PROVE  ReadOf(c, job[w].inputs[c].version, job[w].inputs[c].text)'
    <3>1. c \in Chunks /\ job[w].inputs[c].version \in Ids \cup {Null}
      BY <2>1, InputTypes
    <3>2. ReadOf(c, job[w].inputs[c].version, job[w].inputs[c].text)
      BY <2>1 DEF JobOK
    <3> QED
      BY <1>1, <1>2, <3>1, <3>2, ReadKept DEF ReadOf
  <2> QED
    BY <2>1, <2>2 DEF JobOK
<1> QED
  BY <1>1, <1>3, <1>4, <1>5 DEF VectorInv, VectorOK

\* Rows that come, go and return, with the histories that follow them.
LEMMA HierarchyKeeps ==
  ASSUME VectorInv, UNCHANGED <<chunkVars, job>>,
         published' \in SUBSET Chunks, live' \in SUBSET published', deleted' \in SUBSET Docs,
         late' \in [Workers -> SUBSET Chunks], unmarked' \in SUBSET Chunks
  PROVE  VectorInv'
<1>1. UNCHANGED <<versions, issued, current, text, vec>>
  BY DEF chunkVars, history, projection, derived
<1>2. SelectionInv' /\ TypeOK'
  BY SelectionStep DEF VectorInv, SelectionInv
<1>3. VectorTypeOK'
  BY <1>2 DEF VectorInv, VectorTypeOK
<1>4. \A w \in Workers : JobOK(job[w])'
  BY <1>1 DEF VectorInv, JobOK, ReadOf, Live
<1>5. \A c \in Chunks : VectorOK(c)'
  BY <1>1 DEF VectorInv, VectorOK, Live
<1> QED
  BY <1>2, <1>3, <1>4, <1>5 DEF VectorInv

LEMMA ReachedType ==
  ASSUME VectorInv, NEW cs \in SUBSET Chunks, Reached(cs)
  PROVE  /\ late' \in [Workers -> SUBSET Chunks]
         /\ \A w \in Workers : late'[w] = IF job[w].pc = "embed" THEN late[w] \cup cs ELSE late[w]
BY DEF Reached, VectorInv, VectorTypeOK

LEMMA ReviveKeeps ==
  ASSUME VectorInv, NEW cs \in SUBSET published, Revive(cs), deleted' \in SUBSET Docs
  PROVE  VectorInv'
<1>1. /\ published \in SUBSET Chunks /\ live \in SUBSET published
      /\ unmarked \in SUBSET Chunks
  BY DEF VectorInv, VectorTypeOK
<1>2. unmarked' \in SUBSET Chunks /\ live' \in SUBSET published'
  BY <1>1 DEF Revive, Unflagged
<1>3. cs \ live \in SUBSET Chunks /\ Reached(cs \ live)
  BY <1>1 DEF Revive
<1> QED
  BY <1>1, <1>2, <1>3, ReachedType, HierarchyKeeps DEF Revive

\* Publishing withdraws vectors and leaves what they were made of.
LEMMA PublishKeeps ==
  ASSUME VectorInv, NEW d \in Docs, NEW new \in SUBSET ChunksOf({d}), NEW newFile,
         Publish(d, new, newFile)
  PROVE  VectorInv'
<1>1. VectorTypeOK /\ TypeOK /\ SelectionInv
  BY DEF VectorInv, SelectionInv
<1>2. UNCHANGED <<versions, issued, current, text, assigned, labels, tags, tokens, docVec, seen, job>>
  BY DEF Publish, history, projection
<1>3. vec \in [Chunks -> Vector] /\ new \in SUBSET Chunks /\ FileOf[d] \in Files
  BY <1>1, ChunkVersionsAssumption DEF TypeOK, ChunksOf
<1>4. /\ vec' = [c \in Chunks |->
           IF c \in live \cap ChunksOf({d}) THEN Deactivated(vec[c]) ELSE vec[c]]
      /\ fileVec' = IF newFile THEN [fileVec EXCEPT ![FileOf[d]] = FALSE] ELSE fileVec
      /\ dirtyDoc' = [dirtyDoc EXCEPT ![d] = TRUE]
      /\ dirtyFile' = [dirtyFile EXCEPT ![FileOf[d]] = TRUE]
  BY DEF Publish
<1>5. vec' \in [Chunks -> Vector]
  BY <1>3, <1>4, DeactivatedType
<1>6. /\ fileVec' \in [Files -> BOOLEAN]
      /\ dirtyDoc' \in [Docs -> BOOLEAN] /\ dirtyFile' \in [Files -> BOOLEAN]
  BY <1>1, <1>4 DEF TypeOK
<1>7. SelectionInv' /\ TypeOK'
  <2>1. TypeOK'
    BY <1>1, <1>2, <1>5, <1>6 DEF TypeOK, CurrentRefersToRow, Live
  <2> QED
    BY <1>1, <1>2, <2>1 DEF SelectionInv, RowIdsInOrder, UniqueVersionNumbers,
                            CurrentAgreement, ProjectionMatchesSelected, Live
<1>8. ASSUME NEW c \in Chunks PROVE VectorOK(c)'
  <2>1. vec'[c].version = vec[c].version /\ vec'[c].text = vec[c].text
    BY <1>3, <1>4, DeactivatedVector
  <2> QED
    BY <1>2, <2>1 DEF VectorInv, VectorOK, Live
<1>9. \A w \in Workers : JobOK(job[w])'
  BY <1>2 DEF VectorInv, JobOK, ReadOf, Live
<1>10. /\ published' \in SUBSET Chunks /\ live' \in SUBSET published'
       /\ deleted' \in SUBSET Docs /\ unmarked' \in SUBSET Chunks
  BY <1>1, <1>3 DEF Publish, VectorTypeOK, Unflagged
<1>11. late' \in [Workers -> SUBSET Chunks]
  BY <1>3, ReachedType DEF Publish
<1>12. VectorTypeOK'
  BY <1>1, <1>2, <1>7, <1>10, <1>11 DEF VectorTypeOK
<1> QED
  BY <1>7, <1>8, <1>9, <1>12 DEF VectorInv

\* A chunk operation beside the jobs is one of ChunkVersions.
LEMMA ChunkStepIsNext ==
  ASSUME VectorInv, ChunkStep
  PROVE  Next
<1>1. published \subseteq Chunks
  BY DEF VectorInv, VectorTypeOK
<1>2. \E c \in published : \/ VersionOperation(c) \/ \E t \in Texts : EntityUpdate(c, t)
                           \/ \E w \in Writers : WriterOperation(w, c)
  BY DEF ChunkStep
<1> QED
  BY <1>1, <1>2 DEF Next, ChunkOperation

LEMMA BesideKeeps == ASSUME VectorInv, Beside PROVE VectorInv'
<1>0. /\ published \in SUBSET Chunks /\ live \in SUBSET published /\ deleted \in SUBSET Docs
      /\ late \in [Workers -> SUBSET Chunks] /\ unmarked \in SUBSET Chunks
  BY DEF VectorInv, VectorTypeOK
<1>1. CASE ChunkStep
  <2>1. unmarked' \in SUBSET Chunks
    BY <1>0, <1>1 DEF ChunkStep, Unflagged
  <2> QED
    BY <1>1, <2>1, ChunkStepIsNext, ChunkStepKeeps DEF ChunkStep
<1>2. ASSUME NEW c \in Chunks, SoftDeleteParagraph(c) PROVE VectorInv'
  BY <1>0, <1>2, HierarchyKeeps DEF SoftDeleteParagraph, accounts
<1>3. ASSUME NEW c \in Chunks, UndeleteParagraph(c) PROVE VectorInv'
  BY <1>0, <1>3, ReviveKeeps DEF UndeleteParagraph
<1>4. ASSUME NEW d \in Docs, SoftDeleteDocument(d) PROVE VectorInv'
  BY <1>0, <1>4, HierarchyKeeps DEF SoftDeleteDocument, accounts
<1>5. ASSUME NEW d \in Docs, UndeleteDocument(d) PROVE VectorInv'
  BY <1>0, <1>5, ReviveKeeps DEF UndeleteDocument
<1> QED
  BY <1>1, <1>2, <1>3, <1>4, <1>5, PublishKeeps DEF Beside

LEMMA BesideLeavesJobs == ASSUME Beside PROVE job' = job
BY DEF Beside, ChunkStep, SoftDeleteParagraph, UndeleteParagraph, SoftDeleteDocument,
       UndeleteDocument, Revive, Publish

\* All that can happen, the death of a worker process included.
LEMMA VectorInvStep ==
  ASSUME VectorInv,
         \/ [VectorNext]_vectorVars
         \/ \E w \in Workers : EndJob(w) /\ UNCHANGED <<chunkVars, hierarchy, unmarked>>
  PROVE  VectorInv'
<1>1. CASE UNCHANGED vectorVars
  <2>1. unmarked' \in SUBSET Chunks
    BY <1>1 DEF vectorVars, accounts, VectorInv, VectorTypeOK
  <2> QED
    BY <1>1, <2>1, ChunkStepKeeps DEF vectorVars, accounts
<1>2. CASE Beside
  BY <1>2, BesideKeeps
<1>4. ASSUME NEW w \in Workers, WorkerStep(w) PROVE VectorInv'
  <2>1. CASE FinishJob(w) \/ EmbedFails(w) \/ PersistRefused(w)
    BY <2>1, JobEnds DEF FinishJob, EmbedFails, PersistRefused
  <2>2. CASE SelectDocuments(w)
    BY <2>2, JobSelects
  <2>3. CASE ReadInputs(w)
    BY <2>3, JobReads
  <2>4. CASE \E bm25 \in Answers : Persist(w, bm25)
    BY <2>4, JobPersists
  <2> QED
    BY <1>4, <2>1, <2>2, <2>3, <2>4 DEF WorkerStep
<1> QED
  BY <1>1, <1>2, <1>4, JobEnds, JobStarts DEF VectorNext

\* A chunk that search reaches through its selected version has the text now
\* selected.
LEMMA ServesCurrent == VectorInv => SearchServesCurrentText
<1> SUFFICES ASSUME VectorInv, NEW c \in Chunks, current[c] # NoRow,
                    vec[c].version = current[c]
             PROVE  vec[c].text = text[c]
  BY DEF SearchServesCurrentText
<1>1. SelectionOK(c) /\ VectorOK(c) /\ current[c] \in Ids
  BY ChunkTypes DEF VectorInv, TypeOK
<1> QED
  BY <1>1, IdsAreNat DEF SelectionOK, VectorOK

\* What a worker awaits: of the live chunks of its batch, those it has not read
\* came to life since.
AwaitOK(w) ==
  job[w].pc = "embed" => ChunksOf(job[w].batch) \cap live \subseteq DOMAIN job[w].inputs \cup late[w]

AccountInv == (\A w \in Workers : AwaitOK(w)) /\ MissingVectorsAreFlagged

LEMMA AccountInitOK == ASSUME VectorInit PROVE AccountInv
<1>1. \A w \in Workers : AwaitOK(w)
  BY IdleJobType DEF VectorInit, AwaitOK
<1>2. \A c \in Chunks : dirtyDoc[DocOf[c]]
  BY ChunkVersionsAssumption DEF VectorInit, Init
<1>3. live \subseteq Chunks
  BY DEF VectorInit
<1> QED
  BY <1>1, <1>2, <1>3 DEF AccountInv, MissingVectorsAreFlagged

\* A step of one job that writes no vector and leaves it awaiting nothing, or what it
\* has just read.
LEMMA JobAccounts ==
  ASSUME VectorInv, AccountInv, UNCHANGED <<chunkVars, hierarchy, unmarked>>, NEW w \in Workers,
         \A v \in Workers \ {w} : job'[v] = job[v] /\ late'[v] = late[v], AwaitOK(w)'
  PROVE  AccountInv'
<1>1. UNCHANGED <<vec, dirtyDoc, live, unmarked>>
  BY DEF chunkVars, derived, flags, hierarchy
<1>2. \A v \in Workers : AwaitOK(v)'
  BY <1>1 DEF AccountInv, AwaitOK, ChunksOf
<1> QED
  BY <1>1, <1>2 DEF AccountInv, MissingVectorsAreFlagged

\* A step beside the jobs: chunks that come to life are in `late` of who awaits, and
\* one that loses its vector, or returns without, is flagged or in `unmarked`.
LEMMA BesideAccounts ==
  ASSUME VectorInv, AccountInv, UNCHANGED job, NEW born \in SUBSET Chunks,
         live' \subseteq live \cup born,
         \A w \in Workers : job[w].pc = "embed" => late[w] \cup (born \ live) \subseteq late'[w],
         \A c \in live' : vec'[c].state # "active" =>
           dirtyDoc'[DocOf[c]] \/ c \in unmarked'
  PROVE  AccountInv'
BY DEF AccountInv, AwaitOK, ChunksOf, MissingVectorsAreFlagged

LEMMA ChunkStepAccounts == ASSUME VectorInv, AccountInv, ChunkStep PROVE AccountInv'
<1>1. SelectionInv /\ live \subseteq Chunks /\ published \subseteq Chunks
  BY DEF VectorInv, VectorTypeOK
<1>2. UNCHANGED <<live, job, late>>
  BY DEF ChunkStep, hierarchy
<1>3. FlagsRaised
  BY <1>1, ChunkStepIsNext, StepVectors
<1>4. PICK c \in Chunks :
        \/ /\ VersionOperation(c) \/ \E w \in Writers : WriterOperation(w, c)
           /\ unmarked' = Unflagged(unmarked)
        \/ /\ \E t \in Texts : EntityUpdate(c, t)
           /\ unmarked' = Unflagged(unmarked \cup {c})
  BY <1>1 DEF ChunkStep
<1>5. \A d \in Chunks :
        WithdrawnFlagged(d) \/ (d = c /\ unmarked' = Unflagged(unmarked \cup {c}))
  <2>1. CASE VersionOperation(c) \/ \E w \in Writers : WriterOperation(w, c)
    BY <1>1, <2>1, VersionFlags
  <2>2. CASE (\E t \in Texts : EntityUpdate(c, t)) /\ unmarked' = Unflagged(unmarked \cup {c})
    BY <1>1, <2>2, EntityUpdateFlags
  <2> QED
    BY <1>4, <2>1, <2>2
<1>6. ASSUME NEW d \in live, vec'[d].state # "active", ~dirtyDoc'[DocOf[d]]
      PROVE  d \in unmarked'
  <2>1. d \in Chunks /\ DocOf[d] \in Docs /\ ~dirtyDoc[DocOf[d]]
    BY <1>1, <1>3, <1>6, ChunkVersionsAssumption DEF FlagsRaised
  <2>2. CASE d = c /\ unmarked' = Unflagged(unmarked \cup {c})
    BY <1>6, <2>2 DEF Unflagged
  <2>3. CASE WithdrawnFlagged(d)
    <3>1. vec[d].state # "active"
      BY <1>6, <2>3 DEF WithdrawnFlagged
    <3>2. d \in unmarked
      BY <1>6, <2>1, <3>1 DEF AccountInv, MissingVectorsAreFlagged
    <3> QED
      BY <1>4, <1>6, <3>2 DEF Unflagged
  <2> QED
    BY <1>5, <2>1, <2>2, <2>3
<1> QED
  BY <1>1, <1>2, <1>6, BesideAccounts

LEMMA ReviveAccounts ==
  ASSUME VectorInv, AccountInv, NEW cs \in SUBSET published, Revive(cs)
  PROVE  AccountInv'
<1>1. published \in SUBSET Chunks /\ cs \in SUBSET Chunks
  BY DEF VectorInv, VectorTypeOK
<1>2. UNCHANGED <<vec, dirtyDoc, job>> /\ live' = live \cup cs
  BY DEF Revive, chunkVars, derived, flags
<1>3. \A w \in Workers : job[w].pc = "embed" => late[w] \cup (cs \ live) \subseteq late'[w]
  BY <1>1, ReachedType DEF Revive
<1>4. \A c \in live' : vec'[c].state # "active" => dirtyDoc'[DocOf[c]] \/ c \in unmarked'
  BY <1>2 DEF Revive, AccountInv, MissingVectorsAreFlagged, Unflagged
<1> QED
  BY <1>1, <1>2, <1>3, <1>4, BesideAccounts

LEMMA PublishAccounts ==
  ASSUME VectorInv, AccountInv, NEW d \in Docs, NEW new \in SUBSET ChunksOf({d}), NEW newFile,
         Publish(d, new, newFile)
  PROVE  AccountInv'
<1>1. /\ new \in SUBSET Chunks /\ live \in SUBSET Chunks
      /\ dirtyDoc \in [Docs -> BOOLEAN] /\ \A c \in new : DocOf[c] = d
  BY DEF ChunksOf, VectorInv, VectorTypeOK, TypeOK
<1>2. /\ live' = (live \ ChunksOf({d})) \cup new /\ job' = job
      /\ dirtyDoc' = [dirtyDoc EXCEPT ![d] = TRUE]
      /\ unmarked' = Unflagged(unmarked)
  BY DEF Publish
<1>3. \A w \in Workers : job[w].pc = "embed" => late[w] \cup (new \ live) \subseteq late'[w]
  <2>1. Reached(new)
    BY DEF Publish
  <2>2. \A w \in Workers : job[w].pc = "embed" => late'[w] = late[w] \cup new
    BY <1>1, <2>1, ReachedType
  <2> QED
    BY <2>2
<1>4. ASSUME NEW c \in live', vec'[c].state # "active", ~dirtyDoc'[DocOf[c]]
      PROVE  c \in unmarked'
  <2>1. DocOf[c] # d /\ c \in live /\ c \in Chunks /\ c \notin ChunksOf({d}) /\ DocOf[c] \in Docs
    BY <1>1, <1>2, <1>4, ChunkVersionsAssumption DEF ChunksOf
  <2>2. vec'[c] = vec[c] /\ ~dirtyDoc[DocOf[c]]
    BY <1>1, <1>2, <1>4, <2>1 DEF Publish
  <2> QED
    BY <1>2, <1>4, <2>1, <2>2 DEF AccountInv, MissingVectorsAreFlagged, Unflagged
<1> QED
  BY <1>1, <1>2, <1>3, <1>4, BesideAccounts

\* Persisting lowers the flags of the batch and leaves in `unmarked` what came to life
\* meanwhile.
LEMMA PersistAccounts ==
  ASSUME VectorInv, AccountInv, NEW w \in Workers, NEW bm25, Persist(w, bm25)
  PROVE  AccountInv'
<1> DEFINE j == job[w]
           embedded == DOMAIN j.inputs
<1>1. /\ j \in Job /\ job \in [Workers -> Job] /\ live \subseteq Chunks
      /\ late \in [Workers -> SUBSET Chunks] /\ dirtyDoc \in [Docs -> BOOLEAN]
  BY DEF VectorInv, VectorTypeOK, TypeOK
<1>2. /\ j.pc = "embed"
      /\ live' = live
      /\ vec' = [c \in Chunks |-> IF c \in embedded THEN EmbeddedVector(c, j.inputs[c]) ELSE vec[c]]
      /\ dirtyDoc' = [d \in Docs |-> dirtyDoc[d] /\ d \notin j.batch]
      /\ job' = [job EXCEPT ![w] = Processed(j)]
      /\ late' = [late EXCEPT ![w] = {}]
      /\ unmarked' = Unflagged((unmarked \cup (late[w] \cap ChunksOf(j.batch))) \ embedded)
  BY DEF Persist, hierarchy
<1>3. ASSUME NEW v \in Workers PROVE AwaitOK(v)'
  <2>1. CASE v = w
    BY <1>1, <1>2, <2>1, ProcessedType DEF AwaitOK
  <2>2. CASE v # w
    BY <1>1, <1>2, <2>2 DEF AccountInv, AwaitOK, ChunksOf
  <2> QED
    BY <2>1, <2>2
<1>4. ASSUME NEW c \in live', vec'[c].state # "active", ~dirtyDoc'[DocOf[c]]
      PROVE  c \in unmarked'
  <2>1. c \in live /\ c \in Chunks /\ DocOf[c] \in Docs
    BY <1>1, <1>2, ChunkVersionsAssumption
  <2>2. c \notin embedded /\ vec'[c] = vec[c]
    BY <1>2, <1>4, <2>1 DEF EmbeddedVector
  <2>3. dirtyDoc[DocOf[c]] \/ c \in unmarked
    BY <1>4, <2>1, <2>2 DEF AccountInv, MissingVectorsAreFlagged
  <2>4. CASE dirtyDoc[DocOf[c]]
    <3>1. c \in ChunksOf(j.batch) \cap live
      BY <1>1, <1>2, <1>4, <2>1, <2>4 DEF ChunksOf
    <3>2. c \in late[w]
      BY <1>2, <2>2, <3>1 DEF AccountInv, AwaitOK
    <3> QED
      BY <1>2, <1>4, <2>2, <3>1, <3>2 DEF Unflagged
  <2>5. CASE c \in unmarked
    BY <1>2, <1>4, <2>2, <2>5 DEF Unflagged
  <2> QED
    BY <2>3, <2>4, <2>5
<1> QED
  BY <1>3, <1>4 DEF AccountInv, MissingVectorsAreFlagged

LEMMA EndAccounts ==
  ASSUME VectorInv, AccountInv, NEW w \in Workers, EndJob(w),
         UNCHANGED <<chunkVars, hierarchy, unmarked>>
  PROVE  AccountInv'
<1>1. job \in [Workers -> Job] /\ late \in [Workers -> SUBSET Chunks]
  BY DEF VectorInv, VectorTypeOK
<1>2. AwaitOK(w)' /\ \A v \in Workers \ {w} : job'[v] = job[v] /\ late'[v] = late[v]
  BY <1>1, IdleJobType DEF EndJob, AwaitOK
<1> QED
  BY <1>2, JobAccounts

LEMMA AccountStep ==
  ASSUME VectorInv, AccountInv,
         \/ [VectorNext]_vectorVars
         \/ \E w \in Workers : EndJob(w) /\ UNCHANGED <<chunkVars, hierarchy, unmarked>>
  PROVE  AccountInv'
<1>0. /\ job \in [Workers -> Job] /\ late \in [Workers -> SUBSET Chunks]
      /\ live \in SUBSET published /\ published \in SUBSET Chunks
  BY DEF VectorInv, VectorTypeOK
<1>1. CASE UNCHANGED vectorVars
  BY <1>1 DEF vectorVars, chunkVars, derived, flags, hierarchy, accounts,
              AccountInv, AwaitOK, ChunksOf, MissingVectorsAreFlagged
<1>2. CASE Beside
  <2>1. ASSUME UNCHANGED <<chunkVars, job, accounts>>, live' \subseteq live PROVE AccountInv'
    BY <2>1 DEF chunkVars, derived, flags, accounts, AccountInv, AwaitOK, MissingVectorsAreFlagged
  <2>2. CASE \E c \in Chunks : SoftDeleteParagraph(c)
    BY <2>1, <2>2 DEF SoftDeleteParagraph
  <2>3. CASE \E d \in Docs : SoftDeleteDocument(d)
    BY <2>1, <2>3 DEF SoftDeleteDocument
  <2>4. CASE \E c \in Chunks : UndeleteParagraph(c)
    BY <2>4, ReviveAccounts DEF UndeleteParagraph
  <2>5. CASE \E d \in Docs : UndeleteDocument(d)
    BY <2>5, ReviveAccounts DEF UndeleteDocument
  <2> QED
    BY <1>2, <2>2, <2>3, <2>4, <2>5, ChunkStepAccounts, PublishAccounts DEF Beside
<1>3. ASSUME NEW w \in Workers, WorkerStep(w) PROVE AccountInv'
  <2>1. CASE FinishJob(w) \/ EmbedFails(w) \/ PersistRefused(w)
    BY <2>1, EndAccounts DEF FinishJob, EmbedFails, PersistRefused
  <2>2. CASE SelectDocuments(w)
    <3>1. AwaitOK(w)' /\ \A v \in Workers \ {w} : job'[v] = job[v]
      BY <1>0, <2>2 DEF SelectDocuments, AwaitOK, Job
    <3> QED
      BY <2>2, <3>1, JobAccounts DEF SelectDocuments, accounts
  <2>3. CASE ReadInputs(w)
    <3>1. CASE job[w].dry
      <4>1. job' = [job EXCEPT ![w] = Processed(job[w])]
        BY <2>3, <3>1 DEF ReadInputs
      <4>2. AwaitOK(w)' /\ \A v \in Workers \ {w} : job'[v] = job[v]
        BY <1>0, <4>1, ProcessedType DEF AwaitOK
      <4> QED
        BY <2>3, <4>2, JobAccounts DEF ReadInputs, accounts
    <3>2. CASE ~job[w].dry
      <4>1. /\ \A v \in Workers \ {w} : job'[v] = job[v]
            /\ job'[w].batch = job[w].batch
            /\ DOMAIN job'[w].inputs = ChunksOf(job[w].batch) \cap live
        BY <1>0, <2>3, <3>2 DEF ReadInputs, Job
      <4>2. AwaitOK(w)'
        BY <2>3, <4>1 DEF ReadInputs, hierarchy, AwaitOK, ChunksOf
      <4> QED
        BY <2>3, <4>1, <4>2, JobAccounts DEF ReadInputs, accounts
    <3> QED
      BY <3>1, <3>2
  <2>4. CASE \E bm25 \in Answers : Persist(w, bm25)
    BY <2>4, PersistAccounts
  <2> QED
    BY <1>3, <2>1, <2>2, <2>3, <2>4 DEF WorkerStep
<1>4. ASSUME NEW w \in Workers, NEW request \in Requests, NEW d \in Docs, StartJob(w, request, d)
      PROVE  AccountInv'
  <2>1. AwaitOK(w)' /\ \A v \in Workers \ {w} : job'[v] = job[v]
    BY <1>0, <1>4, IdleJobType DEF StartJob, AwaitOK, Job
  <2> QED
    BY <1>4, <2>1, JobAccounts DEF StartJob, accounts
<1> QED
  BY <1>1, <1>2, <1>3, <1>4, EndAccounts DEF VectorNext

\* However workers, writers and deletes interleave around the embedding
\* service, search serves a vector of the text now selected.
THEOREM SearchCorrect == VectorSpec => []SearchServesCurrentText
<1>1. VectorInit => VectorInv
  BY VectorInitOK
<1>2. VectorInv /\ [VectorNext]_vectorVars => VectorInv'
  BY VectorInvStep
<1> QED
  BY <1>1, <1>2, ServesCurrent, PTL DEF VectorSpec

\* needs_revectorize accounts for every vector that is missing: a failed or refused
\* batch stays flagged, and so does what a publication committed outside an await.
THEOREM FlagsCorrect == VectorSpec => []MissingVectorsAreFlagged
<1>1. VectorInit => VectorInv /\ AccountInv
  BY VectorInitOK, AccountInitOK
<1>2. VectorInv /\ AccountInv /\ [VectorNext]_vectorVars => (VectorInv /\ AccountInv)'
  BY VectorInvStep, AccountStep
<1>3. AccountInv => MissingVectorsAreFlagged
  BY DEF AccountInv
<1> QED
  BY <1>1, <1>2, <1>3, PTL DEF VectorSpec

-----------------------------------------------------------------------------
(* The report of health_command, with processes that may die.              *)

\* With one worker: "running" is written before the service is awaited and
\* taken back unless the batch raised; a start that no later line answers was
\* of a batch that failed.
ReportOK(w) ==
  /\ job[w].pc = "embed" => status = "running"
  /\ job[w].pc # "embed" /\ status = "running" => outcome[w] # "ok"
  /\ (job[w].pc # "embed" \/ job[w].batch = {}) /\ event.name = "started" => outcome[w] # "ok"

ActivityInv ==
  /\ VectorInv
  /\ ActivityTypeOK
  /\ \A w \in Workers : Workers = {w} => ReportOK(w)

\* With their reports the steps are those of Vectorization, but for a death.
LEMMA ActivitySteps ==
  ASSUME [ActivityNext]_activityVars
  PROVE  \/ [VectorNext]_vectorVars
         \/ \E w \in Workers : EndJob(w) /\ UNCHANGED <<chunkVars, hierarchy, unmarked>>
<1>1. ASSUME NEW w \in Workers, ReportedStep(w) PROVE WorkerStep(w)
  BY <1>1 DEF ReportedStep, Announce, ReportUnavailable, ReportVectorized, Raise, WorkerStep
<1>2. ASSUME NEW w \in Workers, Die(w)
      PROVE  EndJob(w) /\ UNCHANGED <<chunkVars, hierarchy, unmarked>>
  BY <1>2 DEF Die
<1> QED
  BY <1>1, <1>2 DEF ActivityNext, VectorNext, activityVars

LEMMA LoggedType ==
  ASSUME event \in [name : {"started", "vectorized"}, document : Docs] \cup {NoEvent},
         NEW name \in {"started", "vectorized"}, NEW batch \in SUBSET Docs
  PROVE  /\ Logged(name, batch)
              \in [name : {"started", "vectorized"}, document : Docs] \cup {NoEvent}
         /\ batch = {} => Logged(name, batch) = event
         /\ batch # {} => Logged(name, batch).name = name
BY LastType DEF Logged

LEMMA ActivityTypeStep ==
  ASSUME ActivityInv, VectorInv', [ActivityNext]_activityVars
  PROVE  ActivityTypeOK'
<1>0. ActivityTypeOK /\ VectorTypeOK' /\ \A w \in Workers : job[w].batch \in SUBSET Docs
  BY DEF ActivityInv, VectorInv, VectorTypeOK, Job
<1>1. ASSUME Quietly PROVE ActivityTypeOK'
  BY <1>0, <1>1 DEF Quietly, ActivityTypeOK
<1>2. ASSUME NEW w \in Workers, Announce(w) PROVE ActivityTypeOK'
  BY <1>0, <1>1, <1>2, LoggedType DEF Announce, ActivityTypeOK
<1>3. ASSUME NEW w \in Workers, ReportUnavailable(w) \/ Raise(w) \/ Die(w)
      PROVE  ActivityTypeOK'
  BY <1>0, <1>3 DEF ReportUnavailable, Raise, Die, ActivityTypeOK
<1>4. ASSUME NEW w \in Workers, ReportVectorized(w) PROVE ActivityTypeOK'
  BY <1>0, <1>4, LoggedType DEF ReportVectorized, ActivityTypeOK
<1>5. CASE UNCHANGED activityVars
  BY <1>1, <1>5 DEF activityVars, Quietly
<1> QED
  BY <1>1, <1>2, <1>3, <1>4, <1>5 DEF ActivityNext, ReportedStep

LEMMA ReportStep ==
  ASSUME ActivityInv, [ActivityNext]_activityVars, NEW w \in Workers, Workers = {w}
  PROVE  ReportOK(w)'
<1>0. /\ ReportOK(w) /\ ActivityTypeOK /\ job \in [Workers -> Job]
      /\ job[w] \in Job /\ job[w].batch \in SUBSET Docs
      /\ outcome \in [Workers -> {"ok", "unavailable", "raised"}]
  BY DEF ActivityInv, ActivityTypeOK, VectorTypeOK, Job
<1>1. ASSUME Quietly, UNCHANGED job PROVE ReportOK(w)'
  BY <1>0, <1>1 DEF Quietly, ReportOK
<1>2. ASSUME Quietly, job[w].pc # "embed", job'[w].pc # "embed" PROVE ReportOK(w)'
  BY <1>0, <1>2 DEF Quietly, ReportOK
<1>3. CASE \E request \in Requests, d \in Docs : StartJob(w, request, d) /\ Quietly
  <2>1. job[w].pc # "embed" /\ job'[w].pc = "select"
    BY <1>0, <1>3, IdleJobType DEF StartJob, IdleJob
  <2> QED
    BY <1>2, <1>3, <2>1
<1>4. CASE FinishJob(w) /\ Quietly
  BY <1>0, <1>2, <1>4, IdleJobType DEF FinishJob, EndJob
<1>5. CASE SelectDocuments(w) /\ Quietly
  <2>1. job[w].pc = "select" /\ job'[w].pc = "read"
    BY <1>0, <1>5 DEF SelectDocuments, Job
  <2> QED
    BY <1>2, <1>5, <2>1
<1>6. CASE Announce(w)
  <2>1. CASE job[w].dry
    <3>1. job[w].pc = "read" /\ job'[w] = Processed(job[w]) /\ Quietly
      BY <1>0, <1>6, <2>1 DEF Announce, ReadInputs
    <3> QED
      BY <1>0, <1>2, <3>1, ProcessedType
  <2>2. CASE ~job[w].dry
    <3>1. /\ job[w].pc = "read" /\ job'[w].pc = "embed" /\ job'[w].batch = job[w].batch
          /\ event' = Logged("started", job[w].batch)
          /\ status' = "running" /\ outcome' = outcome
      BY <1>0, <1>6, <2>2 DEF Announce, ReadInputs, Job
    <3>2. job[w].batch = {} => event' = event
      BY <3>1 DEF Logged
    <3> QED
      BY <1>0, <3>1, <3>2 DEF ReportOK
  <2> QED
    BY <2>1, <2>2
<1>7. CASE ReportUnavailable(w)
  <2>1. job'[w].pc = "idle" /\ status' = "idle" /\ outcome'[w] = "unavailable"
    BY <1>0, <1>7, IdleJobType DEF ReportUnavailable, EmbedFails, EndJob
  <2> QED
    BY <2>1 DEF ReportOK
<1>8. CASE ReportVectorized(w)
  <2>1. job[w].pc = "embed" /\ job'[w] = Processed(job[w]) /\ status' = "idle"
    BY <1>0, <1>8 DEF ReportVectorized, Persist
  <2>2. CASE job[w].batch = {}
    <3>1. event' = event /\ outcome'[w] = outcome[w]
      BY <1>0, <1>8, <2>2 DEF ReportVectorized, Logged
    <3> QED
      BY <1>0, <2>1, <2>2, <3>1, ProcessedType DEF ReportOK
  <2>3. CASE job[w].batch # {}
    <3>1. event'.name = "vectorized"
      BY <1>0, <1>8, <2>3, LoggedType DEF ReportVectorized, ActivityTypeOK
    <3> QED
      BY <1>0, <2>1, <3>1, ProcessedType DEF ReportOK
  <2> QED
    BY <2>2, <2>3
<1>9. CASE Raise(w)
  <2>1. job'[w].pc = "idle" /\ outcome'[w] = "raised"
    BY <1>0, <1>9, IdleJobType DEF Raise, PersistRefused, EndJob
  <2> QED
    BY <2>1 DEF ReportOK
<1>10. CASE Die(w)
  <2>1. CASE job[w].pc = "embed"
    <3>1. job'[w].pc = "idle" /\ outcome'[w] = "raised"
      BY <1>0, <1>10, <2>1, IdleJobType DEF Die, EndJob
    <3> QED
      BY <3>1 DEF ReportOK
  <2>2. CASE job[w].pc # "embed"
    <3>1. job'[w].pc = "idle" /\ UNCHANGED <<event, status>> /\ outcome'[w] = outcome[w]
      BY <1>0, <1>10, <2>2, IdleJobType DEF Die, EndJob
    <3> QED
      BY <1>0, <2>2, <3>1 DEF ReportOK
  <2> QED
    BY <2>1, <2>2
<1>11. CASE UNCHANGED activityVars
  BY <1>1, <1>11 DEF activityVars, vectorVars, Quietly
<1>12. CASE Beside /\ Quietly
  BY <1>1, <1>12, BesideLeavesJobs
<1>13. CASE ReportedStep(w)
  BY <1>4, <1>5, <1>6, <1>7, <1>8, <1>9, <1>13 DEF ReportedStep
<1> QED
  BY <1>3, <1>10, <1>11, <1>12, <1>13 DEF ActivityNext

LEMMA ActivityInvHolds == ActivitySpec => []ActivityInv
<1>1. ActivityInit => ActivityInv
  <2> SUFFICES ASSUME ActivityInit PROVE ActivityInv
    OBVIOUS
  <2>1. VectorInv
    BY VectorInitOK DEF ActivityInit
  <2>2. ActivityTypeOK
    BY <2>1 DEF ActivityInit, ActivityTypeOK, VectorInv, NoEvent
  <2>3. \A w \in Workers : ReportOK(w)
    BY IdleJobType DEF ActivityInit, VectorInit, ReportOK, NoEvent
  <2> QED
    BY <2>1, <2>2, <2>3 DEF ActivityInv
<1>2. ActivityInv /\ [ActivityNext]_activityVars => ActivityInv'
  <2> SUFFICES ASSUME ActivityInv, [ActivityNext]_activityVars PROVE ActivityInv'
    OBVIOUS
  <2>1. VectorInv'
    BY ActivitySteps, VectorInvStep DEF ActivityInv
  <2>2. ActivityTypeOK'
    BY <2>1, ActivityTypeStep
  <2>3. \A w \in Workers : Workers = {w} => ReportOK(w)'
    BY ReportStep
  <2> QED
    BY <2>1, <2>2, <2>3 DEF ActivityInv
<1> QED
  BY <1>1, <1>2, PTL DEF ActivitySpec

\* The report of health_command follows a single worker, whatever is written
\* or deleted meanwhile and wherever the worker process dies.
THEOREM HealthCorrect == ActivitySpec => []HealthInv
<1>1. ActivityInv => HealthInv
  BY DEF ActivityInv, HealthInv, HealthFollowsTheWorker, Health, ReportOK
<1> QED
  BY <1>1, ActivityInvHolds, PTL

\* Search and flags beside workers that may die at any step.
THEOREM SearchSurvivesDeath == ActivitySpec => []SearchServesCurrentText
<1>1. ActivityInv => SearchServesCurrentText
  BY ServesCurrent DEF ActivityInv
<1> QED
  BY <1>1, ActivityInvHolds, PTL

THEOREM FlagsSurviveDeath == ActivitySpec => []MissingVectorsAreFlagged
<1>1. ActivityInit => AccountInv
  BY AccountInitOK DEF ActivityInit
<1>2. ActivityInv /\ AccountInv /\ [ActivityNext]_activityVars => AccountInv'
  BY ActivitySteps, AccountStep DEF ActivityInv
<1>3. AccountInv => MissingVectorsAreFlagged
  BY DEF AccountInv
<1> QED
  BY <1>1, <1>2, <1>3, ActivityInvHolds, PTL DEF ActivitySpec

=============================================================================
