---------------------------- MODULE ChunkVersions ----------------------------
(***************************************************************************)
(* The text-version lifecycle of semantic chunks: the operations of        *)
(* runtime/chunk_versions.py, the entity_update text writer of             *)
(* runtime/entity_lifecycle.py and the tag/classifier writer of            *)
(* runtime/semantic_chunk_metadata.py, over the tables of migrations       *)
(* 0015-0017.                                                              *)
(*                                                                         *)
(* Every operation locks its semantic_chunks row FOR UPDATE (or updates    *)
(* it) first and runs in one transaction, so an operation on a chunk is    *)
(* one atomic step; operations of different callers interleave between     *)
(* steps.  A refused call changes nothing and is a stuttering step.        *)
(***************************************************************************)
EXTENDS Integers, FiniteSets

CONSTANTS
  Chunks,      \* semantic_chunks.id
  Docs,        \* documents.id
  Files,       \* files.id
  DocOf,       \* semantic_chunks.document_id
  FileOf,      \* documents.owner_id, here always a file
  Texts,       \* bodies a version may hold
  NoText,      \* no body: the text of a row that does not exist
  Writers,     \* callers that use expected_current_version
  Migrated,    \* chunks that migration 0017 found
  Labelled,    \* bound: chunks whose classifiers and tags callers rewrite
  MaxVersions  \* bound: version rows ever inserted for one chunk

ASSUME ChunkVersionsAssumption ==
  /\ DocOf \in [Chunks -> Docs]
  /\ FileOf \in [Docs -> Files]
  /\ NoText \notin Texts
  /\ MaxVersions \in Nat \ {0}

VARIABLES
  versions,   \* semantic_chunk_versions, by chunk and row id
  issued,     \* how many row ids were ever given out for the chunk
  current,    \* semantic_chunk_current.version_id
  text,       \* semantic_chunk_texts.text, the active projection
  assigned,   \* chunk_version_id of the status and category assignment rows
  labels,     \* of a type, role, block type or language assignment row
  tags,       \* chunk_version_id of the semantic_chunk_tags rows
  tokens,     \* chunk_version_id of the semantic_chunk_tokens rows
  vec,        \* the chunk's row in semantic_chunk_embeddings
  docVec,     \* whether the document has an active vector
  fileVec,    \* whether the file has an active vector
  dirtyDoc,   \* documents.needs_revectorize
  dirtyFile,  \* files.needs_revectorize
  seen        \* version each writer last read with chunk_version_get

history == <<versions, issued>>
projection == <<current, text, assigned, labels>>
derived == <<tags, tokens, vec>>
aggregates == <<docVec, fileVec>>
flags == <<dirtyDoc, dirtyFile>>
chunkVars == <<history, projection, derived, aggregates, flags, seen>>

-----------------------------------------------------------------------------
Null == 0     \* a NULL reference
NoRow == -1   \* no row in the referencing table

Ids == 1 .. MaxVersions
Refs == Ids \cup {Null, NoRow}

LiveRow == [no : Nat, text : Texts, status : {"active", "retired"}, current : BOOLEAN]

AbsentRow == [no |-> 0, text |-> NoText, status |-> "absent", current |-> FALSE]

Row == LiveRow \cup {AbsentRow}

Vector == [state : {"none", "inactive", "active"},
           version : Ids \cup {Null}, text : Texts \cup {NoText}]

NoVector == [state |-> "none", version |-> Null, text |-> NoText]

\* What a writer remembers of a read: number and row; 0 for nothing read.
Unseen == [no |-> 0, id |-> 0]

Live(c) == {i \in Ids : versions[c][i].status # "absent"}

\* Mutant of IsNextNo: the number is a count of the rows.
IsRowCount(c, n) == n = Cardinality(Live(c)) + 1

\* n = COALESCE(MAX(version_no), 0) + 1 over the chunk's rows.
IsNextNo(c, n) ==
  /\ \A i \in Live(c) : versions[c][i].no < n
  /\ n = 1 \/ \E i \in Live(c) : versions[c][i].no = n - 1

\* Mutant of ExpectedIsCurrent: the expected number only has to exist.
ExpectedExists(c, expected) ==
  expected = Null \/ \E i \in Live(c) : versions[c][i].no = expected

\* The guard of expected_current_version; Null is "not supplied".
ExpectedIsCurrent(c, expected) ==
  \/ expected = Null
  \/ current[c] # NoRow /\ versions[c][current[c]].no = expected

\* The foreign key semantic_chunk_current.version_id.
CurrentRefersToRow == \A c \in Chunks : current[c] \in Live(c) \cup {NoRow}

TypeOK ==
  /\ versions \in [Chunks -> [Ids -> Row]]
  /\ issued \in [Chunks -> 0 .. MaxVersions]
  /\ current \in [Chunks -> Ids \cup {NoRow}]
  /\ CurrentRefersToRow
  /\ text \in [Chunks -> Texts]
  /\ assigned \in [Chunks -> Ids \cup {Null}]
  /\ labels \in [Chunks -> Ids \cup {Null}]
  /\ tags \in [Chunks -> Refs]
  /\ tokens \in [Chunks -> Refs]
  /\ vec \in [Chunks -> Vector]
  /\ docVec \in [Docs -> BOOLEAN]
  /\ fileVec \in [Files -> BOOLEAN]
  /\ dirtyDoc \in [Docs -> BOOLEAN]
  /\ dirtyFile \in [Files -> BOOLEAN]
  /\ seen \in [Writers -> [Chunks -> [no : Nat, id : Ids \cup {0}]]]

-----------------------------------------------------------------------------
(* State after ingestion published the chunks: version 1 selected, nothing *)
(* embedded yet and both flags raised.  Publication stamps version 1 on    *)
(* the child rows before it writes them, so theirs is NULL; the rows that  *)
(* migration 0017 found carry version 1.                                   *)

Init ==
  /\ text \in [Chunks -> Texts]
  /\ versions = [c \in Chunks |-> [i \in Ids |->
                   IF i = 1 THEN [no |-> 1, text |-> text[c],
                                  status |-> "active", current |-> TRUE]
                            ELSE AbsentRow]]
  /\ issued = [c \in Chunks |-> 1]
  /\ current = [c \in Chunks |-> 1]
  /\ assigned \in [Chunks -> {Null, 1}]
  /\ \A c \in Chunks \ Migrated : assigned[c] = Null
  /\ labels = assigned
  /\ tags \in [Chunks -> {NoRow, Null, 1}]
  /\ \A c \in Chunks : tags[c] \in {NoRow, assigned[c]}
  /\ tokens = assigned
  /\ vec = [c \in Chunks |-> NoVector]
  /\ docVec = [d \in Docs |-> FALSE]
  /\ fileVec = [f \in Files |-> FALSE]
  /\ dirtyDoc = [d \in Docs |-> TRUE]
  /\ dirtyFile = [f \in Files |-> TRUE]
  /\ seen = [w \in Writers |-> [c \in Chunks |-> Unseen]]

-----------------------------------------------------------------------------
(* Building blocks of the operations. *)

\* Mutant of WithNewRow: the newest row is overwritten as well.
OverwritingPrevious(rows, i, n, t) ==
  [j \in Ids |->
     IF j = i THEN [no |-> n, text |-> t, status |-> "active", current |-> FALSE]
     ELSE IF rows[j].current THEN [rows[j] EXCEPT !.text = t]
     ELSE rows[j]]

\* The rows of a chunk with a new, not yet selected row i.
WithNewRow(rows, i, n, t) ==
  [rows EXCEPT ![i] = [no |-> n, text |-> t, status |-> "active", current |-> FALSE]]

Retired(row) == [row EXCEPT !.current = FALSE, !.status = "retired"]
Promoted(row) == [row EXCEPT !.current = TRUE, !.status = "active"]

\* Mutant of Selected: the previous row keeps is_current.
SelectedBesideOthers(rows, i) == [rows EXCEPT ![i] = Promoted(rows[i])]

\* _activate on the version table: every other current row is retired.
Selected(rows, i) ==
  [j \in Ids |-> IF j = i THEN Promoted(rows[j])
                 ELSE IF rows[j].current THEN Retired(rows[j])
                 ELSE rows[j]]

\* UPDATE semantic_chunk_embeddings SET active = FALSE.
Deactivated(v) == IF v.state = "active" THEN [v EXCEPT !.state = "inactive"] ELSE v

\* Mutant of Invalidate: tag rows survive a change of version.
InvalidateButTags(c) ==
  /\ tokens' = [tokens EXCEPT ![c] = NoRow]
  /\ vec' = [vec EXCEPT ![c] = Deactivated(vec[c])]
  /\ docVec' = [docVec EXCEPT ![DocOf[c]] = FALSE]
  /\ fileVec' = [fileVec EXCEPT ![FileOf[DocOf[c]]] = FALSE]
  /\ dirtyDoc' = [dirtyDoc EXCEPT ![DocOf[c]] = TRUE]
  /\ dirtyFile' = [dirtyFile EXCEPT ![FileOf[DocOf[c]]] = TRUE]
  /\ UNCHANGED tags

\* _invalidate_derived_rows.
Invalidate(c) ==
  LET d == DocOf[c]
      f == FileOf[d]
  IN  /\ tags' = [tags EXCEPT ![c] = NoRow]
      /\ tokens' = [tokens EXCEPT ![c] = NoRow]
      /\ vec' = [vec EXCEPT ![c] = Deactivated(vec[c])]
      /\ docVec' = [docVec EXCEPT ![d] = FALSE]
      /\ fileVec' = [fileVec EXCEPT ![f] = FALSE]
      /\ dirtyDoc' = [dirtyDoc EXCEPT ![d] = TRUE]
      /\ dirtyFile' = [dirtyFile EXCEPT ![f] = TRUE]

\* Mutant of Activate: semantic_chunk_texts is not rewritten.
ActivateWithoutText(c, i, rows) ==
  /\ versions' = [versions EXCEPT ![c] = Selected(rows, i)]
  /\ current' = [current EXCEPT ![c] = i]
  /\ assigned' = [assigned EXCEPT ![c] = i]
  /\ labels' = [labels EXCEPT ![c] = i]
  /\ Invalidate(c)
  /\ UNCHANGED text

\* _activate: select row i of `rows` and invalidate what was derived.
Activate(c, i, rows) ==
  /\ versions' = [versions EXCEPT ![c] = Selected(rows, i)]
  /\ current' = [current EXCEPT ![c] = i]
  /\ text' = [text EXCEPT ![c] = rows[i].text]
  /\ assigned' = [assigned EXCEPT ![c] = i]
  /\ labels' = [labels EXCEPT ![c] = i]
  /\ Invalidate(c)

\* _insert_version followed by _activate, for an allocated number n.
InsertAndActivate(c, n, t) ==
  /\ issued[c] < MaxVersions
  /\ issued' = [issued EXCEPT ![c] = issued[c] + 1]
  /\ Activate(c, issued[c] + 1, WithNewRow(versions[c], issued[c] + 1, n, t))

-----------------------------------------------------------------------------
(* Operations. *)

\* append_version and update_text: an equal text is "unchanged".
AppendVersion(c, t, expected) ==
  /\ ExpectedIsCurrent(c, expected)
  /\ current[c] # NoRow => versions[c][current[c]].text # t
  /\ \E n \in Ids : IsNextNo(c, n) /\ InsertAndActivate(c, n, t)

\* restore_version: copy version k into a fresh current version.
RestoreVersion(c, k, expected) ==
  /\ k \in Live(c)
  /\ ExpectedIsCurrent(c, expected)
  /\ \E n \in Ids :
       IsNextNo(c, n) /\ InsertAndActivate(c, n, versions[c][k].text)

\* set_current: promote an existing version, the current one included.
SetCurrent(c, k) ==
  /\ k \in Live(c)
  /\ Activate(c, k, versions[c])
  /\ UNCHANGED <<issued, seen>>

\* retire_version of a row that is not current.
RetireOther(c, k) ==
  /\ k \in Live(c)
  /\ Live(c) # {k}
  /\ ~versions[c][k].current
  /\ versions' = [versions EXCEPT ![c][k].status = "retired"]
  /\ UNCHANGED <<issued, projection, derived, aggregates, flags, seen>>

\* Mutant of RetireCurrent: the row is retired with no replacement selected.
RetireWithoutReplacement(c, k, replacement) ==
  /\ {k, replacement} \subseteq Live(c)
  /\ versions[c][k].current
  /\ versions' = [versions EXCEPT ![c][k] = Retired(versions[c][k])]
  /\ current' = [current EXCEPT ![c] = NoRow]
  /\ UNCHANGED <<issued, text, assigned, labels, derived, aggregates, flags, seen>>

\* retire_version of the current row: the replacement is promoted first.
RetireCurrent(c, k, replacement) ==
  /\ k \in Live(c)
  /\ Live(c) # {k}
  /\ versions[c][k].current
  /\ replacement \in Live(c) \ {k}
  /\ Activate(c, replacement, versions[c])
  /\ UNCHANGED <<issued, seen>>

\* What ON DELETE SET NULL leaves of a reference to a deleted row.
Unlinked(ref, k) == IF ref = k THEN Null ELSE ref

\* Mutant of DeleteVersion: semantic_chunk_current does not cascade.
DeleteWithoutCascade(c, k) ==
  /\ k \in Live(c)
  /\ Live(c) # {k}
  /\ versions' = [versions EXCEPT ![c][k] = AbsentRow]
  /\ UNCHANGED <<issued, projection, derived, aggregates, flags, seen>>

\* delete_version: DELETE the row; the foreign keys cascade to
\* semantic_chunk_current and null every chunk_version_id.  The handler then
\* compares semantic_chunk_current with the deleted id, and never finds it.
DeleteVersion(c, k) ==
  /\ k \in Live(c)
  /\ Live(c) # {k}
  /\ versions' = [versions EXCEPT ![c][k] = AbsentRow]
  /\ current' = [current EXCEPT ![c] = IF current[c] = k THEN NoRow ELSE current[c]]
  /\ assigned' = [assigned EXCEPT ![c] = Unlinked(assigned[c], k)]
  /\ labels' = [labels EXCEPT ![c] = Unlinked(labels[c], k)]
  /\ tags' = [tags EXCEPT ![c] = Unlinked(tags[c], k)]
  /\ tokens' = [tokens EXCEPT ![c] = Unlinked(tokens[c], k)]
  /\ vec' = [vec EXCEPT ![c].version = Unlinked(vec[c].version, k)]
  /\ UNCHANGED <<issued, text, aggregates, flags, seen>>

\* The text entity_update may compare with: its locking SELECT takes the
\* joined semantic_chunk_texts row from the statement's snapshot, which a
\* writer it then waits for may have replaced.
ReadableTexts(c) == {text[c]} \cup {versions[c][i].text : i \in Live(c)}

\* _replace_semantic_chunk_text (entity_update): append and select through
\* the current pointer, drop the chunk's own derived rows.  Of the classifier
\* rows only status and category are reset and follow the new version.
EntityUpdate(c, t) ==
  LET i == issued[c] + 1
  IN  /\ \E read \in ReadableTexts(c) : read # t
      /\ i <= MaxVersions
      /\ \E n \in Ids :
           /\ IsNextNo(c, n)
           /\ versions' = [versions EXCEPT ![c] = [j \in Ids |->
                IF j = i THEN [no |-> n, text |-> t, status |-> "active", current |-> TRUE]
                ELSE IF j = current[c] THEN Retired(versions[c][j])
                ELSE versions[c][j]]]
      /\ issued' = [issued EXCEPT ![c] = i]
      /\ current' = [current EXCEPT ![c] = i]
      /\ text' = [text EXCEPT ![c] = t]
      /\ assigned' = [assigned EXCEPT ![c] = i]
      /\ tags' = [tags EXCEPT ![c] = NoRow]
      /\ tokens' = [tokens EXCEPT ![c] = NoRow]
      /\ vec' = [vec EXCEPT ![c] = NoVector]
      /\ UNCHANGED <<labels, aggregates, flags, seen>>

\* The version id the metadata writer stores: (SELECT version_id FROM
\* semantic_chunk_current), NULL when there is no row.
CurrentOrNull(c) == IF current[c] = NoRow THEN Null ELSE current[c]

\* _update_one with classifier fields: upsert the rows of the given ones.
ClassifyChunk(c) ==
  /\ assigned' \in {assigned, [assigned EXCEPT ![c] = CurrentOrNull(c)]}
  /\ labels' \in {labels, [labels EXCEPT ![c] = CurrentOrNull(c)]}
  /\ UNCHANGED <<history, current, text, derived, aggregates, flags, seen>>

\* _update_one with "tags": delete all tag rows, insert the given ones.
ReplaceTags(c, empty) ==
  /\ tags' = [tags EXCEPT ![c] = IF empty THEN NoRow ELSE CurrentOrNull(c)]
  /\ UNCHANGED <<history, projection, tokens, vec, aggregates, flags, seen>>

\* chunk_version_get(current=true) by a caller that will write conditionally.
ReadCurrent(w, c) ==
  /\ current[c] # NoRow
  /\ seen' = [seen EXCEPT ![w][c] = [no |-> versions[c][current[c]].no, id |-> current[c]]]
  /\ UNCHANGED <<history, projection, derived, aggregates, flags>>

\* A conditional write ends the caller's read-modify-write cycle.
Forget(w, c) == seen' = [seen EXCEPT ![w][c] = Unseen]

AppendExpecting(w, c, t) ==
  seen[w][c] # Unseen /\ AppendVersion(c, t, seen[w][c].no) /\ Forget(w, c)

RestoreExpecting(w, c, k) ==
  seen[w][c] # Unseen /\ RestoreVersion(c, k, seen[w][c].no) /\ Forget(w, c)

\* The operations of chunk_versions.py and of the metadata writer.
VersionOperation(c) ==
  \/ \E t \in Texts : AppendVersion(c, t, Null) /\ UNCHANGED seen
  \/ \E k \in Ids : RestoreVersion(c, k, Null) /\ UNCHANGED seen
  \/ \E k \in Ids : SetCurrent(c, k)
  \/ \E k \in Ids : RetireOther(c, k)
  \/ \E k \in Ids, r \in Ids : RetireCurrent(c, k, r)
  \/ \E k \in Ids : DeleteVersion(c, k)
  \/ c \in Labelled /\ ClassifyChunk(c)
  \/ c \in Labelled /\ \E empty \in BOOLEAN : ReplaceTags(c, empty)

ChunkOperation(c) == VersionOperation(c) \/ \E t \in Texts : EntityUpdate(c, t)

WriterOperation(w, c) ==
  \/ ReadCurrent(w, c)
  \/ \E t \in Texts : AppendExpecting(w, c, t)
  \/ \E k \in Ids : RestoreExpecting(w, c, k)

Next ==
  \E c \in Chunks : ChunkOperation(c) \/ \E w \in Writers : WriterOperation(w, c)

Spec == Init /\ [][Next]_chunkVars

-----------------------------------------------------------------------------
(* Safety. *)

\* uq_semantic_chunk_versions: the number computed as MAX + 1 under the chunk
\* lock never collides with a surviving row, hard deletes included.
UniqueVersionNumbers ==
  \A c \in Chunks : \A i, j \in Live(c) :
    versions[c][i].no = versions[c][j].no => i = j

\* The two records of the selection agree: is_current is set on exactly the
\* row semantic_chunk_current points to, whichever of the writers moved it
\* (chunk_versions.py clears by is_current, entity_lifecycle.py by pointer).
CurrentAgreement ==
  \A c \in Chunks : \A i \in Ids : versions[c][i].current <=> current[c] = i

\* semantic_chunk_texts holds the text of the selected version.
ProjectionMatchesSelected ==
  \A c \in Chunks : current[c] # NoRow =>
    text[c] = versions[c][current[c]].text

\* Status, category, tag and token rows that carry a version carry the selected
\* one: no row of an earlier text is left behind, also after the selection
\* was lost to a hard delete and a new version selected.
DerivedOfCurrent ==
  \A c \in Chunks : {assigned[c], tags[c], tokens[c]} \subseteq {NoRow, Null, current[c]}

\* A chunk loses its selection only when the selected row itself is deleted:
\* retire_version always leaves a replacement selected.
SelectionLostOnlyByDelete ==
  [][\A c \in Chunks :
       current[c] # NoRow /\ current'[c] = NoRow => current[c] \notin Live(c)']_chunkVars

\* History is append-only: number and text of a surviving row never change,
\* so list, get and diff stay reproducible.
HistoryAppendOnly ==
  [][\A c \in Chunks : \A i \in Live(c) :
       i \in Live(c)' => /\ versions'[c][i].no = versions[c][i].no
                        /\ versions'[c][i].text = versions[c][i].text]_chunkVars

\* A conditional write is let through only if the version the caller read is
\* still selected, or was hard-deleted since.
LockDetectsIntervening ==
  [][\A w \in Writers, c \in Chunks :
       seen[w][c] # Unseen /\ seen'[w][c] = Unseen =>
         \/ current[c] = seen[w][c].id
         \/ seen[w][c].id \notin Live(c)]_chunkVars

-----------------------------------------------------------------------------
(* Statements of the documentation that the code does not keep. *)

\* info.py:253 "semantic_chunk_current ... selects exactly one active
\* historical version"; info.py:283 promises that chunk_version_delete of the
\* current row promotes the highest remaining one.
ChunkAlwaysSelectsAVersion == \A c \in Chunks : current[c] # NoRow

\* chunk_version_commands.py:151: CURRENT_VERSION_MISMATCH is returned when
\* expected_current_version "no longer matches the active version".
OptimisticLockExact ==
  [][\A w \in Writers, c \in Chunks :
       seen[w][c] # Unseen /\ seen'[w][c] = Unseen =>
         current[c] = seen[w][c].id]_chunkVars

=============================================================================
