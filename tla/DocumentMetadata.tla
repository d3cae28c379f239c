-------------------------- MODULE DocumentMetadata --------------------------
(***************************************************************************)
(* Metadata of a published document and its chunks: document_rebind, the   *)
(* SemanticChunk metadata batches, document_delete, and what entity_update *)
(* and the chunk version commands do to metadata, each call one            *)
(* READ COMMITTED transaction.                                             *)
(*                                                                         *)
(* block_meta is read with a plain SELECT, merged in Python and written    *)
(* back whole; the classifier columns, their assignment rows and the tag   *)
(* rows are written beside it.  Nothing is locked between read and write.  *)
(* Chapters and paragraphs are rebound like chunks and left out.           *)
(***************************************************************************)
EXTENDS Integers, FiniteSets, Sequences, Functions

CONSTANTS
  Callers,      \* concurrent requests
  Doc,          \* the document row
  Chunks,       \* its chunk rows
  Categories,   \* descr of category rows
  Uncategorized,\* RESET_CATEGORY, one of them
  Values,       \* other metadata values
  Projects,     \* project names
  Null,
  SourceTags,   \* the tags publication derives from a chunk's text
  Batches,      \* target lists callers pass to the metadata command
  Rebinds,      \* arguments callers pass to document_rebind
  Overwrites,   \* block_meta callers pass to entity_update
  Versions,     \* source_version numbers of the document, a text's hash each
  MaxCalls      \* bound: calls of each caller

VARIABLES
  row,      \* the document and chunk rows, as committed; Null when deleted
  version,  \* documents.source_version
  dict,     \* categories that exist
  call,     \* the locals of each caller's transaction
  calls,    \* calls begun, by caller
  adrift    \* history: <<chunk, field>> whose block_meta and columns or tag rows
            \* a call wrote apart, or from a stale read, since the last text reset

vars == <<row, version, dict, call, calls, adrift>>

\* A dictionary of one key, and the dictionary f updated with those of g it lacks.
Of(k, value) == [x \in {k} |-> value]
Over(f, g) == [x \in DOMAIN f \cup DOMAIN g |-> IF x \in DOMAIN f THEN f[x] ELSE g[x]]

-----------------------------------------------------------------------------
(* Rows and patches.                                                        *)

Rows == Chunks \cup {Doc}

\* Fields of block_meta that a chunk also keeps in columns or rows of its own.
Doubled == {"category", "tags"}

\* The fields a patch may set; tags stands for the tag list as a whole, category for
\* every classifier.
SafeFields == {"category", "tags", "title"}
Allowed(k) == IF k = "category" THEN Categories ELSE IF k = "project" THEN Projects ELSE Values
Patches == {p \in UNION {[ks -> Categories \cup Values] : ks \in SUBSET SafeFields} :
              DOMAIN p # {} /\ \A k \in DOMAIN p : p[k] \in Allowed(k)}

ASSUME MetadataAssumption ==
  /\ Doc \notin Chunks
  /\ Uncategorized \in Categories
  /\ SourceTags \in Values
  /\ MaxCalls \in [Callers -> Nat]
  /\ Batches \subseteq Seq(Chunks \X Patches)
  /\ \A a \in Rebinds :
       /\ a.project \in Projects \cup {Null}
       /\ DOMAIN a.props \subseteq SafeFields \cup {"project"}
       /\ \A k \in DOMAIN a.props : a.props[k] \in Allowed(k)

\* block_meta as a whole; column, assigned and tags are the classifier column,
\* its assignment row and the tag rows of a chunk.
Meta == [project : Projects \cup {Null}, category : Categories \cup {Null},
         tags : Values \cup {Null}, title : Values \cup {Null}]
Row == [meta : Meta, column : Categories \cup {Null}, assigned : Categories \cup {Null},
        tags : Values \cup {Null}]

ASSUME NullAssumption == Null \notin Categories \cup Values \cup Projects \cup Row \cup Meta
ASSUME OverwritesAssumption == Overwrites \subseteq Meta

NewMeta(category, tags) ==
  [project |-> Null, category |-> category, tags |-> tags, title |-> Null]

\* Publication writes the category and the tags it derives from the text into
\* block_meta, and into the column, the assignment and the tag rows.
NewChunk(category) ==
  [meta |-> NewMeta(category, SourceTags), column |-> category, assigned |-> category,
   tags |-> SourceTags]

NewDoc == [meta |-> NewMeta(Null, Null), column |-> Null, assigned |-> Null, tags |-> Null]

\* Mutant of Merged: a patch that names no project clears it.
MergedOutOfProject(meta, patch) ==
  [k \in DOMAIN meta |-> IF k \in DOMAIN patch THEN patch[k]
                         ELSE IF k = "project" THEN Null ELSE meta[k]]

Merged(meta, patch) == [k \in DOMAIN meta |-> IF k \in DOMAIN patch THEN patch[k] ELSE meta[k]]

-----------------------------------------------------------------------------
(* Transactions.  writes holds the rows written and not yet committed, with *)
(* the locks on them; a row deleted is Null.                                *)

\* pc "read", "dictionary" and "write" belong to a metadata batch, "document",
\* "project" and "kids" to a rebind, "token" and "delete" to a delete.
Idle == [pc |-> "idle", items |-> <<>>, at |-> 1, seen |-> Null, writes |-> <<>>,
         stale |-> {}, made |-> {}, project |-> Null, props |-> <<>>, kids |-> <<>>,
         token |-> Null]

Locked(c) == UNION {DOMAIN call[d].writes : d \in Callers \ {c}}

\* What a statement of c reads: its own write, else the committed row.
View(c, r) == IF r \in DOMAIN call[c].writes THEN call[c].writes[r] ELSE row[r]

Init ==
  /\ row = [r \in Rows |-> IF r = Doc THEN NewDoc ELSE NewChunk(Uncategorized)]
  /\ version \in Versions
  /\ dict = {Uncategorized}
  /\ call = [c \in Callers |-> Idle]
  /\ calls = [c \in Callers |-> 0]
  /\ adrift = {}

Begin(c, t) ==
  /\ call[c].pc = "idle" /\ calls[c] < MaxCalls[c]
  /\ calls' = [calls EXCEPT ![c] = @ + 1]
  /\ call' = [call EXCEPT ![c] = t]
  /\ UNCHANGED <<row, version, dict, adrift>>

Goto(c, t) == call' = [call EXCEPT ![c] = t] /\ UNCHANGED <<row, version, dict, calls, adrift>>

\* An exception rolls the transaction back; so does a call that only read.
Abort(c) == Goto(c, Idle)

\* The transaction of c writes value to r, computed from what it saw there.
Write(c, r, value, saw, t) ==
  [t EXCEPT !.writes = Over(Of(r, value), @),
            !.stale = IF View(c, r).meta = saw.meta THEN @ ELSE @ \cup {r}]

\* What t leaves apart: fields merged from a stale read, and those a rebind set,
\* which writes no columns.
Drift(t) ==
  ((t.stale \cap Chunks) \X Doubled) \cup ((DOMAIN t.writes \cap Chunks) \X (DOMAIN t.props \cap Doubled))

Commit(c) ==
  /\ row' = Over(call[c].writes, row)
  /\ dict' = dict \cup call[c].made
  /\ adrift' = adrift \cup Drift(call[c])
  /\ call' = [call EXCEPT ![c] = Idle]
  /\ UNCHANGED <<version, calls>>

-----------------------------------------------------------------------------
(* The metadata commands: item after item in one transaction.               *)

UpdateMetadata(c, items) == Begin(c, [Idle EXCEPT !.pc = "read", !.items = items])

Target(t) == t.items[t.at][1]
Patch(t) == t.items[t.at][2]

\* Mutant of ReadItem: rows are read from the table as committed.
ReadItemCommitted(c) ==
  /\ call[c].pc = "read" /\ call[c].at <= Len(call[c].items)
  /\ IF row[Target(call[c])] = Null THEN Abort(c)
     ELSE Goto(c, [call[c] EXCEPT !.pc = "dictionary", !.seen = row[Target(call[c])]])

\* Mutant of ReadItem: a chunk that is not there is looked for again.
ReadItemAgain(c) ==
  /\ call[c].pc = "read" /\ call[c].at <= Len(call[c].items)
  /\ View(c, Target(call[c])) # Null
  /\ Goto(c, [call[c] EXCEPT !.pc = "dictionary", !.seen = View(c, Target(call[c]))])

\* A chunk that is not there is a LookupError: nothing of the batch stays.
ReadItem(c) ==
  /\ call[c].pc = "read" /\ call[c].at <= Len(call[c].items)
  /\ IF View(c, Target(call[c])) = Null THEN Abort(c)
     ELSE Goto(c, [call[c] EXCEPT !.pc = "dictionary", !.seen = View(c, Target(call[c]))])

\* Mutant of FindCategory: no unique key makes two inserts wait.
FindCategoryAtOnce(c) ==
  LET t == call[c]
      wanted == {Patch(t)[k] : k \in DOMAIN Patch(t) \cap {"category"}} \ (dict \cup t.made)
  IN  /\ t.pc = "dictionary"
      /\ Goto(c, [t EXCEPT !.pc = "write", !.made = @ \cup wanted])

\* A new category is inserted, which waits for a transaction that inserts it too.
FindCategory(c) ==
  LET t == call[c]
      wanted == {Patch(t)[k] : k \in DOMAIN Patch(t) \cap {"category"}} \ (dict \cup t.made)
  IN  /\ t.pc = "dictionary"
      /\ \A d \in Callers \ {c} : wanted \cap call[d].made = {}
      /\ Goto(c, [t EXCEPT !.pc = "write", !.made = @ \cup wanted])

\* Mutant of Written: a classifier writes its column and no assignment row.
WrittenColumn(now, saw, patch) ==
  [now EXCEPT !.meta = Merged(saw.meta, patch),
              !.column = IF "category" \in DOMAIN patch THEN patch["category"] ELSE @,
              !.tags = IF "tags" \in DOMAIN patch THEN patch["tags"] ELSE @]

\* block_meta comes from the row seen, the columns and rows beside it stay as
\* they are now unless the patch names them.
Written(now, saw, patch) ==
  [now EXCEPT !.meta = Merged(saw.meta, patch),
              !.column = IF "category" \in DOMAIN patch THEN patch["category"] ELSE @,
              !.assigned = IF "category" \in DOMAIN patch THEN patch["category"] ELSE @,
              !.tags = IF "tags" \in DOMAIN patch THEN patch["tags"] ELSE @]

\* The UPDATE of a row deleted meanwhile writes nothing; the rows that name the
\* chunk then fail on their foreign key.
WriteItem(c) ==
  LET t == call[c]  r == Target(t)  next == [t EXCEPT !.pc = "read", !.at = @ + 1, !.seen = Null]
  IN  /\ t.pc = "write" /\ r \notin Locked(c)
      /\ \/ /\ View(c, r) # Null
            /\ Goto(c, Write(c, r, Written(View(c, r), t.seen, Patch(t)), t.seen, next))
         \/ View(c, r) = Null /\ DOMAIN Patch(t) \cap {"category", "tags"} = {} /\ Goto(c, next)
         \/ View(c, r) = Null /\ DOMAIN Patch(t) \cap {"category", "tags"} # {} /\ Abort(c)

CommitBatch(c) == call[c].pc = "read" /\ call[c].at > Len(call[c].items) /\ Commit(c)

-----------------------------------------------------------------------------
(* document_rebind.                                                         *)

RebindDocument(c, args) ==
  Begin(c, [Idle EXCEPT !.pc = "document", !.project = args.project, !.props = args.props])

\* The project and the caller's properties, which take precedence.
ChildUpdates(t) == Over(t.props, IF t.project = Null THEN <<>> ELSE Of("project", t.project))

ReadDocument(c) ==
  /\ call[c].pc = "document"
  /\ IF row[Doc] = Null THEN Abort(c)
     ELSE Goto(c, [call[c] EXCEPT !.pc = "project", !.seen = row[Doc]])

\* The project row is upserted, which waits for a rebind to the same project,
\* and the document is written.
WriteDocument(c) ==
  LET t == call[c]
      updates == IF t.project = Null THEN <<>> ELSE Of("project", t.project)
      newRow == [t.seen EXCEPT !.meta = Merged(@, updates)]
      next == [t EXCEPT !.pc = "children", !.seen = Null]
  IN  /\ t.pc = "project" /\ Doc \notin Locked(c)
      /\ \A d \in Callers \ {c} :
           t.project # Null /\ call[d].pc \in {"children", "kids"} => call[d].project # t.project
      /\ Goto(c, IF row[Doc] = Null THEN next ELSE Write(c, Doc, newRow, t.seen, next))

\* Mutant of ReadChildren: only one child is read.
ReadFirstChild(c) ==
  /\ call[c].pc = "children"
  /\ Goto(c, [call[c] EXCEPT !.pc = "kids",
                !.kids = LET x == CHOOSE r \in Chunks : TRUE IN Of(x, row[x])])

\* One SELECT reads all children and their block_meta.
ReadChildren(c) ==
  /\ call[c].pc = "children"
  /\ Goto(c, [call[c] EXCEPT !.pc = "kids",
                !.kids = [r \in {x \in Chunks : row[x] # Null} |-> row[r]]])

\* Children are written one by one, in the order the table gives them.
WriteChild(c, r) ==
  LET t == call[c]
      next == [t EXCEPT !.kids = Restrict(@, DOMAIN @ \ {r})]
      kid  == [View(c, r) EXCEPT !.meta = Merged(t.kids[r].meta, ChildUpdates(t))]
  IN  /\ t.pc = "kids" /\ r \in DOMAIN t.kids /\ r \notin Locked(c)
      /\ Goto(c, IF row[r] = Null THEN next ELSE Write(c, r, kid, t.kids[r], next))

CommitRebind(c) == call[c].pc = "kids" /\ DOMAIN call[c].kids = {} /\ Commit(c)

-----------------------------------------------------------------------------
(* entity_update and the chunk version commands: their writes follow under  *)
(* the lock of the row, so each is one step.                                *)

\* A transaction of one step, on a row nobody else has written.
AtOnce(c, r) ==
  /\ call[c].pc = "idle" /\ calls[c] < MaxCalls[c]
  /\ row[r] # Null /\ r \notin Locked(c)
  /\ calls' = [calls EXCEPT ![c] = @ + 1]
  /\ UNCHANGED <<version, dict, call>>

\* entity_update writes the block_meta it is given, and no column or row beside it.
UpdateMeta(c, r, given) ==
  /\ AtOnce(c, r)
  /\ row' = [row EXCEPT ![r] = [@ EXCEPT !.meta = given]]
  /\ adrift' = adrift \cup (({r} \cap Chunks) \X Doubled)

\* Mutant of Reset: tag rows stay, as only block_meta names the fields to clear.
ResetKeepingTags(r) ==
  [r EXCEPT !.meta = [@ EXCEPT !.category = Uncategorized, !.tags = Null, !.title = Null],
            !.column = Uncategorized, !.assigned = Uncategorized]

\* Another text clears what described the old one.
Reset(r) ==
  [r EXCEPT !.meta = [@ EXCEPT !.category = Uncategorized, !.tags = Null, !.title = Null],
            !.column = Uncategorized, !.assigned = Uncategorized, !.tags = Null]

\* entity_update of the text, and of block_meta first when that is given too.
UpdateText(c, r, given) ==
  /\ AtOnce(c, r)
  /\ row' = [row EXCEPT ![r] = Reset(IF given = Null THEN @ ELSE [@ EXCEPT !.meta = given])]
  /\ adrift' = adrift \ ({r} \X Doubled)

\* Append, restore, set_current, retire and delete make another version's text the
\* chunk's: the tag rows go, block_meta and the columns stay.  The document row,
\* flagged for embedding, must be free too.
ActivateVersion(c, r) ==
  /\ AtOnce(c, r) /\ Doc \notin Locked(c)
  /\ row' = [row EXCEPT ![r] = [@ EXCEPT !.tags = Null]]
  /\ adrift' = adrift \cup {<<r, "tags">>}

-----------------------------------------------------------------------------
(* document_delete, and the publications beside it.                         *)

DeleteDocument(c, token) == Begin(c, [Idle EXCEPT !.pc = "token", !.token = token])

\* "already_absent" and "conflict" end the call; the row is not locked.
CheckToken(c) ==
  /\ call[c].pc = "token"
  /\ IF row[Doc] = Null \/ call[c].token # version THEN Abort(c)
     ELSE Goto(c, [call[c] EXCEPT !.pc = "delete"])

\* The DELETE takes the document, then its chunks by their foreign keys.
DeleteRow(c, r) ==
  /\ call[c].pc = "delete"
  /\ r \in Rows \ DOMAIN call[c].writes
  /\ r = Doc \/ Doc \in DOMAIN call[c].writes
  /\ r \notin Locked(c)
  /\ Goto(c, [call[c] EXCEPT !.writes = Over(Of(r, Null), @)])

CommitDelete(c) == call[c].pc = "delete" /\ DOMAIN call[c].writes = Rows /\ Commit(c)

\* A publication of another text rewrites the document row, its block_meta with it.
PublishVersion(v) ==
  /\ row[Doc] # Null /\ v # version
  /\ \A c \in Callers : Doc \notin DOMAIN call[c].writes
  /\ version' = v
  /\ row' = [row EXCEPT ![Doc] = NewDoc]
  /\ UNCHANGED <<dict, call, calls, adrift>>

-----------------------------------------------------------------------------
(* Deadlocks, and the next-state relation.                                  *)

\* The callers that c waits for.
WaitsFor(c) ==
  LET t == call[c]
      wanted == CASE t.pc = "write"   -> {Target(t)}
                  [] t.pc = "project" -> {Doc}
                  [] t.pc = "kids"    -> DOMAIN t.kids
                  [] t.pc = "delete"  -> IF Doc \in DOMAIN t.writes THEN Chunks ELSE {Doc}
                  [] OTHER -> {}
      making == IF t.pc = "dictionary" /\ "category" \in DOMAIN Patch(t)
                THEN {Patch(t)["category"]} \ t.made ELSE {}
  IN  {d \in Callers \ {c} : \/ wanted \cap DOMAIN call[d].writes # {}
                             \/ making \cap call[d].made # {}}

AbortDeadlocked(c) == (\E d \in WaitsFor(c) : c \in WaitsFor(d)) /\ Abort(c)

Step(c) ==
  \/ ReadItem(c) \/ FindCategory(c) \/ WriteItem(c) \/ CommitBatch(c)
  \/ ReadDocument(c) \/ WriteDocument(c) \/ ReadChildren(c) \/ CommitRebind(c)
  \/ CheckToken(c) \/ CommitDelete(c) \/ AbortDeadlocked(c)
  \/ \E r \in Rows : WriteChild(c, r) \/ DeleteRow(c, r)

Next ==
  \/ \E c \in Callers :
       \/ Step(c)
       \/ \E items \in Batches : UpdateMetadata(c, items)
       \/ \E args \in Rebinds : RebindDocument(c, args)
       \/ \E r \in Rows, given \in Overwrites : UpdateMeta(c, r, given)
       \/ \E r \in Chunks, given \in Overwrites \cup {Null} : UpdateText(c, r, given)
       \/ \E r \in Chunks : ActivateVersion(c, r)
       \/ \E token \in Versions : DeleteDocument(c, token)
  \/ \E v \in Versions : PublishVersion(v)

Spec == Init /\ [][Next]_vars

\* A request is served until it ends.
FairSpec == Spec /\ \A c \in Callers : WF_call(Step(c))

-----------------------------------------------------------------------------
(* Properties.                                                              *)

TypeOK ==
  /\ row \in [Rows -> Row \cup {Null}]
  /\ version \in Versions
  /\ dict \subseteq Categories
  /\ \A r \in Chunks : row[r] # Null => row[Doc] # Null /\ row[r].assigned \in dict
  /\ \A c \in Callers : call[c].made \cap dict = {} /\ DOMAIN call[c].writes \subseteq Rows
  /\ \A c \in Callers : calls[c] \in 0 .. MaxCalls[c]
  /\ adrift \in SUBSET (Chunks \X Doubled)

\* The classifier column of a chunk agrees with its assignment row, always.  Both
\* agree with block_meta, as the tag rows do, field by field, but for what a call
\* since the last text reset wrote apart: a patch merged into a block_meta that was
\* replaced meanwhile, a rebind or an entity_update that set the field in block_meta
\* alone, and for the tags the activation of a version, which deletes their rows.
MetaMatchesColumns ==
  \A r \in {x \in Chunks : row[x] # Null} :
    /\ row[r].column = row[r].assigned
    /\ <<r, "category">> \notin adrift => row[r].meta.category = row[r].column
    /\ <<r, "tags">> \notin adrift => row[r].meta.tags = row[r].tags

CommitOf(c, pc) ==
  /\ call[c].pc = pc /\ call'[c].pc = "idle"
  /\ CASE pc = "read"   -> call[c].at > Len(call[c].items)
       [] pc = "kids"   -> DOMAIN call[c].kids = {}
       [] pc = "delete" -> DOMAIN call[c].writes = Rows

\* What a metadata list must have written when c commits it.
ItemsApplied(c) ==
  CommitOf(c, "read") =>
    \A i \in 1 .. Len(call[c].items) :
      LET r == call[c].items[i][1]  patch == call[c].items[i][2]
          later == UNION {DOMAIN call[c].items[j][2] :
                            j \in {k \in i + 1 .. Len(call[c].items) : call[c].items[k][1] = r}}
      IN  row'[r] # Null => \A k \in DOMAIN patch \ later : row'[r].meta[k] = patch[k]

\* A metadata call that ends well has applied every item of its list to every
\* chunk still there, also when the list names a chunk twice: the last item that
\* names a field decides it.
BatchAppliesEveryItem == [][\A c \in Callers : ItemsApplied(c)]_vars

\* What a rebind must have written when c commits it.
ChildrenRebound(c) ==
  CommitOf(c, "kids") =>
    /\ row'[Doc] # Null /\ call[c].project # Null => row'[Doc].meta.project = call[c].project
    /\ \A r \in {x \in Chunks : row'[x] # Null} : \A k \in DOMAIN ChildUpdates(call[c]) :
         row'[r].meta[k] = ChildUpdates(call[c])[k]

\* A rebind that ends has given the document the project, and each of its chunks
\* the project and the caller's properties, whatever other calls did meanwhile.
RebindReachesChildren == [][\A c \in Callers : ChildrenRebound(c)]_vars

\* What a commit of c may change.
AskedChanges(c) ==
  CommitOf(c, "read") \/ CommitOf(c, "kids") =>
    \A r \in DOMAIN call[c].writes \ call[c].stale :
      \A k \in DOMAIN row[r].meta :
        row'[r].meta[k] # row[r].meta[k] =>
          \/ k \in DOMAIN ChildUpdates(call[c])
          \/ \E i \in 1 .. Len(call[c].items) :
               call[c].items[i][1] = r /\ k \in DOMAIN call[c].items[i][2]

\* A call changes no field it was not asked to change, unless it read the row
\* before another call's commit and wrote it after.
OnlyAskedFieldsChange == [][\A c \in Callers : AskedChanges(c)]_vars

\* document_delete removes only the version the token names.
DeleteRemovesNamedVersion ==
  [][\A c \in Callers : CommitOf(c, "delete") => call[c].token = version]_vars

\* Every call ends, also when calls lock chunks in opposite orders.
EveryCallEnds == \A c \in Callers : call[c].pc # "idle" ~> call[c].pc = "idle"

\* What holds of a document's metadata between and during calls.
MetadataInv == TypeOK /\ MetaMatchesColumns

\* What a metadata list or a rebind must have written when it ends: every item and
\* every child, and nothing else.
CallsWriteWhatWasAsked ==
  BatchAppliesEveryItem /\ RebindReachesChildren /\ OnlyAskedFieldsChange

-----------------------------------------------------------------------------
(* Statements of the documentation that the code does not keep.             *)

\* The code's word: "When existing chunk text changes through the persistence
\* boundary, stale machine-derived metadata is invalidated: ... tags, ... title, ...
\* and old category are cleared" (info.py:223-227).  The version commands change the
\* text and leave block_meta, its tags with it, and the category as they were.
TextChangeClearsMetadata ==
  [][\A c \in Callers, r \in Chunks :
       \/ ActivateVersion(c, r)
       \/ \E given \in Overwrites \cup {Null} : UpdateText(c, r, given)
       => /\ row'[r].column = Uncategorized /\ row'[r].tags = Null
          /\ row'[r].meta.tags = Null /\ row'[r].meta.title = Null]_vars

=============================================================================
