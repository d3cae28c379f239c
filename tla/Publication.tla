---------------------------- MODULE Publication ----------------------------
(***************************************************************************)
(* Concurrent publications of one document (ingestion/publication.py,      *)
(* publication_repository.py, runtime_boundary.py), statement by statement *)
(* under READ COMMITTED.                                                   *)
(*                                                                         *)
(* A generation is one hierarchy: a chapter, its paragraphs and chunks.    *)
(* It is named by the position of its processing run.  The variables hold  *)
(* committed rows only; what an open transaction has changed is in its tx  *)
(* record until it commits, and the rows it changed are locked until then. *)
(* An UPDATE works on the rows of its own snapshot: it waits for those     *)
(* that another transaction holds and then skips those that no longer      *)
(* satisfy its WHERE.                                                      *)
(*                                                                         *)
(* Deletes, undeletes and rebinds of the document are not part of this     *)
(* module, and needs_rechunk stays FALSE: only a rebind raises it.         *)
(***************************************************************************)
EXTENDS Naturals, Sequences, FiniteSets, FiniteSetsExt

CONSTANTS
    Publishers,     \* requests that may be in flight at once
    Versions,       \* source version ids
    Contents,       \* normalized source texts, told apart by checksum
    Uploads,        \* <<version, content>> pairs a client may send
    RechunkVersions,    \* version ids a rechunk may name
    Interleaved,    \* the paragraphs of more than one generation, mixed
    None,           \* no version, no content, no original
    RebuildModes,   \* bound: modes of a rebuild, "all" asks for no flag
    OrderWidth,     \* chapters.order_index is an integer below 2^OrderWidth
    MaxRuns         \* bound: processing runs explored

ASSUME PublicationAssumption ==
    /\ Uploads \subseteq Versions \X (Contents \ {Interleaved})
    /\ RechunkVersions \subseteq Versions
    /\ RebuildModes \subseteq {"flagged", "all"}
    /\ Interleaved \in Contents
    /\ None \notin Versions \union Contents
    /\ OrderWidth \in Nat /\ MaxRuns \in Nat
    /\ IsFiniteSet(Publishers)

VARIABLES
    rows,       \* per table, the generations whose rows are not deleted
    order,      \* order_index of the chapter of each published generation
    embedded,   \* generations whose chunks have embedding rows
    document,   \* documents row joined with its file
    originals,  \* primary_sources, by content
    runs,       \* processing_runs; a succeeded one has its source state
    tx,         \* the request each publisher is serving
    worker      \* the rebuild of the document: what it has read

vars == <<rows, order, embedded, document, originals, runs, tx, worker>>

Generations == 1..MaxRuns
Tables == {"chunks", "paragraphs", "chapters"}
Steps == {"idle", "chunking", "source", "ids", "embeddings", "chunks",
          "paragraphs", "chapters", "document", "verdict"}

Nothing == [t \in Tables |-> {}]
Idle == [at |-> "idle", version |-> None, content |-> None, rechunk |-> FALSE,
         original |-> None, seen |-> 0, ids |-> {}, waiting |-> FALSE,
         snapshot |-> {}, vectors |-> {}, cleared |-> Nothing, shift |-> 0]

IdleWorker == [at |-> "idle", read |-> {}]

Published == DOMAIN order
OrderLimit == 2 ^ OrderWidth - 1
MaxOrder == IF Published = {} THEN 0 ELSE Max({order[g] : g \in Published})

Init ==
    /\ rows = Nothing /\ order = << >> /\ embedded = {}
    /\ document = [version |-> None, content |-> None, original |-> None,
                   needs_revectorize |-> FALSE]
    /\ originals = {} /\ runs = <<>>
    /\ tx = [p \in Publishers |-> Idle]
    /\ worker = IdleWorker

-----------------------------------------------------------------------------
(* Locks and views                                                         *)

\* The hierarchy tables, in the order _mark_existing_hierarchy_deleted runs.
After(table) == CASE table = "chunks" -> "paragraphs"
                  [] table = "paragraphs" -> "chapters"
                  [] table = "chapters" -> "document"

\* Rows of a table that a transaction other than p's has updated.
Held(p, table) == UNION {tx[q].cleared[table] : q \in Publishers \ {p}}
HeldVectors(p) == UNION {tx[q].vectors : q \in Publishers \ {p}}

\* The file row is written, hence locked, from the document step to the end;
\* before it exists, INSERT .. ON CONFLICT waits for the other insert.
FileIsHeld(p) == \E q \in Publishers \ {p} : tx[q].at = "verdict"

\* The generations p's transaction reads as not deleted; 0 is its own.
Visible(p, table) == (rows[table] \ tx[p].cleared[table]) \union {0}
ComparedScope(p) == Visible(p, "chunks") \intersect Visible(p, "paragraphs")
                        \intersect Visible(p, "chapters")

-----------------------------------------------------------------------------
(* Before the transaction                                                  *)

\* An upload arrives: document_create or document_update.
Upload(p, upload) ==
    /\ tx[p].at = "idle"
    /\ tx' = [tx EXCEPT ![p].at = "chunking",
                        ![p].version = upload[1], ![p].content = upload[2]]
    /\ UNCHANGED <<rows, order, embedded, document, originals, runs, worker>>

\* Slip: the paragraphs are read without the deleted_at condition.
OldestStoredText == runs[Min(Published)].content

\* The text document_chunk works on: all paragraphs that are not deleted, in
\* the order of their indexes, so those of two generations are interleaved.
StoredText ==
    LET found == {runs[g].content : g \in rows["paragraphs"]}
    IN  IF Cardinality(rows["paragraphs"]) = 1 THEN CHOOSE c \in found : TRUE
        ELSE Interleaved

\* document_chunk reads the stored text and then awaits the chunker; the
\* caller may name a new version or keep the stored one.
Rechunk(p, version) ==
    /\ tx[p].at = "idle"
    /\ document.version # None
    /\ tx' = [tx EXCEPT ![p].at = "chunking", ![p].rechunk = TRUE,
                        ![p].version = version, ![p].content = StoredText,
                        ![p].seen = Len(runs)]
    /\ UNCHANGED <<rows, order, embedded, document, originals, runs, worker>>

\* Slip: a pending revectorization counts as an unknown version.
SameVersionIfQuiescent(t) ==
    /\ ~t.rechunk /\ ~document.needs_revectorize
    /\ document.version = t.version

\* What _replay_reference answers without publishing: the stored version, and
\* an upload with a filename whose checksum the quiescent file has.
SameVersion(t) == ~t.rechunk /\ document.version = t.version

SameChecksum(t) ==
    ~t.rechunk /\ ~document.needs_revectorize /\ document.content = t.content

Serving == {p \in Publishers : tx[p].at \notin {"idle", "chunking"}}
Room == Len(runs) + Cardinality(Serving) < MaxRuns

\* Slip: a replayed request is never answered.
ReplayUnanswered(p) ==
    tx[p].at = "chunking" /\ SameVersion(tx[p]) /\ UNCHANGED vars

\* The identity lookup, after the chunker has answered, finds the version.
Replay(p) ==
    /\ tx[p].at = "chunking"
    /\ SameVersion(tx[p]) \/ SameChecksum(tx[p])
    /\ tx' = [tx EXCEPT ![p] = Idle]
    /\ UNCHANGED <<rows, order, embedded, document, originals, runs, worker>>

\* It does not, or the request is a rechunk, or the upload has no filename to
\* compare checksums for: the publication begins.
Lookup(p) ==
    /\ tx[p].at = "chunking"
    /\ ~SameVersion(tx[p]) /\ Room
    /\ tx' = [tx EXCEPT ![p].at = "source",
                        ![p].seen = IF tx[p].rechunk THEN @ ELSE Len(runs)]
    /\ UNCHANGED <<rows, order, embedded, document, originals, runs, worker>>

\* Beyond the bound MaxRuns the request fails instead.
OutOfRoom(p) ==
    /\ tx[p].at = "chunking"
    /\ ~SameVersion(tx[p]) /\ ~Room
    /\ tx' = [tx EXCEPT ![p] = Idle]
    /\ UNCHANGED <<rows, order, embedded, document, originals, runs, worker>>

\* Slip: the original is named by the run but not stored.
ResolveWithoutInsert(p) ==
    /\ tx[p].at = "source"
    /\ tx' = [tx EXCEPT ![p].at = "ids", ![p].original = tx[p].content]
    /\ UNCHANGED <<rows, order, embedded, document, originals, runs, worker>>

\* _resolve_primary_source, in a transaction of its own.
ResolvePrimarySource(p) ==
    LET original == IF document.original # None THEN document.original
                    ELSE tx[p].content
    IN  /\ tx[p].at = "source"
        /\ originals' = originals \union {original}
        /\ tx' = [tx EXCEPT ![p].at = "ids", ![p].original = original]
        /\ UNCHANGED <<rows, order, embedded, document, runs, worker>>

-----------------------------------------------------------------------------
(* _mark_existing_hierarchy_deleted                                        *)

\* The chunk ids are read without a lock.
SelectChunkIds(p) ==
    /\ tx[p].at = "ids"
    /\ tx' = [tx EXCEPT ![p].at = IF rows["chunks"] = {} THEN "chunks"
                                  ELSE "embeddings",
                        ![p].ids = rows["chunks"]]
    /\ UNCHANGED <<rows, order, embedded, document, originals, runs, worker>>

\* Their embedding rows, where there are any, are deactivated.
DeactivateEmbeddings(p) ==
    /\ tx[p].at = "embeddings"
    /\ tx[p].ids \intersect embedded \intersect HeldVectors(p) = {}
    /\ tx' = [tx EXCEPT ![p].at = "chunks",
                        ![p].vectors = tx[p].ids \intersect embedded]
    /\ UNCHANGED <<rows, order, embedded, document, originals, runs, worker>>

\* UPDATE .. SET is_deleted, whose snapshot holds no row another one holds.
MarkDeleted(p) ==
    LET table == tx[p].at
    IN  /\ table \in Tables
        /\ ~tx[p].waiting
        /\ rows[table] \intersect Held(p, table) = {}
        /\ tx' = [tx EXCEPT ![p].at = After(table),
                            ![p].cleared[table] = rows[table]]
        /\ UNCHANGED <<rows, order, embedded, document, originals, runs, worker>>

\* The same statement starts, and has to wait.
WaitToMark(p) ==
    LET table == tx[p].at
    IN  /\ table \in Tables
        /\ ~tx[p].waiting
        /\ rows[table] \intersect Held(p, table) # {}
        /\ tx' = [tx EXCEPT ![p].waiting = TRUE, ![p].snapshot = rows[table]]
        /\ UNCHANGED <<rows, order, embedded, document, originals, runs, worker>>

\* The holder ended: rows of the snapshot that are still not deleted.
StillLive(p, table) == tx[p].snapshot \intersect rows[table]

MarkAfterWait(p) ==
    LET table == tx[p].at
    IN  /\ tx[p].waiting
        /\ tx[p].snapshot \intersect Held(p, table) = {}
        /\ tx' = [tx EXCEPT ![p].at = After(table), ![p].waiting = FALSE,
                            ![p].snapshot = {},
                            ![p].cleared[table] = StillLive(p, table)]
        /\ UNCHANGED <<rows, order, embedded, document, originals, runs, worker>>

-----------------------------------------------------------------------------
(* Writing the new generation                                              *)

DeletedChapters(p) ==
    (Published \ rows["chapters"]) \union tx[p].cleared["chapters"]

\* Slip: one less, so that the first deleted chapter does not move.
ShiftByMax == MaxOrder

\* Deleted chapters move behind every chapter of the document.
Shift == MaxOrder + 1

ShiftFits(p) == \A g \in DeletedChapters(p) : order[g] + Shift <= OrderLimit

\* Slip: chapters may share an index.
IndexNotUnique(p) == TRUE

\* uq_chapters_document_order: index 0 must be free for the new chapter.
IndexFree(p) ==
    /\ \A g \in Published \ DeletedChapters(p) : order[g] # 0
    /\ \A g \in DeletedChapters(p) : order[g] + Shift # 0

\* Shift, retire the files, write file, document, chapter, paragraphs, chunks.
WriteHierarchy(p) ==
    /\ tx[p].at = "document"
    /\ ~FileIsHeld(p)
    /\ ShiftFits(p) /\ IndexFree(p)
    /\ tx' = [tx EXCEPT ![p].at = "verdict", ![p].shift = Shift]
    /\ UNCHANGED <<rows, order, embedded, document, originals, runs, worker>>

\* The rows collide or the index overflows: the transaction is rolled back.
WriteRefusedByDatabase(p) ==
    /\ tx[p].at = "document"
    /\ ~FileIsHeld(p)
    /\ ~(ShiftFits(p) /\ IndexFree(p))
    /\ tx' = [tx EXCEPT ![p] = Idle]
    /\ UNCHANGED <<rows, order, embedded, document, originals, runs, worker>>

Run(t, outcome) == [version |-> t.version, content |-> t.content,
                    original |-> t.original, outcome |-> outcome]

\* The measured scope matches: the hierarchy, its run and its source state
\* are committed.  The answer may be lost on its way to the client.
Commit(p) ==
    LET new == Len(runs) + 1
        shifted == DeletedChapters(p)
    IN  /\ tx[p].at = "verdict"
        /\ ComparedScope(p) = {0}
        /\ rows' = [t \in Tables |-> (rows[t] \ tx[p].cleared[t]) \union {new}]
        /\ order' = [g \in Published \union {new} |->
                        IF g = new THEN 0
                        ELSE IF g \in shifted THEN order[g] + tx[p].shift
                        ELSE order[g]]
        /\ document' = [version |-> tx[p].version, content |-> tx[p].content,
                        original |-> IF document.original = None
                                     THEN tx[p].original ELSE document.original,
                        needs_revectorize |-> TRUE]
        /\ runs' = Append(runs, Run(tx[p], "succeeded"))
        /\ tx' = [tx EXCEPT ![p] = Idle]
        /\ UNCHANGED <<embedded, originals, worker>>

\* Slip: the deletions are made before the savepoint and survive the refusal.
RefuseKeepingDeletions(p) ==
    /\ tx[p].at = "verdict"
    /\ rows' = [t \in Tables |-> rows[t] \ tx[p].cleared[t]]
    /\ runs' = Append(runs, [version |-> tx[p].version,
                             content |-> tx[p].content,
                             original |-> tx[p].original,
                             outcome |-> "failed"])
    /\ tx' = [tx EXCEPT ![p] = Idle]
    /\ UNCHANGED <<order, embedded, document, originals, worker>>

\* It does not match: the savepoint is rolled back and only the failed run is
\* committed, by the same transaction.
Refuse(p) ==
    /\ tx[p].at = "verdict"
    /\ runs' = Append(runs, Run(tx[p], "failed"))
    /\ tx' = [tx EXCEPT ![p] = Idle]
    /\ UNCHANGED <<rows, order, embedded, document, originals, worker>>

\* The chunker, a statement or the process fails, or PostgreSQL picks this
\* transaction as a deadlock victim: nothing of the open transaction stays.
Fail(p) ==
    /\ tx[p].at # "idle"
    /\ tx' = [tx EXCEPT ![p] = Idle]
    /\ UNCHANGED <<rows, order, embedded, document, originals, runs, worker>>

-----------------------------------------------------------------------------
(* The vectorization worker: three transactions and an await without locks, *)
(* whatever is published meanwhile (its batches are in Vectorization).      *)

\* The document is selected and its chunks that are not deleted are read; then the
\* embedding service is awaited.
ReadChunks ==
    /\ worker.at = "idle"
    /\ document.version # None
    /\ "all" \in RebuildModes \/ document.needs_revectorize
    /\ worker' = [at |-> "embedding", read |-> rows["chunks"]]
    /\ UNCHANGED <<rows, order, embedded, document, originals, runs, tx>>

\* The service fails, or the worker's process dies.
EmbeddingFails ==
    /\ worker.at = "embedding"
    /\ worker' = IdleWorker
    /\ UNCHANGED <<rows, order, embedded, document, originals, runs, tx>>

\* Vectors are stored for what was read and the flags are lowered for what the
\* document is now.  The rows written must be free, and the document's are taken
\* together with the file's (WriteHierarchy).
Persist ==
    /\ worker.at = "embedding"
    /\ \A p \in Publishers :
        tx[p].at # "verdict" /\ worker.read \intersect tx[p].vectors = {}
    /\ embedded' = embedded \union worker.read
    /\ document' = [document EXCEPT !.needs_revectorize = FALSE]
    /\ worker' = IdleWorker
    /\ UNCHANGED <<rows, order, originals, runs, tx>>

Rebuild == ReadChunks \/ EmbeddingFails \/ Persist

Serve(p) ==
    \/ Replay(p) \/ Lookup(p) \/ OutOfRoom(p)
    \/ ResolvePrimarySource(p) \/ SelectChunkIds(p)
    \/ DeactivateEmbeddings(p) \/ MarkDeleted(p) \/ WaitToMark(p)
    \/ MarkAfterWait(p) \/ WriteHierarchy(p) \/ WriteRefusedByDatabase(p)
    \/ Commit(p) \/ Refuse(p)

Next ==
    \/ \E p \in Publishers :
        \/ \E upload \in Uploads : Upload(p, upload)
        \/ \E version \in RechunkVersions : Rechunk(p, version)
        \/ Serve(p)
        \/ Fail(p)
    \/ Rebuild

Spec == Init /\ [][Next]_vars

\* The event loop resumes a request whose answer arrived, and PostgreSQL hands
\* a lock to its waiters in turn, so that a waiter is not passed over for ever
\* by requests that came later (SF).  Nothing makes clients or errors appear.
FairSpec == Spec /\ \A p \in Publishers : SF_vars(Serve(p))

-----------------------------------------------------------------------------
(* Properties                                                              *)

TypeOK ==
    /\ rows \in [Tables -> SUBSET Generations]
    /\ Published \subseteq Generations /\ order \in [Published -> 0..OrderLimit]
    /\ (UNION {rows[t] : t \in Tables}) \union embedded \subseteq Published
    /\ worker \in [at : {"idle", "embedding"}, read : SUBSET Published]
    /\ document \in [version : Versions \union {None},
                     content : Contents \union {None},
                     original : Contents \union {None},
                     needs_revectorize : BOOLEAN]
    /\ originals \subseteq Contents
    /\ \A i \in DOMAIN runs :
        /\ runs[i] \in [version : Versions, content : Contents,
                        original : originals, outcome : {"succeeded", "failed"}]
        /\ runs[i].outcome = "succeeded" <=> i \in Published
    /\ \A p \in Publishers :
        /\ tx[p].at \in Steps
        /\ tx[p].cleared \in [Tables -> SUBSET Published]
        /\ tx[p].at = "idle" => tx[p] = Idle

\* Reading the document back gives one whole generation at all times: two
\* publishers that overlap in any way, refusals and failures never show a
\* reader of _reconstructed_scope_text a mixture, nothing, or an older
\* generation after a newer one, and leave a run for every ending.
Abstract == INSTANCE AtomicPublication WITH
    scope <- rows["chunks"] \intersect rows["paragraphs"]
                \intersect rows["chapters"],
    evidence <- [i \in DOMAIN runs |-> runs[i].outcome]

ImplementsAtomic == Abstract!Spec

\* The scope the verdict is measured on holds the publication's own rows and
\* no others: what another publisher commits meanwhile cannot turn a faithful
\* hierarchy into a refused one (_reconstructed_scope_text).
ComparedScopeIsOwn ==
    \A p \in Publishers : tx[p].at = "verdict" => ComparedScope(p) = {0}

\* The shifted chapter indexes of _mark_existing_hierarchy_deleted neither
\* collide with the new chapter nor leave the column's range, for as many
\* publications as the index has bits and one more; only a publication that
\* another one overtook can be refused by the index before that.
Undisturbed(p) == tx[p].seen = Len(runs)

UndisturbedPublicationFits ==
    \A p \in Publishers :
        /\ tx[p].at = "document" /\ Undisturbed(p)
        /\ Cardinality(Published) <= OrderWidth
        => ShiftFits(p) /\ IndexFree(p)

\* A client that repeats an upload because the answer was lost, or because a
\* revectorization is still pending, does not get a second generation of the
\* same version: publishing one again takes a rechunk, another version in
\* between, or a request that overlapped the first.
LastPublished == runs[Max(Published)]

RetryIsReplayed ==
    [][\A p \in Publishers :
        /\ Commit(p) /\ Undisturbed(p) /\ ~tx[p].rechunk /\ Published # {}
        => LastPublished.version # tx[p].version]_vars

\* "A partially built document version must never become visible": a chunk
\* that search finds belongs to a paragraph and a chapter that are not
\* deleted, that is to the one generation a reader reconstructs.
NoPartialVersion ==
    rows["chunks"] \subseteq rows["paragraphs"] \intersect rows["chapters"]

\* document_chunk keeps the document's text, unless another publication ended
\* while it awaited the chunker, or an earlier overlap left paragraphs of two
\* generations (NoPartialVersion).
RechunkKeepsText ==
    [][\A p \in Publishers :
        /\ Commit(p) /\ Undisturbed(p) /\ tx[p].rechunk /\ NoPartialVersion
        => document'.content = document.content]_vars

\* Every request is answered: publishers that wait for each other's rows
\* never wait in a circle, and no ending keeps its locks.
PublicationEnds ==
    \A p \in Publishers : tx[p].at # "idle" ~> tx[p].at = "idle"

\* What holds of every publication while it runs.
PublicationInv == TypeOK /\ ComparedScopeIsOwn /\ UndisturbedPublicationFits

=============================================================================
