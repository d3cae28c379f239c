# Verification of the document store

TLA+ models of the parts of `doc_store_server` whose correctness depends on
histories, interleavings and failures; TLC runs on small instances; and TLAPS
proofs of what holds for every instance. Paths are relative to the repository;
`server/` abbreviates `src/doc_store_server/`.

## 1. The system

The server stores documents as *file → document → chapter → paragraph →
semantic chunk* in PostgreSQL, versions the text of chunks, embeds it with an
external service, and answers searches and as-of queries. It keeps no state of
its own that matters after a restart: every service method opens an engine,
runs one transaction (READ COMMITTED) and closes it. The main process and its
queue workers (`--queue-max-concurrent-jobs`, default 5) call the same methods
at the same time, the synchronous parts in threads, so what can go wrong is
decided by which rows are locked, which snapshot a statement reads, and what is
held in local variables across an `await`.

| component | state | operations | talks to | what makes it correct | status |
|---|---|---|---|---|---|
| Chunk text versions (`runtime/chunk_versions.py`, text update of `runtime/entity_lifecycle.py`, `runtime/semantic_chunk_metadata.py`) | version rows, the current pointer, the active text, classifier/tag/token rows, vectors, revectorize flags | append, restore, set_current, retire, delete, entity_update, classify, tag, conditional writes | embeds later through the flags | one number per version; pointer, `is_current` and projection agree; derived rows are of the selected version; history is append-only | modelled |
| Vectorization worker (`runtime/vectorization.py`) | vectors, flags, the locals of a job; activity log and status snapshot | select a batch, read texts, await the service, persist, report | chunk versions; embedding service; health | a served vector is one of the selected text; what has no vector is flagged; jobs end; health follows the worker | modelled |
| Publication (`ingestion/publication*.py`) | hierarchy rows, chapter indexes, file and document rows | upload, rechunk, replay, publish, refuse | chunker; provenance; assertions | a reader sees one whole generation; evidence for every ending; retries are replayed; everyone ends | modelled |
| Ingestion runtime (`ingestion/runtime_boundary.py`) | the locals of a request | compare, rechunk, record the run | all of the above | see publication, provenance, round trip, operations | partly |
| Source provenance (migrations 0018 to 0021, `db/migrations.py`) | primary sources, runs, spans, source states | backfill, resolve, accept, refuse, deletes with their cascades | publication | the chain file, original, run, state is whole and does not fork; deletes are not refused | partly |
| Source round trip (`ingestion/svo_chunking.py`, `runtime/exact_reconstruction.py`, `runtime/text_reconstruction.py`, `ingestion/integrity_diagnostics.py`) | ranges, pieces, assembled pages | locate, place, derive pieces, assemble, compare | chunker | accepted chunks locate their text and restore the source; range maps and diagnostics point where they say | modelled |
| Operations (`InMemoryRuntimeStatus`, `commands/ingestion_commands.py`, `commands/processing_status_command.py`, `scripts/import_docs.py`) | a registry per process, jobs, the script's counters | record, report, upload, poll, rebind | publication; client | no success is reported that did not happen; reported files are stored; the script ends | modelled / script and client partly |
| Temporal assertions (`runtime/temporal_assertions.py`, as-of reads of `commands/retrieval_commands.py`) | append-only assertions of an object | create, supersede, close, replace an interval, delete, restore, source state | publication appends source states | accepted intervals are disjoint; as-of answers are unique; settled past does not change | modelled |
| Entity lifecycle (`runtime/entity_lifecycle.py`) | deletion marks of whole closures, owners | create, update, soft delete, undelete, hard delete, rebind owner, list, owner tree | every table | a mark reaches all that is below; a hard delete leaves no reference it checks; lists and trees are complete; calls end | modelled |
| Metadata, delete and rebind (`runtime/semantic_chunk_metadata.py`, `runtime/document_rebind.py`, `runtime/document_service.py`) | `block_meta`, classifier and tag rows, source version | batches, rebind, two-phase delete | publication; entity_update | a batch applies every item; metadata and columns agree; a rebind reaches the children | modelled |
| Search (`query/compiler.py`, `semantic.py`, `full_text.py`, `runtime_boundary.py`) | the window of a hierarchical search | pages, hierarchical search, embedding of the query | vectors, owners, versions; embedding service | the window holds the best that was offered; pages show each match once; calls end | modelled |
| Relations, audit, export, metrics | none | read-only | all tables | | not modelled |
| Commands, start-up, configuration, client, packaging | none after start | argument handling | | | partly / not modelled |

Hard behaviours, in the order of how much they decide: overlapping statements
of two transactions; values read before an `await` and written after it;
numbers and indexes computed as `MAX + 1` over rows that may be deleted or
doubled; foreign keys that cascade underneath a handler; conditional writes
compared by number; a refusal that must undo one half of a transaction and keep
the other; loops whose exit depends on flags others raise; transaction time
that is fixed before the lock is; closures, metadata and search windows put together from
many snapshots; calls that are given up while their job goes on; and triggers
that meet the foreign keys of later migrations. `PROJECT.json` ("hazards") lists the main ones at their
lines, with the properties that watch them.

## 2. Modules

| module | models | atomic step |
|---|---|---|
| `ChunkVersions` | every writer of a chunk's versions | one operation: each locks the chunk's row first and is one transaction |
| `Vectorization` | `RuntimeVectorizationService.rebuild`, EXTENDS `ChunkVersions` and runs beside all its operations, publications, soft deletes and undeletes | select, read, await, persist; one operation, publication or delete |
| `Publication` | concurrent publications of one document | one SQL statement of the marking phase; the insertions as one step |
| `AtomicPublication` | what publication promises a reader | publish or refuse |
| `VectorizerActivity` | what health reports of the worker, EXTENDS `Vectorization` | as there, with the log lines and the snapshot each step leaves |
| `TemporalAssertions` | every writer of assertions, and as-of resolution | begin, check before the lock, everything under the lock |
| `Provenance` | evidence rows, triggers and foreign keys, the migrations that introduce them | one migration run, one resolve, one commit, one delete |
| `SourceRoundTrip` | from the chunker's answer to the text a caller reads back | one validated chunk, one publication, one edit |
| `Operations` | jobs, status registries and the import script | one record, commit or reply; one call of the script |
| `EntityLifecycle` | closure marks and deletes, owners, lists and trees | one SQL statement |
| `DocumentMetadata` | metadata batches, rebinds, deletes, beside entity_update and the version commands | one SQL statement; one call of the last two |
| `Search` | every search mode beside writers | one SQL statement |
| `MC...` | values of the constants for TLC | |
| `ChunkProofs` | theorems about `ChunkVersions`, `Vectorization` and `VectorizerActivity` | |
| `PublicationProofs` | theorems about `Publication` and, in its second part, `SourceRoundTrip` | |
| `EntityLifecycleProofs`, `ProvenanceProofs`, `TemporalProofs`, `OperationsProofs`, `DocumentMetadataProofs`, `SearchProofs` | theorems about the module named | |

**ChunkVersions.** `versions[c][i]` is the row with the i-th id given out for
chunk c, so the order of ids is the order of insertion; `issued` counts them, and
a hard-deleted row is absent again. References hold an id, `Null`, or `NoRow`
for no referencing row. `Activate` is `_activate` with its retirement of the
previous row, the projection, the classifier rows and `_invalidate_derived_rows`.
`DeleteVersion` performs what `ON DELETE CASCADE` and `SET NULL` do before the
handler looks again. `EntityUpdate` is the other writer: it selects through the
pointer, appends without invalidating aggregates or flags, and compares with a
text its locking SELECT may have read from an older snapshot (`ReadableTexts`).
`seen` holds what a caller of conditional writes read. The initial states are
those publication leaves (NULL version ids on child rows) and those migration 0017
left (version 1).

**Vectorization.** `job[w]` holds the locals of a rebuild: mode, limit, page key,
batch, and the inputs read before the service is awaited. `Persist` writes all
vectors, tokens, aggregates and flags in one transaction; `PersistRefused` is the
foreign key to a version deleted meanwhile; `EmbedFails` the service failing.
The rows of a document change beside a job: `Publish` hides its chunks, withdraws their vectors and
inserts those that `published` lacks (`newFile` when the text is another, hence the File), deletes
and undeletes hide and revive chunks. `late` and `unmarked` are histories: what came to life while a
worker held what it had read, and which live chunks lack a vector with no flag for it.

**Publication.** Variables hold committed rows. The `tx` record of a publisher
holds its locals and what its open transaction has changed, which is also what it has
locked. An UPDATE takes its snapshot when it starts (`MarkDeleted`, `WaitToMark`),
waits for rows another transaction holds, and then drops rows that no longer
match (`MarkAfterWait`, `StillLive`). `WriteHierarchy` merges shifting the chapter
indexes, retiring files and all inserts: from the file row on, at most one
transaction can be there. A generation is named by the position of its run.
`Fail` is any error or crash at any point, also an answer lost before the
commit; an answer lost after it is the client sending the same upload again.
`worker` is the rebuild of the document: `ReadChunks`, the await, and `EmbeddingFails` or `Persist`,
with publications committing between any two of them.

**TemporalAssertions.** An object's history is a sequence by `revision_no`; a
transaction carries `now()` from its start, and corrections carry the prior they
checked before the lock. `Open` is a NULL `effective_until`.

A `Setting` of the instance says whether callers overlap or take turns (`Serial`). `Visible` is
`resolve_visible_versions` of one object: rows of every family, each at its newest known state.

**VectorizerActivity.** `event` is the last line of the activity log, `status` the state in
the snapshot file; `Health` is what the main process makes of both and of the stored vectors.
`outcome` is a history of how the last batch ended.

**Provenance.** `revision` is the position in `alembic_version`; a release installs the
revisions up to one of `Installed`, so the backfill meets every state an earlier release
left. A primary source is named by its file and content. `RunTrigger` is the trigger of 0021,
`ReleasePermitted` what it lets `ON DELETE SET NULL` do to terminal runs.

**SourceRoundTrip.** A text is a sequence of characters, so that ranges, pieces, separators
and limits are computed and not assumed. `Claims` are the answers the chunker may give for a
source: cleaned or raw text, a right, wrong or missing range. `Joined` is the loop of `_assemble`,
`Locates` of the proofs what it keeps. An edit may write an empty text, as the commands allow. One
document with one chapter.

**Operations.** `jobs` keeps every call with the step its handler has reached and the answer
its caller was given; `items` and `current` are the registries of the main process and the
worker. `Crash` empties the registry of the process that runs jobs. A file of the script has a
document, made from its bare name, and a version and text, made from its bytes, so files of one name in two
directories meet at one document. `Replayed` answers an upload from what is stored: the version is the same,
or, when the request names a file, a checksum is. `committed`, `overtaken` and `replaced` are histories: every publication, the
successes after which something else was published, and the documents published again after
they were bound.

**EntityLifecycle.** `call[c]` holds the locals of a transaction: the closure collected so
far, the SELECTs left to make, what is left to write, the rows it has locked and the links it has cut.
`ReadChildren` is one SELECT of the closure and `CheckReferences` one of `references_to`, each with a
snapshot of its own, in the order of the code; a check reads to its end before it refuses.
A hard delete writes the links first (`LinkTable`), so that a link made afterwards stays (`LinksAfter`), then the tables from
the leaves to the roots; a dictionary row that a chunk uses stops it (`Users`, NO ACTION). `ChooseTable` leaves the order
of a mark's tables open, as the iteration of a Python set does. A publication gives its chapter and
paragraphs new UUIDs and stores the chunks under those the chunker made, so no link names them
yet. `WaitsFor` and `AbortDeadlocked` are the lock waits. `since` is a history of the edges that
were there ever since the caller began to look: from its first statement for a mark, from the first
SELECT of its check for a delete.

**DocumentMetadata.** `call[c]` holds the merged `block_meta` between SELECT and UPDATE of a batch or a rebind.
entity_update and the activation of a version write under the lock of the row and are one step each:
`UpdateMeta` overwrites `block_meta` alone, `UpdateText` resets what described the old text, `ActivateVersion` deletes
the tag rows and leaves `block_meta`. `adrift` is a history of the pairs of chunk and field whose `block_meta`
and columns or tag rows a call wrote apart, or from a stale read.

**Search.** `search` holds the window, the candidates left and the candidate at hand of one
call; writers change vectors, versions, owners and marks between its statements. Scores are constants
by entity and version.

## 3. Runs

| run | instance | shows |
|---|---|---|
| `ChunkVersions` | one chunk, two texts, two conditional writers, 4 rows ever inserted | all writers together keep numbering, selection, projection, derived rows and history; a conditional write that passes saw the selected version or a deleted one |
| `VectorSafety` | one worker, one document of two chunks (each published from the start or later), one of them edited, two texts, 2 rows a chunk ever inserted, publications, deletes, undeletes, failures and killed workers | a vector is never served for another text; a live chunk without one is flagged, but for what came to life during the await or raises no flag; health follows the worker |
| `VectorLiveness` | two documents (one without chunks, the other published at the start or later), one text, two rows ever inserted, batches of one | paged, limited and single-document jobs end |
| `Publication` | two publishers, one rebuild, two versions, three runs, a 2-bit chapter index | publication implements `AtomicPublication`; the compared scope is never polluted; indexes fit; retries are replayed; rechunks keep the text; every request ends |
| `Temporal` | two overlapping callers, and one caller at a time, three revisions | accepted assertions are disjoint although the prior is checked before the lock; settled known times do not change; as-of answers are unique in each family, but between the starts of two transactions that committed in the other order; splits cover exactly the original; one at a time, only accepted assertions are superseded |
| `EntityLifecycle` | five rows, two callers (one only marks and deletes, the other does all but mark), one edit by others | marks reach all below; deletes leave no checked reference; lists and trees are complete; calls end |
| `DocumentMetadata` | two chunks, two callers with one and two calls, three batches, two rebinds, one `block_meta` for entity_update | batches apply every item and nothing else; metadata and columns agree; rebinds reach the children; calls end |
| `Provenance` | two documents (one published before the upgrade), two contents, two publishers, three runs | files have their own original; the evidence chain is whole and has one current state; deletes are not refused; terminal runs are history |
| `SourceRoundTrip` | sources of three characters with repeats and blanks, two paragraphs of two sentences, two edits (to a word or to no text), limits 0, 1 and 3 | accepted chunks restore the source; reads, range maps and diagnostics agree with it |
| `Operations` | two documents, three files (two of one name), one failure or crash, and either a second start of the script or one other caller | reported successes are committed; "running" is running; reported files are stored and bound; the script ends |
| `Search` | two files, two documents, two paragraphs, three chunks with two versions each, nine queries, two writes | the window is the best offered and nothing better is left out; documents are refined; pages show each match once; calls end |
| `PartialVersion` (violation) | two publishers | chunks of an overtaken publication stay searchable under a deleted chapter |

The violation run checks a sentence of the repository's own documentation
(quoted in "findings") against what the code does.

**Bounds.** *ChunkVersions*: operations on different chunks touch common rows
only through flags and aggregates, so one chunk suffices for the per-chunk
properties (the proofs cover any number); four rows are the original, the
version a writer read, one that replaces it and one inserted after a delete, with
which every property has been seen to fail when the code is changed. *Vectorization*: two rows give one change or one deletion of
a version during an await; two chunks are one that a batch holds and one that is published or revived beside it (`Edited`: what
is done to the text of the second is the same again); two documents are the least that fill two pages. The runs start from published chunks that
no migration has labelled (`Migrated`, `Labelled`: `ChunkVersions` has both), `VectorSafety` lets the service answer with tokens and `VectorLiveness` without
(`Answers`), which no property there tells apart. *Publication*: three runs
are two overlapping publications plus a predecessor or a successor, two publishers
because every conflict is between a holder and a waiter; a rechunk names one version
(`RechunkVersions`), which is the stored one or a new one depending on what was published. The rebuild selects
flagged documents (`RebuildModes`), which is whenever there is something new to embed.
With a 2-bit index the third
publication uses the largest index, as the 32nd does in the real column.
`OutOfRoom` answers requests beyond `MaxRuns`. *Temporal*: the
effective axis has two instants and the open end with two callers, three with
one at a time, so that a window can leave a piece on either side; an original and the three
pieces of its split are four rows, which only the theorem `CorrectionsExact` covers. *EntityLifecycle*: the five rows are a project owning a document, two chunks of it, the second
published from the start or meanwhile, and the dictionary row that chunk uses, so a closure is
three levels deep and every kind of edge (owner, foreign key, membership, link, dictionary) is there; one edit between two statements is what a
snapshot can miss, two callers are what a deadlock needs; of two marks side by side, which differ from a mark
beside a delete in their order of tables only, the theorems speak. *DocumentMetadata*: two chunks in opposite
orders, and a batch that names one twice; a publication derives one value of tags (`SourceTags`), a caller writes another. *Provenance*: two documents can share a
content; three runs are a predecessor and two that overlap. *SourceRoundTrip*: `aBa`, the letter a
twice around a blank, is the least text with a repeat that a search can mistake, a leading blank
the least with a gap; two
sentences in each of two paragraphs have a separator of either kind. *Operations*: the second start of the script is
the retry of everything the first left behind; two of the three files have one name, so that the third overwrites the first;
what others upload (`Uploads`) has the version of one file with the text of another. *Search*: two documents of one file and a second file that either may be
linked to; candidate limits of two and of nine (all there is), windows of one, two and six for
five or fewer matches a query; two writes change what was read and what will be read.

**Fairness.** A worker's steps are weakly fair: a queue worker keeps running its job, and the
embedding client has a timeout, so it answers or fails. Publishers are strongly
fair in serving: PostgreSQL hands a row lock to its waiters in turn, so a waiter is not
passed over for ever by later requests. The steps of a lifecycle, metadata or search call
are weakly fair: a thread runs on, a lock is released by a holder that runs on, and a deadlock is
resolved by the database. Of the script only its own steps are fair, its poll loop having a
deadline; the server owes it nothing. No client call, flag, write, failure, crash, delete or
tick is fair. Runs with safety only assume no fairness.

Deadlock is checked in the runs of `ChunkVersions`, `Vectorization`, `Publication` and
`TemporalAssertions`, where some operation is always possible. It is not in the others:
their calls, edits and runs are budgeted, and the system rests when the budget is spent;
that no call is left waiting there is what `EveryCallEnds` and `ScriptEnds` say.

## 4. What the properties say

The comment above each property names the behaviour it is about. Invariants that speak
of the same rows are checked as one conjunction of named parts, in the module that
defines them:

| checked | is |
|---|---|
| `Publication!PublicationInv` | `TypeOK`, `ComparedScopeIsOwn`, `UndisturbedPublicationFits` |
| `TemporalAssertions!AsOfInv` | `TypeOK`, `AsOfUnambiguous` |
| `TemporalAssertions!CorrectionsAreExact` | `SupersedesAccepted`, `SplitKeepsTheRest` |
| `Vectorization!JobsEnd` | `AllDocumentsJobEnds`, `LimitedJobEnds`, `DocumentJobEnds` |
| `VectorizerActivity!HealthInv` | `ActivityTypeOK`, `HealthFollowsTheWorker` |
| `Provenance!OriginalsInv` | `TypeOK`, `FilesHaveTheirOwnOriginal`, `StatesCiteTheFilesOriginal`, `OneCurrentState` |
| `Provenance!DeletesReleaseHistory` | `DeletesAreNotRefused` always, `TerminalRunsAreHistory` |
| `SourceRoundTrip!AcceptedInv` | `RoundTripTypeOK`, `RangesLocateTheirText`, `PiecesTileTheSource` |
| `SourceRoundTrip!ReadsInv` | `ComparisonReadsWhatCallersGet`, `RangeMapLocatesChunks`, `DiagnosticPointsAtTheDifference` |
| `Operations!StatusInv` | `TypeOK`, `SuccessIsCommitted`, `RunningIsRunning` |
| `EntityLifecycle!LifecycleInv` | `TypeOK`, `UntruncatedTreeIsComplete`, `PagesShowEachRowOnce` |
| `DocumentMetadata!MetadataInv` | `TypeOK`, `MetaMatchesColumns` |
| `DocumentMetadata!CallsWriteWhatWasAsked` | `BatchAppliesEveryItem`, `RebindReachesChildren`, `OnlyAskedFieldsChange` |
| `Search!WindowInv` | `TypeOK`, `WindowIsBestOffered` |
| `Search!AnswersAreComplete` | `NothingBetterIsLeftOut`, `DocumentsAreRefined`, `PagesShowEachMatchOnce` |

The ones that carry most:

- `LockDetectsIntervening` is the true core of optimistic locking here;
  `OptimisticLockExact` is what the command promises and what number reuse breaks.
- `SearchServesCurrentText` holds because a vector carries the version read
  *together with* its text; tagging it at persist time would break it.
- `ImplementsAtomic` holds because chapter, paragraph and chunk must all be live for
  a reader of `_reconstructed_scope_text`; `NoPartialVersion`, which search would need, does not hold.
- `RechunkKeepsText` needs `NoPartialVersion` before the rechunk: after an overlap
  the paragraphs of two generations may be live, and the rechunk publishes their mixture.
- `UndisturbedPublicationFits`: moving deleted chapters behind `MAX(order_index)` doubles the
  largest index each time, so a w-bit index holds w + 1 publications: 32 for the
  `Integer` column. The 33rd and every later publication of a document fails.
- `AcceptedDisjoint` survives the check-before-lock of `supersede_assertion`, since the second
  correction would overlap the first one's row unless its interval is disjoint; what it then does
  is fork the history. `SupersedesAccepted` is therefore stated
  for callers that take turns; with two at once TLC finds the fork (`runtime/temporal_assertions.py:264`).
- `AsOfUnambiguous` is stated for any callers and for what the readers do, which is to take the rows of an
  object whatever their family. Two are visible together if they are of two families (`OneVersionVisible` fails) or if the known time
  lies between the starts of two transactions that committed in the other order (`OrdersAgree` fails).
- `MissingVectorsAreFlagged`: a rebuild lowers the flag of a document whatever was published into it or revived
  during the await, and undelete and entity_update raise none. Everything else that has no vector is flagged.
- `DeleteLeavesNoCheckedReference` knows two kinds of reference. Foreign keys cannot survive their target, whenever the row came. Owners,
  projects and links are found by the SELECTs of `references_to` alone: one that was there from the first of
  them refuses the delete, one written later may survive (`NoReferenceSurvives` fails).
- `MetaMatchesColumns` is stated field by field. It excepts the pairs that `adrift` records: merges from a stale read,
  fields a rebind or entity_update writes to `block_meta` alone, and the tags of a chunk whose version was activated since.
- `MarkReachesAllBelow`: whatever was below a marked row from the first to the last statement of the call
  is marked, although the closure is a union of snapshots; what moved meanwhile may escape.
- `StatesCiteTheFilesOriginal` excepts publications that overlapped the first one of their file:
  each commits an original, and the file keeps one (`ingestion/runtime_boundary.py:875`).
- `RechunkKeepsCoveredText`: a rechunk keeps what paragraphs cover; text between them is lost.
- `RangeMapLocatesChunks` lets `truncated` be set on a whole text in one case: the limit ends the text
  right before a chunk that an edit has emptied (`runtime/text_reconstruction.py:272` looks at the limit first).
- `SuccessIsCommitted` and `RunningIsRunning` are what the status protocol is worth: a status may be
  lost or late, but no success is invented, and "running" outlives its job only after
  an exception outside the handler's try. An operation may be "idempotent" that never committed itself: a replay by checksum
  answers for another version of the same content, so what is committed is its version or its text (`Held`).
- `ReportedIsStored` excepts a file whose document was published with something else *after* the success the script was given,
  by another caller or by the script itself for a file of the same name (`EveryFileIsImported` fails).
- `NothingBetterIsLeftOut` depends on the `continue` at `query/runtime_boundary.py:214`, which does nothing:
  a `break` in its place would drop later candidates whose children score higher.

Every property of a passing run, and every part of a conjunction other than `ActivityTypeOK`, is
broken by at least one small change of a mapped definition that a plausible slip in the code
would make; the changed forms stand before the definitions they change ("Mutant of", "Slip").

**Statements of the documentation the code does not keep.** Each is defined beside the properties
of its module and is in no run but the first; given to the configuration of that module's run,
TLC finds it violated:

| statement | says | because |
|---|---|---|
| `Publication!NoPartialVersion` | "A partially built document version must never become visible" (README.md:19) | each UPDATE of the previous hierarchy has its own snapshot |
| `ChunkVersions!ChunkAlwaysSelectsAVersion` | deleting the current row promotes the highest remaining (`commands/info.py:283`) | the foreign key cascades before the handler looks for the pointer |
| `ChunkVersions!OptimisticLockExact` | refused when the expected version no longer matches (`commands/chunk_version_commands.py:151`) | numbers are given out again after a hard delete |
| `Vectorization!ChunkedStaysFlagged` | chunking sets the flags, and successful batches clear them (`commands/vectorization_command.py:112`) | a publication may commit during the await of a batch that then clears them |
| `Vectorization!ClearedMeansEmbedded` | flags are cleared after successful batches (`commands/vectorization_command.py:113`) | also when the text changed during the await |
| `Vectorization!DryRunReports` | a dry run only reports (`commands/vectorization_command.py:57`) | without a limit it selects the same flagged documents for ever (a temporal statement, under `FairVectorSpec`) |
| `DocumentMetadata!DeleteRemovesNamedVersion` | a stale token is rejected (`commands/document_delete_command.py:71`) | the token is compared with a SELECT that locks nothing |
| `DocumentMetadata!TextChangeClearsMetadata` | "When existing chunk text changes ... stale machine-derived metadata is invalidated" (`commands/info.py:223`) | the version commands delete tag rows only |
| `EntityLifecycle!NoReferenceSurvives` | a delete that "would leave references outside the delete set" is refused (`runtime/entity_lifecycle.py:153`) | an owner or a link may be written after the SELECT that looks for it |
| `TemporalAssertions!OneVersionVisible` | "at most one TemporalAssertion version is visible" for an object (`commands/retrieval_commands.py:17`) | a source state and an assertion of another family are |
| `TemporalAssertions!OrdersAgree` | "accepted order and transaction-time order agree" (`runtime/temporal_assertions.py:34`) | `now()` is fixed before the lock is |
| `SourceRoundTrip!RechunkKeepsTheSource` | a rechunk re-derives the hierarchy "from its stored source" (`ingestion/runtime_boundary.py:90`) | text outside paragraphs is not stored |
| `SourceRoundTrip!EditsAreReconstructed` | reconstruction reads the active text (`commands/info.py:403`) | an appended version drops the exact piece, and mixed documents raise |
| `SourceRoundTrip!PagesAreReadable` | pages of a document can be read (`commands/info.py:402`) | a page without the final suffix raises |
| `Operations!CompletedStaysCompleted` | "Stable status" (`commands/processing_status_command.py:92`) | a replay is recorded as "idempotent", which is no status |
| `Operations!BoundStaysBound` | document_rebind binds a document to a project (`commands/document_rebind_command.py:38`) | the next publication replaces `block_meta` |
| `Operations!EveryFileIsImported` | "Import ordered docs files" (`scripts/import_docs.py:2`) | files of one name are one document, and both are reported |
| `Search!LinkedDocumentsAreRefined` | candidates are refined "down the linked hierarchy" (`commands/info.py:384`) | a file linked by its own owner has no children in the scope that is read |

## 5. Proofs

Every theorem is about the specification of its module with the constants left open: any
sets of rows, callers, texts and runs. What is assumed of the constants is in the
module's `ASSUME`s, which TLC evaluates in the runs, and in one hypothesis of
`TemporalProofs`, named below. None of the properties is inductive as it stands. For each
component the invariant that is was first model-checked on its run and is proved by
one lemma per operation, from lemmas about what the operators compute.

| module | theorem | property |
|---|---|---|
| `ChunkProofs` | `TypeCorrect`, `VersionNumbersUnique`, `SelectionAgrees`, `ProjectionCorrect`, `DerivedCurrent` | `TypeOK` and the four invariants of the run `ChunkVersions` |
| | `HistoryPreserved`, `SelectionKept`, `StaleWriteRefused` | `HistoryAppendOnly`, `SelectionLostOnlyByDelete`, `LockDetectsIntervening` |
| | `SearchCorrect`, `FlagsCorrect`, `HealthCorrect`, `SearchSurvivesDeath`, `FlagsSurviveDeath` | `SearchServesCurrentText`, `MissingVectorsAreFlagged`, `HealthInv` |
| `ProvenanceProofs` | `OriginalsCorrect`, `EvidenceChainKept`, `HistoryKept` | `OriginalsInv`, `EvidenceChainHolds`, `DeletesReleaseHistory` |
| `TemporalProofs` | `DisjointHistories`, `AsOfCorrect`, `TheSettledPastIsKept`, `CorrectionsExact` | `AcceptedDisjoint`, `AsOfInv`, `SettledTimesStable`, `CorrectionsAreExact` |
| `PublicationProofs` | `PublicationCorrect`, `PublicationIsAtomic`, `RetriesAreReplayed`, `RechunksKeepText` | `PublicationInv`, `ImplementsAtomic`, `RetryIsReplayed`, `RechunkKeepsText` |
| | `AcceptedAnswersRestoreTheSource`, `RechunkLosesNoCoveredWord`, `ReadersAgree` | `AcceptedInv`, `RechunkKeepsCoveredText`, `ReadsInv` |
| `OperationsProofs` | `StatusCorrect`, `ReportsAreStored` | `StatusInv`, `ReportedIsStored` |
| `DocumentMetadataProofs` | `MetadataCorrect`, `CallsWriteExactly` | `MetadataInv`, `CallsWriteWhatWasAsked` |
| `SearchProofs` | `WindowCorrect`, `AnswersCorrect` | `WindowInv`, `AnswersAreComplete` |
| `EntityLifecycleProofs` | `MarksReachBelow`, `DeletesAreChecked` | `MarkReachesAllBelow`, `DeleteLeavesNoCheckedReference` |

**ChunkVersions** (`DocOf` and `FileOf` are functions, `NoText` is no text, `MaxVersions` is
positive). `Inv` is the conjunction of the invariants with the order in which ids are
given out (rows beyond `issued` are absent), which is what makes a new row's id fresh:
without it `InsertAndActivate` could overwrite a row. `TypeOK` gives that
the pointer names an existing row; `CurrentAgreement` gives that the writer that clears by
`is_current` and the one that clears by pointer clear the same row, so each preserves
the other's view; `ProjectionMatchesSelected` needs both.

`HistoryPreserved` and `SelectionKept` follow from what one step does to one chunk
(`RowsKept`, one lemma per way of writing the version table): an id at or below `issued`
that names a row afterwards named it before, with the same number and text.
`StaleWriteRefused` needs `LockInv`: what a writer remembers is an
issued row id whose row, if it survives, still has the number read, and no row has
the number that means "not supplied". Numbers are reused after a hard delete, ids are
not; with `UniqueVersionNumbers` an equal number is then an equal row. The exception
"or was hard-deleted since" is real: without it the statement is `OptimisticLockExact`.

**Vectorization** (besides, `Docs` is finite, as a batch is counted). `VectorInv` says of
each input a worker holds that its version was given out and, if it still names a row,
that row has the text read with it; and of each stored vector that it names a live
version and is of that version's text. The first outlasts the await because of what
`RowsKept` says of every chunk operation, and the foreign key refuses the batch in the other case.
For the flags it says that a job between reading and persisting has an input for
every live chunk of the documents of its batch that did not come to life since (`late`), and that a live chunk
without an active vector is flagged or recorded (`unmarked`). For health `ActivityInv` adds what the log and the
snapshot say of the one worker. `SearchSurvivesDeath` and `FlagsSurviveDeath` are the same
properties where workers may be killed between any two steps.

**Provenance** (`Null` is no row, `Installed` are revisions). `ProvenanceInv` adds that a File
is bound to an original named after it from the backfill on, that a publication in flight
resolved that one, that a state supersedes an older state of the same document, and that of a
document's states exactly one is not superseded. `DeletesReleaseHistory` follows from it
with `ReleasePermitted`: every update the foreign keys make is one the trigger lets pass.

**TemporalAssertions** (there is an object, callers are finite). `TemporalInv` says that rows
supersede earlier rows, that accepted rows of a family are disjoint, that no transaction began
after the clock, and of callers in turn that every known time had disjoint rows and that
a checked prior is still accepted. The lemmas state what an append, a supersession, a
close and a split do to any history; the pieces of a split are shown to cover exactly the
original's interval but for the correction's, with any number of rows.
As-of answers follow from `MetOnlySuperseded`: a row that meets an
earlier one of its family came after the row that superseded that one, so both are visible only at a known time
before that supersession was recorded.
One hypothesis is stated in the theorems. `SeparateFamilies`: callers of the service do not
write with the source's own family. The service's family defaults to the registry kind of
the object, and nothing in the repository passes `"source_state"`; one who did would break
disjointness, as `_append_source_state` has no overlap guard. The run's constants satisfy it.
Callers may pass any kinds, those of the service's own corrections included.

**Publication** (publishers are finite, `Interleaved` is no uploaded content).
`PublishingInv` says what an open transaction has cleared: below the chapters it cleared, all
rows that were live; and that the live chapters are those of the newest generation alone.
A verdict is written only with the unique index free, so whoever reaches it has cleared the
newest chapter; that makes `Commit` a `Publish` of `AtomicPublication` and every other step
a stutter or a refusal. For the index, `2 * (order[g] + 1) <= 2 ^ Cardinality(Published)`:
a publication at most doubles the largest index. For replays and rechunks,
what an undisturbed publication has read is still so (`UndisturbedOK`). Of the worker it says that what it has read
was published, so that what it embeds is.

**SourceRoundTrip** (`RoundTripAssumption`: sources and edits are sequences of characters, every source
has a character that is no blank, `Null` is no number, text, piece or answer). `RoundTripInv` adds
to `AcceptedInv` that sentences lie in the paragraph they name and in its order and that paragraphs
are not empty ranges: this is what makes every sentence belong to one paragraph only (`SentencesOf`
asks where it starts), and so the units of a publication monotonic. `RowsTile` then takes the pieces one by one:
after k of them the text is the source up to the end of the k-th unit, and the suffix is the rest, so the
comparison cannot fail on a chunker's account, whatever texts it cleaned. That a located text has the words of its range
is proved for each of the ways of locating it: claimed, found raw, found stripped, matched by words.
For `RechunkKeepsCoveredText` words are counted through `Picked`: what is kept of a joined text is
what is kept of its parts. `ReadsInv` needs nothing of how the rows came about but their types: `RoundOK`
is the invariant of the loop (the text so far is the whole text of the rows so far, or the limit is reached and
the text is a prefix; every entry of the map finds what its row stands for), and its last round is the answer. Where a definition is
a recursive function over positions, the proofs take the least position where a claim would fail
(`FirstBad`); induction over the data itself is not used.

**Operations** (`Null` is no operation, row, text or answer; the files are a sequence of documents with a version and
a text each, equal names and contents allowed). A replay answers
"idempotent" because of what is stored, by version or by text, so `OperationsInv` says of all that
is stored that it was committed, for its document. For `ReportedIsStored` it says of every upload that succeeded and was
not overtaken that it is stored (`StoredOK`), of every call the script has taken that it uploaded the file it stands for, and of every
candidate behind the script that its document is bound unless it was published since (`BoundOK`).

**DocumentMetadata** (`Null` is no value, batches are lists of patches of chunks, rebinds set
safe fields). `MetaInv` says of every open transaction what it would commit: the rows it has written
are locked, hence still what it found but for what it was asked to change, and agree with their columns but for what the commit will
add to `adrift` (`Drift`); the items and
children it has passed are applied to them, or not there; its copy of a row is the row's own, or the row
is `stale`. Two transactions hold different rows and insert different categories, which is what lets a
commit keep the invariant of the others.

**Search** (entities are finite and every entity of one level is numbered below those of the next,
limits are positive, `None` is no entity, version or query). That cutting after every merge is
cutting once does not hold by the shape of `_merge_window`: an entity that was cut may come back
with a better score. `WindowOfWindow` proves it, for any two finite sets of items: whatever was cut
is outranked by as many *entities* as the window has places, and a later item of the entity that is no
better stays outranked. `SearchInv` is the control of the call (which query is executed where) with, as long
as nothing changed, what the loop has done so far: the candidates are those that would be read
now, every chunk behind the loop was offered, and a document that was offered had no comparable
part in the scope that was read. For pages, `Shown` is the set of matches whose position is below the
offset; a page is empty only beyond the last one because positions have no gaps (`RankExists`,
the pigeonhole principle). The three parts of `AnswersAreComplete` follow from these.

**EntityLifecycle** (a foreign key is one of those `_closure` follows, a row has those of its parents too, as the
`document_id` columns of `db/schema.py` give, only chunks use dictionary rows, and the rows there at
the start satisfy them). `IInv` says of a mark that, unless its pass
has found a row and will be repeated, every edge that has stayed leads from a collected row to a
collected row or is read by a SELECT still to come; `Below` is the least set closed under those
edges, so it is collected at the end, and a row an edge leads to was there when the statement for its table
ran. The passes need not see one instant for this, nor rows be a tree. Of a hard delete it says the same of the
SELECTs of its check: every edge that was there from the first of them on leads into the deleted set, or
its SELECT is still to come, or a row outside has been found and the call will be refused (`CheckedOK`).
A hard delete removes more than it collected:
its DELETEs cascade to rows published after the check. `IInv` therefore says that
locked rows are collected or hang below a collected one, that what hangs below a locked row or uses it is locked
(so the foreign keys hold after the commit), and that nothing which hangs below the deleted rows was linked
unless the check should find it: a row that came later has a new UUID. Locks of two transactions are disjoint, which is what keeps
a mark from reviving a row another call has deleted.

## 6. Only model-checked, and not modelled

Only model-checked: liveness (`JobsEnd`, `PublicationEnds`, `ScriptEnds`, the three
`EveryCallEnds`), which TLAPS cannot prove under fairness; and the lists and trees of `LifecycleInv`, which are
sorted and recursive over data. These hold for the instances above.

Left out of modelled parts: deletes, undeletes and rebinds of a document during publication
(`needs_rechunk` stays FALSE there; `DocumentMetadata`, `EntityLifecycle` and `Vectorization` have them beside a
publication that is one step); in `Vectorization`, which File another text makes (only that it has no vector), deletes of a chunk
without its paragraph, and, of the vectors of documents and files, everything but whether an active one exists;
in `DocumentMetadata`, the statements of entity_update and of the version commands, and so
the deadlocks these may have with a rebind; chapter and project vectors, which the worker never writes, and the
direct vectors of documents and files, which `direct_text_max_chars = 0` of the packaged
configuration turns off; how scores are computed; the order in which rows inside one table are
locked by publication; the diagnostic span of a refused run, which may be lost on its own;
column validation and filters of the entity commands.

Not modelled:

- relations, corpus audit, export, health metrics, previews, ingestion logs: read-only, over a snapshot;
- `query/hybrid.py`, `query/backend.py`, the fusion in `semantic.py`, `SvoChunkingBoundary`,
  `ingestion/embedding_orchestration.py`, `SemanticChunkRepository`: not reached by the running server;
- the retrieval boundary: one statement per call;
- migrations other than 0018 to 0021: they create tables; `content_attachments`, the
  subject of 0018b, is created by none of them, so its states cannot occur;
- the rest of the Python client, which forwards calls (its `TemporalCursor` has no counterpart in
  the server), `scripts/verify_runtime_capabilities.py`, packaging, configuration and start-up.

## 7. Plan

1. The proof that is left: `PagesShowEachRowOnce` of `LifecycleInv`, along the lines of `RankExists`
   in `SearchProofs`; the tree is recursive over data and stays with TLC.
2. An abstract specification of `EntityLifecycle`, "a closure is marked as it was at one instant", for
   callers that do not overlap, and of `Operations`, one status per operation.
3. A larger `Publication` instance with a document delete between its statements.
