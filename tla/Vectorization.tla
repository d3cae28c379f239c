---------------------------- MODULE Vectorization ----------------------------
(***************************************************************************)
(* The embedding worker: RuntimeVectorizationService.rebuild of            *)
(* runtime/vectorization.py, run by embeddings_rebuild in queue workers,   *)
(* beside the chunk operations of ChunkVersions, publications and deletes. *)
(*                                                                         *)
(* A job is a loop over document batches.  Selecting a batch, reading its  *)
(* texts and persisting its vectors are three transactions, and between    *)
(* the last two the job awaits the embedding service with no lock held.    *)
(***************************************************************************)
EXTENDS ChunkVersions

CONSTANTS
  Workers,    \* queue workers that can run a rebuild
  BatchSize,  \* document_batch_size
  Edited,     \* bound: chunks that callers write to
  Requests,   \* rebuilds that are called for: mode, dry_run, document_limit
  Answers     \* what the embedding service may return of a chunk's tokens

\* documents.id is ordered: all_documents pages by it.
ASSUME VectorizationAssumption ==
  /\ Docs \subseteq Nat \ {0}
  /\ IsFiniteSet(Docs)
  /\ BatchSize \in Nat \ {0}
  /\ Requests \subseteq [mode : {"flagged", "all", "document"}, dry : BOOLEAN, limit : Nat]
  /\ Answers \subseteq {"absent", "empty", "some"}

VARIABLES
  published,  \* the chunks that have rows: the others are published later
  live,       \* of these, the ones whose deleted_at is NULL
  deleted,    \* documents whose deleted_at is not NULL
  job,        \* the locals of each worker's rebuild
  late,       \* history: what came to life while a worker held what it read
  unmarked    \* history: live chunks that lost or lack a vector with no flag

hierarchy == <<published, live, deleted>>
accounts == <<late, unmarked>>
vectorVars == <<chunkVars, hierarchy, job, accounts>>

ChunksOf(ds) == {c \in Chunks : DocOf[c] \in ds}
DocsOf(f) == {d \in Docs : FileOf[d] = f}

Smaller(m, n) == IF m < n THEN m ELSE n

-----------------------------------------------------------------------------
(* Jobs.  limit = 0 stands for no document_limit, after = 0 for no page     *)
(* read yet, target = 0 for no job; `done` counts processed documents as    *)
(* far as the loop tests it.                                                *)

Modes == {"flagged", "all", "document"}

\* What was read for a chunk: its text and its selected version.
Input == [version : Ids \cup {Null}, text : Texts]

Job == [pc : {"idle", "select", "read", "embed"}, mode : Modes, target : Docs \cup {0},
        dry : BOOLEAN, limit : Nat, done : Nat, after : Docs \cup {0},
        batch : SUBSET Docs, inputs : UNION {[cs -> Input] : cs \in SUBSET Chunks}]

IdleJob == [pc |-> "idle", mode |-> "flagged", target |-> 0,
            dry |-> FALSE, limit |-> 0, done |-> 0, after |-> 0,
            batch |-> {}, inputs |-> [c \in {} |-> NoText]]

VectorTypeOK ==
  /\ TypeOK
  /\ published \in SUBSET Chunks
  /\ live \in SUBSET published
  /\ deleted \in SUBSET Docs
  /\ job \in [Workers -> Job]
  /\ late \in [Workers -> SUBSET Chunks]
  /\ unmarked \in SUBSET Chunks

\* A chunk that is not published yet is in the state publication will leave.
VectorInit ==
  /\ Init
  /\ published \in SUBSET Chunks
  /\ \A c \in Chunks \ published : assigned[c] = Null
  /\ live = published
  /\ deleted = {}
  /\ job = [w \in Workers |-> IdleJob]
  /\ late = [w \in Workers |-> {}]
  /\ unmarked = {}

\* The WHERE clause of _select_documents.
Selectable(j) ==
  {d \in Docs \ deleted :
     CASE j.mode = "document" -> d = j.target
       [] j.mode = "all" -> d > j.after
       [] j.mode = "flagged" -> dirtyDoc[d] \/ dirtyFile[FileOf[d]]}

\* Its LIMIT.
Quota(j) ==
  CASE j.mode = "document" -> 1
    [] j.mode # "document" /\ j.limit = 0 -> BatchSize
    [] j.mode # "document" /\ j.limit # 0 -> Smaller(BatchSize, j.limit - j.done)

\* Its results: the first rows by id, or by updated_at, which leaves any order.
Batches(j) ==
  LET candidates == Selectable(j)
      size == Smaller(Quota(j), Cardinality(candidates))
  IN  {ds \in SUBSET candidates :
         /\ Cardinality(ds) = size
         /\ j.mode = "all" => \A d \in ds, e \in candidates \ ds : d < e}

Last(ds) == CHOOSE d \in ds : \A e \in ds : e <= d

\* The loop's exits: the one document is processed, the limit is reached, or
\* nothing was selected.
Finished(j) ==
  IF j.mode = "document"
  THEN j.done > 0
  ELSE \/ j.limit > 0 /\ j.done >= j.limit
       \/ Selectable(j) = {}

\* Mutant of Processed: processed_docs is not extended.
ProcessedUncounted(j) ==
  [j EXCEPT !.pc = "select", !.batch = {}, !.inputs = IdleJob.inputs]

\* processed_docs.extend(docs); without a limit only its emptiness is tested.
Processed(j) ==
  [j EXCEPT !.pc = "select", !.batch = {}, !.inputs = IdleJob.inputs,
            !.done = IF j.limit = 0 THEN Smaller(1, @ + Cardinality(j.batch))
                                    ELSE @ + Cardinality(j.batch)]

EndJob(w) ==
  /\ job' = [job EXCEPT ![w] = IdleJob]
  /\ late' = [late EXCEPT ![w] = {}]

-----------------------------------------------------------------------------
(* Steps of a job. *)

StartJob(w, request, target) ==
  /\ job[w].pc = "idle"
  /\ job' = [job EXCEPT ![w] = [IdleJob EXCEPT !.pc = "select", !.target = target,
       !.mode = request.mode, !.dry = request.dry, !.limit = request.limit]]
  /\ UNCHANGED <<chunkVars, hierarchy, accounts>>

FinishJob(w) ==
  /\ job[w].pc = "select"
  /\ Finished(job[w])
  /\ EndJob(w)
  /\ UNCHANGED <<chunkVars, hierarchy, unmarked>>

\* Mutant of SelectDocuments: the page key is not advanced.
SelectSamePage(w) ==
  /\ job[w].pc = "select"
  /\ ~Finished(job[w])
  /\ \E ds \in Batches(job[w]) : job' = [job EXCEPT ![w].pc = "read", ![w].batch = ds]
  /\ UNCHANGED <<chunkVars, hierarchy, accounts>>

SelectDocuments(w) ==
  /\ job[w].pc = "select"
  /\ ~Finished(job[w])
  /\ \E ds \in Batches(job[w]) :
       job' = [job EXCEPT ![w].pc = "read", ![w].batch = ds,
                 ![w].after = IF job[w].mode = "all" THEN Last(ds) ELSE @]
  /\ UNCHANGED <<chunkVars, hierarchy, accounts>>

\* _select_vector_inputs, and for a dry run the `continue` after it.  Rows are
\* asked for their own deleted_at, not for their document's.
ReadInputs(w) ==
  /\ job[w].pc = "read"
  /\ LET j == job[w]
         inputs == [c \in ChunksOf(j.batch) \cap live |->
           [version |-> CurrentOrNull(c), text |-> text[c]]]
     IN  job' = [job EXCEPT ![w] =
           IF j.dry THEN Processed(j) ELSE [j EXCEPT !.pc = "embed", !.inputs = inputs]]
  /\ UNCHANGED <<chunkVars, hierarchy, accounts>>

\* Mutant of EmbedFails: a batch that was not embedded is marked processed.
FailAndClearFlags(w) ==
  /\ job[w].pc = "embed"
  /\ DOMAIN job[w].inputs # {}
  /\ EndJob(w)
  /\ dirtyDoc' = [d \in Docs |-> dirtyDoc[d] /\ d \notin job[w].batch]
  /\ UNCHANGED <<history, projection, derived, aggregates, dirtyFile, seen, hierarchy, unmarked>>

\* The embedding service fails: "embedding_unavailable", nothing is written.
EmbedFails(w) ==
  /\ job[w].pc = "embed"
  /\ DOMAIN job[w].inputs # {}
  /\ EndJob(w)
  /\ UNCHANGED <<chunkVars, hierarchy, unmarked>>

\* chunk_version_id is a foreign key: a version row deleted since it was read
\* refuses the batch.
VersionsExist(j) == \A c \in DOMAIN j.inputs : j.inputs[c].version \in Live(c) \cup {Null}

\* Mutant of EmbeddedVector: tagged with the version selected at persist time.
VectorOfCurrent(c, input) ==
  [state |-> "active", version |-> CurrentOrNull(c), text |-> input.text]

\* The row _persist_vectors writes for a chunk: the version is the one read
\* together with the text, before the embedding service was awaited.
EmbeddedVector(c, input) ==
  [state |-> "active", version |-> input.version, text |-> input.text]

\* Of the chunks cs, those whose document is left without a raised flag.
Unflagged(cs) == {c \in cs : ~dirtyDoc'[DocOf[c]]}

\* _persist_vectors and _aggregate_document_file_vectors in one transaction.
\* bm25: the service returned no tokens, an empty list or some.
Persist(w, bm25) ==
  LET j == job[w]
      embedded == DOMAIN j.inputs
      newDocs == {DocOf[c] : c \in embedded}
  IN  /\ j.pc = "embed"
      /\ VersionsExist(j)
      /\ vec' = [c \in Chunks |->
           IF c \in embedded THEN EmbeddedVector(c, j.inputs[c]) ELSE vec[c]]
      /\ tokens' = [c \in Chunks |->
           IF c \notin embedded \/ bm25 = "absent" THEN tokens[c]
           ELSE IF bm25 = "empty" THEN NoRow ELSE j.inputs[c].version]
      /\ docVec' = [d \in Docs |-> docVec[d] \/ d \in newDocs]
      /\ fileVec' = [f \in Files |-> fileVec[f] \/ DocsOf(f) \cap newDocs # {}]
      /\ dirtyDoc' = [d \in Docs |-> dirtyDoc[d] /\ d \notin j.batch]
      /\ dirtyFile' = [f \in Files |-> dirtyFile[f] /\ DocsOf(f) \cap j.batch = {}]
      /\ job' = [job EXCEPT ![w] = Processed(j)]
      /\ late' = [late EXCEPT ![w] = {}]
      /\ unmarked' = Unflagged((unmarked \cup (late[w] \cap ChunksOf(j.batch))) \ embedded)
      /\ UNCHANGED <<history, projection, tags, seen, hierarchy>>

\* The transaction is rolled back and the exception ends the job.
PersistRefused(w) ==
  /\ job[w].pc = "embed"
  /\ ~VersionsExist(job[w])
  /\ EndJob(w)
  /\ UNCHANGED <<chunkVars, hierarchy, unmarked>>

WorkerStep(w) ==
  \/ FinishJob(w)
  \/ SelectDocuments(w)
  \/ ReadInputs(w)
  \/ EmbedFails(w)
  \/ \E bm25 \in Answers : Persist(w, bm25)
  \/ PersistRefused(w)

-----------------------------------------------------------------------------
(* What goes on beside the jobs.  No job holds a lock while it awaits the    *)
(* embedding service, so all of it may happen then.                         *)

\* `late` after the chunks cs came to life.
Reached(cs) ==
  late' = [w \in Workers |-> IF job[w].pc = "embed" THEN late[w] \cup cs ELSE late[w]]

\* Soft delete of a document, or of a paragraph with its chunk.  The closure of a
\* document holds all its rows, those deleted before included.
SoftDeleteDocument(d) ==
  /\ deleted' = deleted \cup {d}
  /\ live' = live \ ChunksOf({d})
  /\ UNCHANGED <<chunkVars, published, job, accounts>>

SoftDeleteParagraph(c) ==
  /\ live' = live \ {c}
  /\ UNCHANGED <<chunkVars, published, deleted, job, accounts>>

\* _set_deleted(False) of the rows of the chunks cs: no flag is raised, and vectors
\* that a publication withdrew stay withdrawn.
Revive(cs) ==
  /\ live' = live \cup cs
  /\ UNCHANGED <<chunkVars, published, job>>
  /\ Reached(cs \ live)
  /\ unmarked' = Unflagged(unmarked \cup (cs \ live))

UndeleteDocument(d) ==
  /\ deleted' = deleted \ {d}
  /\ Revive(ChunksOf({d}) \cap published)

UndeleteParagraph(c) ==
  /\ c \in published \ live
  /\ Revive({c})
  /\ UNCHANGED deleted

\* Mutant of Publish: the flag of the document is not raised.
PublishUnflagged(d, new, newFile) ==
  /\ published' = published \cup new
  /\ live' = (live \ ChunksOf({d})) \cup new
  /\ deleted' = deleted \ {d}
  /\ vec' = [c \in Chunks |-> IF c \in live \cap ChunksOf({d}) THEN Deactivated(vec[c]) ELSE vec[c]]
  /\ dirtyFile' = [dirtyFile EXCEPT ![FileOf[d]] = TRUE]
  /\ Reached(new)
  /\ UNCHANGED <<history, projection, tags, tokens, aggregates, dirtyDoc, seen, job, unmarked>>

\* A publication of document d commits (see Publication for its statements): the
\* previous chunks are marked deleted and their vectors withdrawn, those of
\* `new` are inserted, and both flags are raised.  The vector of the document
\* stays.  Another text makes another File, which has no vector.
Publish(d, new, newFile) ==
  LET f == FileOf[d]
  IN  /\ published' = published \cup new
      /\ live' = (live \ ChunksOf({d})) \cup new
      /\ deleted' = deleted \ {d}
      /\ vec' = [c \in Chunks |->
           IF c \in live \cap ChunksOf({d}) THEN Deactivated(vec[c]) ELSE vec[c]]
      /\ newFile => DocsOf(f) = {d}
      /\ fileVec' = IF newFile THEN [fileVec EXCEPT ![f] = FALSE] ELSE fileVec
      /\ dirtyDoc' = [dirtyDoc EXCEPT ![d] = TRUE]
      /\ dirtyFile' = [dirtyFile EXCEPT ![f] = TRUE]
      /\ Reached(new)
      /\ unmarked' = Unflagged(unmarked)
      /\ UNCHANGED <<history, projection, tags, tokens, docVec, seen, job>>

\* The operations on chunks that exist; deleted_at is not asked for.  entity_update
\* of a text drops the vector and raises no flag.
ChunkStep ==
  /\ \E c \in published \cap Edited :
       \/ /\ VersionOperation(c) \/ \E w \in Writers : WriterOperation(w, c)
          /\ unmarked' = Unflagged(unmarked)
       \/ /\ \E t \in Texts : EntityUpdate(c, t)
          /\ unmarked' = Unflagged(unmarked \cup {c})
  /\ UNCHANGED <<hierarchy, job, late>>

Beside ==
  \/ ChunkStep
  \/ \E c \in Chunks : SoftDeleteParagraph(c) \/ UndeleteParagraph(c)
  \/ \E d \in Docs :
       \/ SoftDeleteDocument(d)
       \/ UndeleteDocument(d)
       \/ \E new \in SUBSET (ChunksOf({d}) \ published) \ {{}}, newFile \in BOOLEAN :
            Publish(d, new, newFile)

VectorNext ==
  \/ Beside
  \/ \E w \in Workers :
       \/ WorkerStep(w)
       \/ \E request \in Requests, d \in Docs : StartJob(w, request, d)

VectorSpec == VectorInit /\ [][VectorNext]_vectorVars

\* A queue worker runs its job on; the embedding service answers or times out.
FairVectorSpec == VectorSpec /\ \A w \in Workers : WF_vectorVars(WorkerStep(w))

-----------------------------------------------------------------------------
(* Properties. *)

\* query/semantic.py serves a chunk through an active vector whose version is
\* the selected one: that vector was computed from the text now selected,
\* however long the embedding took and whatever was written meanwhile.
SearchServesCurrentText ==
  \A c \in Chunks :
    vec[c].state = "active" /\ current[c] # NoRow /\ vec[c].version = current[c]
      => vec[c].text = text[c]

\* needs_revectorize accounts for what is not embedded: a live chunk without an active
\* vector belongs to a flagged document, unless it came to life while a worker
\* awaited the embedding service for its document, or was revived or written by
\* entity_update, which raise no flag.
MissingVectorsAreFlagged ==
  \A c \in live : vec[c].state # "active" => dirtyDoc[DocOf[c]] \/ c \in unmarked

\* all_documents pages by id, so such a job ends, dry or not, whatever flags
\* are raised while it runs.
AllDocumentsJobEnds ==
  \A w \in Workers : (job[w].pc # "idle" /\ job[w].mode = "all") ~> job[w].pc = "idle"

\* document_limit bounds a job over flagged documents, dry or not.
LimitedJobEnds ==
  \A w \in Workers :
    (job[w].pc # "idle" /\ job[w].mode = "flagged" /\ job[w].limit > 0) ~> job[w].pc = "idle"

\* A rebuild of one document ends unless the document is deleted meanwhile
\* (then nothing is ever selected and the loop turns without end).
DocumentJobEnds ==
  \A w \in Workers, d \in Docs :
    (job[w].pc # "idle" /\ job[w].mode = "document" /\ job[w].target = d)
      ~> (job[w].pc = "idle" \/ d \in deleted)

\* Every rebuild that has a bound, a page key or a live document to reach ends.
JobsEnd == AllDocumentsJobEnds /\ LimitedJobEnds /\ DocumentJobEnds

-----------------------------------------------------------------------------
(* Statements of the documentation that the code does not keep. *)

\* vectorization_command.py:112-113 chunking sets flags and the command "clears them
\* after successful batches": what chunking published and no batch has embedded
\* stays flagged.
ChunkedStaysFlagged ==
  \A c \in live : vec[c].state = "none" => dirtyDoc[DocOf[c]]

\* The same of texts: a cleared document has a vector of the selected version of
\* every chunk.
ClearedMeansEmbedded ==
  [][\A d \in Docs \ deleted :
       dirtyDoc[d] /\ ~dirtyDoc'[d] =>
         \A c \in ChunksOf({d}) \cap live :
           current[c] # NoRow => vec'[c].version = current[c]]_vectorVars

\* vectorization_command.py:57 dry_run "Only report selected documents".
DryRunReports ==
  \A w \in Workers :
    (job[w].pc # "idle" /\ job[w].mode = "flagged" /\ job[w].dry) ~> job[w].pc = "idle"

=============================================================================
