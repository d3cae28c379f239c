-------------------------- MODULE VectorizerActivity --------------------------
(***************************************************************************)
(* What health_command reports of the embedding worker.  Rebuilds run in   *)
(* queue workers and health in the main process, so the report is put      *)
(* together from two files the workers leave behind, the activity log and  *)
(* the status snapshot, and from the vectors that are stored:              *)
(* InMemoryVectorizationStatus and the log functions of                    *)
(* runtime/vectorization.py, around the jobs of Vectorization.             *)
(***************************************************************************)
EXTENDS Vectorization

VARIABLES
  event,    \* the last line of vectorizer_activity.jsonl
  status,   \* the state in vectorizer_status.json
  outcome   \* how the last batch that held a document ended, for each worker

activityVars == <<vectorVars, event, status, outcome>>

NoEvent == [name |-> "none", document |-> 0]

ActivityTypeOK ==
  /\ VectorTypeOK
  /\ event \in [name : {"started", "vectorized"}, document : Docs] \cup {NoEvent}
  /\ status \in {"idle", "running"}
  /\ outcome \in [Workers -> {"ok", "unavailable", "raised"}]

\* No file yet: the main process has nothing but its own empty record.
ActivityInit ==
  /\ VectorInit
  /\ event = NoEvent
  /\ status = "idle"
  /\ outcome = [w \in Workers |-> "ok"]

\* Mutant of Logged: only starts are logged.
LoggedStarts(name, batch) ==
  IF batch = {} \/ name = "vectorized" THEN event ELSE [name |-> name, document |-> Last(batch)]

\* A line for every document of the batch, in the order of _document_details; a
\* rebuild of one document has an empty batch once the document is deleted.
Logged(name, batch) ==
  IF batch = {} THEN event ELSE [name |-> name, document |-> Last(batch)]

-----------------------------------------------------------------------------
(* The jobs, with what they leave for the report. *)

Quietly == UNCHANGED <<event, status, outcome>>

\* _log_documents_started and record_current, before the service is awaited.
Announce(w) ==
  /\ ReadInputs(w)
  /\ IF job[w].dry
     THEN Quietly
     ELSE /\ event' = Logged("started", job[w].batch)
          /\ status' = "running"
          /\ UNCHANGED outcome

\* record_completed("embedding_unavailable"), which logs no activity.
ReportUnavailable(w) ==
  /\ EmbedFails(w)
  /\ status' = "idle"
  /\ outcome' = [outcome EXCEPT ![w] = "unavailable"]
  /\ UNCHANGED event

\* _log_documents_completed and record_completed, after the commit.
ReportVectorized(w) ==
  /\ \E bm25 \in Answers : Persist(w, bm25)
  /\ event' = Logged("vectorized", job[w].batch)
  /\ status' = "idle"
  /\ outcome' = [outcome EXCEPT ![w] = IF job[w].batch = {} THEN @ ELSE "ok"]

\* Any other exception leaves the loop past both records.
Raise(w) ==
  /\ PersistRefused(w)
  /\ outcome' = [outcome EXCEPT ![w] = "raised"]
  /\ UNCHANGED <<event, status>>

\* The worker process dies; its files stay.
Die(w) ==
  /\ job[w].pc # "idle"
  /\ EndJob(w)
  /\ outcome' = [outcome EXCEPT ![w] = IF job[w].pc = "embed" THEN "raised" ELSE @]
  /\ UNCHANGED <<chunkVars, hierarchy, unmarked, event, status>>

ReportedStep(w) ==
  \/ (FinishJob(w) \/ SelectDocuments(w)) /\ Quietly
  \/ Announce(w)
  \/ ReportUnavailable(w)
  \/ ReportVectorized(w)
  \/ Raise(w)

ActivityNext ==
  \/ Beside /\ Quietly
  \/ \E w \in Workers :
       \/ ReportedStep(w)
       \/ Die(w)
       \/ \E request \in Requests, d \in Docs : StartJob(w, request, d) /\ Quietly

ActivitySpec == ActivityInit /\ [][ActivityNext]_activityVars

-----------------------------------------------------------------------------
(* The report. *)

\* _document_needs_active_vectors. Paragraph vectors are stored with the vector of
\* their document and are never withdrawn, so they are not asked for by themselves.
NeedsActiveVectors(d) ==
  \/ d \notin deleted /\ ~docVec[d]
  \/ \E c \in ChunksOf({d}) \cap live : vec[c].state # "active"

\* snapshot: a document whose start is the last line of the log and whose vectors
\* are missing is being embedded; otherwise the persisted state counts.
Health ==
  IF event.name = "started" /\ NeedsActiveVectors(event.document) THEN "running" ELSE status

\* With one worker the report follows it: it says "running" while a batch awaits the
\* embedding service, whatever is written or deleted meanwhile, and at any other
\* time only if the last batch that awaited it failed.
HealthFollowsTheWorker ==
  \A w \in Workers : Workers = {w} =>
    /\ job[w].pc = "embed" => Health = "running"
    /\ job[w].pc # "embed" /\ Health = "running" => outcome[w] # "ok"

\* The report stays well formed and true.
HealthInv == ActivityTypeOK /\ HealthFollowsTheWorker

=============================================================================
