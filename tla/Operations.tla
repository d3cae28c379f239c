----------------------------- MODULE Operations -----------------------------
(***************************************************************************)
(* Ingestion operations as their callers see them: the commands            *)
(* document_create, document_update and document_chunk run as jobs of a    *)
(* server process or of a queue worker, the process keeps a status         *)
(* registry (InMemoryRuntimeStatus), processing_status reads the registry  *)
(* of the main process and falls back to the documents table, and          *)
(* scripts/import_docs.py drives uploads and rebinds through the client.   *)
(*                                                                         *)
(* A publication is one step here (Publication has its statements), and so *)
(* is a rebind (DocumentMetadata has those).                               *)
(***************************************************************************)
EXTENDS Integers, Sequences, FiniteSets

CONSTANTS
  Docs,            \* documents
  Versions,        \* source_version_ids
  Texts,           \* what a file can hold, told apart by its checksums
  Candidates,      \* the files the script found, in order
  Null,
  Uploads,         \* bound: version and text of what other callers upload
  Budgets          \* bounds: starts of the script, calls of other callers, and faults,
                   \* that is, failures before a commit and crashes

Chunk == "chunk"   \* document_chunk names its version "stored"

\* A file of the script. The document is made from the file's name, the version from
\* its bytes: files of one name in two directories are of one document.
File == [doc : Docs, version : Versions, text : Texts]

ASSUME OperationsAssumption ==
  /\ Candidates \in Seq(File)
  /\ Uploads \subseteq Versions \X Texts
  /\ Budgets \subseteq [runs : Nat, other : Nat, faults : Nat]
  /\ Chunk \notin Versions

\* _operation_id: a function of the document and the named version, so a retry has
\* the operation of the call it repeats, and so have all rechunks of a document.
Operations == Docs \X (Versions \cup {Chunk})

\* A row of the documents table and of its file: text stands for body_sha256, content
\* for content_sha256.
Stored == [version : Versions, text : Texts, content : Texts,
           operation : Operations, project : {Null, "project"}]

Answers == {"completed", "idempotent", "failed"}

ASSUME NullAssumption == Null \notin Operations \cup Stored \cup Answers \cup Texts \cup {"project"}

Main == "main"      \* the process that answers processing_status
Worker == "worker"  \* the spawned worker of the adapter's queue
Processes == {Main, Worker}

VARIABLES
  documents,  \* the documents table, or Null
  runner,     \* the process commands run in (DOC_STORE_INGESTION_USE_QUEUE)
  items,      \* each process's _items
  current,    \* each process's _current
  jobs,       \* every call made so far
  script,     \* the import script; calls has the call it took for each file, or 0
  bounds,     \* what is left of the budget
  committed,  \* history: the publications, as they were committed
  overtaken,  \* history: calls after whose success something else was published
  replaced    \* history: documents published again after the script bound them

history == <<committed, overtaken, replaced>>
vars == <<documents, runner, items, current, jobs, script, bounds, history>>
server == <<documents, items, current, history>>

Init ==
  /\ documents = [d \in Docs |-> Null]
  /\ runner \in Processes
  /\ items = [p \in Processes |-> [o \in Operations |-> "none"]]
  /\ current = [p \in Processes |-> Null]
  /\ jobs = <<>>
  /\ script = [pc |-> "idle", at |-> 0, job |-> 0, update |-> FALSE, stop |-> FALSE,
               calls |-> [k \in DOMAIN Candidates |-> 0]]
  /\ bounds \in Budgets
  /\ committed = {}
  /\ overtaken = {}
  /\ replaced = {}

-----------------------------------------------------------------------------
(* The status registry.                                                     *)

\* Mutant of Recorded: the snapshot of the current activity is never cleared.
RecordedOnly(p, o, status) ==
  /\ items' = [items EXCEPT ![p][o] = status]
  /\ current' = [current EXCEPT ![p] = IF status = "running" THEN o ELSE @]

\* InMemoryRuntimeStatus.record
Recorded(p, o, status) ==
  /\ items' = [items EXCEPT ![p][o] = status]
  /\ current' = [current EXCEPT ![p] = IF status = "running" THEN o ELSE IF @ = o THEN Null ELSE @]

\* Mutant of Persisted: the row is looked up by the document alone.
PersistedOfDocument(o) == documents[o[1]] # Null

\* _lookup_persisted_status
Persisted(o) == \E d \in Docs : documents[d] # Null /\ documents[d].operation = o

\* get_status, when process p is asked.
GetStatus(p, o) ==
  IF items[p][o] # "none" THEN items[p][o] ELSE IF Persisted(o) THEN "completed" ELSE "failed"

Vocabulary == {"pending", "running", "draft", "completed", "failed", "cancelled"}

\* processing_status: a status outside of its vocabulary is INVALID_STATUS.
ProcessingStatus(o) == IF GetStatus(Main, o) \in Vocabulary THEN GetStatus(Main, o) ELSE "failed"

-----------------------------------------------------------------------------
(* Jobs.                                                                    *)

NewJob(o, text, by) ==
  [op |-> o, by |-> by, version |-> o[2], text |-> text, content |-> text,
   pc |-> "queued", answer |-> Null]

Job(j, pc, answer) == [jobs EXCEPT ![j].pc = pc, ![j].answer = answer]

Doc(j) == jobs[j].op[1]
Rechunks(j) == jobs[j].op[2] = Chunk

Begin(j) ==
  /\ jobs[j].pc = "queued"
  /\ jobs' = Job(j, "begun", Null)
  /\ Recorded(runner, jobs[j].op, "running")
  /\ UNCHANGED <<documents, runner, script, bounds, history>>

SameVersion(j) == documents[Doc(j)].version = jobs[j].op[2]
SameFile(j) == jobs[j].text \in {documents[Doc(j)].text, documents[Doc(j)].content}

\* Mutant of Replayed: any stored row answers for what is uploaded.
ReplayedByDocument(j, flags, named) ==
  {answer \in {"idempotent"} :
     ~Rechunks(j) /\ documents[Doc(j)] # Null /\ flags = "quiescent"}

\* _replay_reference, where flags stands for needs_rechunk and needs_revectorize of the
\* document and its file, and named for a file name in the request: the version or, with
\* a name, the checksums of what is stored are those of the upload. A rechunk is never
\* answered from what is stored.
Replayed(j, flags, named) ==
  {answer \in {"idempotent", "completed"} :
     /\ ~Rechunks(j) /\ documents[Doc(j)] # Null
     /\ \/ answer = "idempotent" /\ flags = "quiescent" /\ (SameVersion(j) \/ (named /\ SameFile(j)))
        \/ answer = "completed" /\ flags = "needs_revectorize" /\ SameVersion(j)}

\* find_committed_version, whatever else raised or lowered the flags; the script names
\* its files. A rechunk reads the version and text that are stored; paragraphs may have
\* been edited or deleted, so that it finds any text.
Lookup(j) ==
  /\ jobs[j].pc = "begun"
  /\ \/ \E flags \in {"quiescent", "needs_revectorize", "needs_rechunk"},
           named \in {TRUE, jobs[j].by = "script"} :
          \/ \E answer \in Replayed(j, flags, named) : jobs' = Job(j, "settled", answer)
          \/ /\ Replayed(j, flags, named) = {} /\ ~Rechunks(j)
             /\ jobs' = Job(j, "writing", Null)
     \/ /\ Rechunks(j) /\ documents[Doc(j)] # Null
        /\ \E text \in Texts :
             jobs' = [Job(j, "writing", Null) EXCEPT
                        ![j].version = documents[Doc(j)].version,
                        ![j].text = text, ![j].content = documents[Doc(j)].text]
  /\ UNCHANGED <<server, runner, script, bounds>>

\* Mutant of Written: a rechunk stores its operation's name as the version.
WrittenAsNamed(j) ==
  [version |-> jobs[j].op[2], text |-> jobs[j].text, content |-> jobs[j].content,
   operation |-> jobs[j].op, project |-> Null]

\* The rows of a publication; it replaces block_meta with the project.
Written(j) ==
  [version |-> jobs[j].version, text |-> jobs[j].text, content |-> jobs[j].content,
   operation |-> jobs[j].op, project |-> Null]

\* The row has the version or the text of the file.
Carries(row, file) == row.version = file.version \/ file.text \in {row.text, row.content}

\* publish_transaction, which does not look for the version again.
Publish(j) ==
  /\ jobs[j].pc = "writing"
  /\ documents' = [documents EXCEPT ![Doc(j)] = Written(j)]
  /\ committed' = committed \cup {Written(j)}
  /\ overtaken' = overtaken \cup {i \in DOMAIN jobs : /\ Doc(i) = Doc(j) /\ ~Carries(Written(j), jobs[i])
                                                    /\ jobs[i].answer \in {"completed", "idempotent"}}
  /\ replaced' = IF documents[Doc(j)] # Null /\ documents[Doc(j)].project # Null
                 THEN replaced \cup {Doc(j)} ELSE replaced
  /\ jobs' = Job(j, "settled", "completed")
  /\ UNCHANGED <<runner, items, current, script, bounds>>

\* The command records its result and answers. A rechunk is always completed.
Finish(j) ==
  /\ jobs[j].pc = "settled"
  /\ jobs' = Job(j, "answered", jobs[j].answer)
  /\ Recorded(runner, jobs[j].op, jobs[j].answer)
  /\ UNCHANGED <<documents, runner, script, bounds, history>>

Fault == bounds.faults > 0 /\ bounds' = [bounds EXCEPT !.faults = @ - 1]

NoStoredDocument(j) == jobs[j].pc = "begun" /\ Rechunks(j) /\ documents[Doc(j)] = Null

\* _record_failed: normalization, chunking or the publication failed, or a rechunk
\* finds no document. The command answers, with status failed.
Fail(j) ==
  /\ \/ jobs[j].pc \in {"begun", "writing"} /\ Fault
     \/ NoStoredDocument(j) /\ UNCHANGED bounds
  /\ jobs' = Job(j, "answered", "failed")
  /\ Recorded(runner, jobs[j].op, "failed")
  /\ UNCHANGED <<documents, runner, script, history>>

\* The lookups of a rechunk run outside of the boundary's try: the command answers
\* failed and the registry stays as it is.
Raise(j) ==
  /\ jobs[j].pc = "begun" /\ Rechunks(j)
  /\ Fault
  /\ jobs' = Job(j, "raised", "failed")
  /\ UNCHANGED <<server, runner, script>>

\* The process is restarted; its registry and its jobs are gone.
Crash ==
  /\ Fault
  /\ jobs' = [j \in DOMAIN jobs |-> IF jobs[j].pc \in {"answered", "raised"} THEN jobs[j]
                                    ELSE [jobs[j] EXCEPT !.pc = "lost"]]
  /\ items' = [items EXCEPT ![runner] = [o \in Operations |-> "none"]]
  /\ current' = [current EXCEPT ![runner] = Null]
  /\ UNCHANGED <<documents, runner, script, history>>

\* Somebody else uploads a text as a version, or rechunks.
Call(d, version, text) ==
  /\ bounds.other > 0 /\ bounds' = [bounds EXCEPT !.other = @ - 1]
  /\ jobs' = Append(jobs, NewJob(<<d, version>>, text, "other"))
  /\ UNCHANGED <<server, runner, script>>

-----------------------------------------------------------------------------
(* scripts/import_docs.py.                                                  *)

Waiting == {"creating", "updating"}
Ended == {"done", "aborted"}

Aborted == [script EXCEPT !.pc = "aborted", !.at = 0, !.job = 0, !.update = FALSE, !.stop = FALSE]

Upload(k) == NewJob(<<Candidates[k].doc, Candidates[k].version>>, Candidates[k].text, "script")

\* The script s moves to candidate k, if there is one, and calls document_create.
Create(k, s) ==
  IF k > Len(Candidates)
  THEN /\ script' = [s EXCEPT !.pc = "done", !.at = 0, !.job = 0, !.update = FALSE, !.stop = FALSE]
       /\ UNCHANGED jobs
  ELSE /\ jobs' = Append(jobs, Upload(k))
       /\ script' = [s EXCEPT !.pc = "creating", !.at = k, !.job = Len(jobs) + 1]

\* Somebody starts the script, also again after it stopped, with or without
\* --update-existing and --stop-on-error.
StartScript ==
  /\ script.pc \in {"idle"} \cup Ended
  /\ bounds.runs > 0 /\ bounds' = [bounds EXCEPT !.runs = @ - 1]
  /\ \E update, stop \in BOOLEAN :
       Create(1, [script EXCEPT !.update = update, !.stop = stop,
                                !.calls = [k \in DOMAIN Candidates |-> 0]])
  /\ UNCHANGED <<server, runner>>

\* The call the client polls for, if it has been answered.
Answered == {j \in {script.job} : jobs[j].pc = "answered"}

\* Any answer, one with status failed too, counts as imported or updated.
TakeAnswer ==
  /\ script.pc \in Waiting
  /\ \E j \in Answered :
       script' = [script EXCEPT !.pc = "rebinding", !.calls[script.at] = j]
  /\ UNCHANGED <<server, runner, jobs, bounds>>

\* A queued call that failed makes the client raise RuntimeError: after a create the
\* script updates, or skips the file; after an update it stops.
TakeError ==
  /\ script.pc \in Waiting /\ jobs[script.job].pc = "lost"
  /\ \/ /\ script.pc = "creating" /\ script.update
        /\ jobs' = Append(jobs, Upload(script.at))
        /\ script' = [script EXCEPT !.pc = "updating", !.job = Len(jobs) + 1]
     \/ /\ script.pc = "creating" /\ ~script.update /\ ~script.stop
        /\ Create(script.at + 1, [script EXCEPT !.calls[script.at] = 0])
     \/ /\ script.pc = "updating" \/ (~script.update /\ script.stop)
        /\ script' = Aborted
        /\ UNCHANGED jobs
  /\ UNCHANGED <<server, runner, bounds>>

\* Mutant of GiveUp: there is a deadline for a queued call only.
GiveUpInQueue ==
  /\ script.pc \in Waiting /\ jobs[script.job].pc = "queued"
  /\ script' = Aborted
  /\ UNCHANGED <<server, runner, jobs, bounds>>

\* TimeoutError is not caught: the script stops, the call goes on.
GiveUp ==
  /\ script.pc \in Waiting
  /\ script' = Aborted
  /\ UNCHANGED <<server, runner, jobs, bounds>>

\* Mutant of Rebound: rebind answers before it stores the project.
ReboundLater(d) == documents[d]

Rebound(d) == [documents[d] EXCEPT !.project = "project"]

\* document_rebind; without a document the client raises and the script stops.
Rebind ==
  LET d == Candidates[script.at].doc
  IN  /\ script.pc = "rebinding"
      /\ IF documents[d] = Null
         THEN script' = Aborted /\ UNCHANGED <<documents, jobs, replaced>>
         ELSE /\ documents' = [documents EXCEPT ![d] = Rebound(d)]
              /\ replaced' = replaced \ {d}
              /\ Create(script.at + 1, script)
      /\ UNCHANGED <<runner, items, current, bounds, committed, overtaken>>

Run(j) == Begin(j) \/ Lookup(j) \/ Publish(j) \/ Finish(j) \/ Fail(j) \/ Raise(j)

Next ==
  \/ \E j \in DOMAIN jobs : Run(j)
  \/ Crash
  \/ \E d \in Docs, upload \in Uploads \cup {<<Chunk, Null>>} : Call(d, upload[1], upload[2])
  \/ StartScript \/ TakeAnswer \/ TakeError \/ GiveUp \/ Rebind

Spec == Init /\ [][Next]_vars

\* The client's loop has a deadline and every other step of the script is a call.
FairSpec == Spec /\ WF_vars(TakeAnswer \/ TakeError \/ GiveUp) /\ WF_vars(Rebind)

-----------------------------------------------------------------------------
(* Properties.                                                              *)

TypeOK ==
  /\ documents \in [Docs -> Stored \cup {Null}]
  /\ runner \in Processes
  /\ items \in [Processes -> [Operations -> {"none", "running"} \cup Answers]]
  /\ current \in [Processes -> Operations \cup {Null}]
  /\ \A j \in DOMAIN jobs :
       jobs[j] \in [op : Operations, by : {"script", "other"}, version : Versions \cup {Chunk},
                    text : Texts \cup {Null}, content : Texts \cup {Null},
                    pc : {"queued", "begun", "writing", "settled", "answered", "raised", "lost"},
                    answer : {Null} \cup Answers]
  /\ script.pc \in {"idle", "rebinding"} \cup Waiting \cup Ended
  /\ script.at \in 0 .. Len(Candidates) /\ script.job \in 0 .. Len(jobs)

\* What call j asks for was published: by itself, or by a publication of its document
\* with its version or its text.
Held(j) ==
  \E row \in committed :
    /\ row.operation[1] = Doc(j)
    /\ row.operation = jobs[j].op \/ (~Rechunks(j) /\ Carries(row, jobs[j]))

\* Nobody is told of a success that did not happen: what was answered or is reported
\* as completed or idempotent was published, across retries, replays, supersession by
\* other versions, restarts and the two sources of a status.
SuccessIsCommitted ==
  /\ \A j \in DOMAIN jobs : jobs[j].answer \in {"completed", "idempotent"} => Held(j)
  /\ \A p \in Processes, o \in Operations :
       GetStatus(p, o) \in {"completed", "idempotent"} =>
         \E j \in DOMAIN jobs : jobs[j].op = o /\ Held(j)

\* What a process reports as running, also as the activity in its health, is running
\* in it, except after an exception that the boundary does not catch.
RunningIsRunning ==
  \A p \in Processes, o \in Operations :
    items[p][o] = "running" \/ current[p] = o =>
      \E j \in DOMAIN jobs : /\ jobs[j].op = o /\ p = runner
                             /\ jobs[j].pc \in {"begun", "writing", "settled", "raised"}

\* When the script is done, the document of each file it reported without a failure
\* holds the file, unless a publication without the file's version and text was committed
\* after that success (another caller's, or that of a file with the same name), and is
\* bound to the project, unless it was published after the rebind.
ReportedIsStored ==
  script.pc = "done" =>
    \A k \in DOMAIN Candidates :
      LET d == Candidates[k].doc
          j == script.calls[k]
      IN  j # 0 /\ jobs[j].answer \in {"completed", "idempotent"} =>
            /\ documents[d] # Null
            /\ j \notin overtaken => Carries(documents[d], Candidates[k])
            /\ d \notin replaced => documents[d].project # Null

\* Every run of the script ends, whatever the server does.
ScriptEnds == script.pc \in Waiting \cup {"rebinding"} ~> script.pc \in Ended

\* The code's word: processing_status returns a "Stable status"
\* (processing_status_command.py:92).
CompletedStaysCompleted ==
  [][\A o \in Operations : ProcessingStatus(o) = "completed" => ProcessingStatus(o)' # "failed"]_vars

\* The code's word: document_rebind will "Rebind an existing document to a project"
\* (document_rebind_command.py:38).
BoundStaysBound ==
  [][\A d \in Docs : documents[d] # Null /\ documents[d].project # Null => documents'[d].project # Null]_vars

\* The code's word: the script will "Import ordered docs files" (import_docs.py:2).
EveryFileIsImported ==
  script.pc = "done" =>
    \A k \in DOMAIN Candidates :
      LET j == script.calls[k]
      IN  j # 0 /\ jobs[j].answer \in {"completed", "idempotent"} =>
            \/ Carries(documents[Candidates[k].doc], Candidates[k])
            \/ \E i \in DOMAIN jobs : jobs[i].by = "other"

\* What the two sources of a status are worth to whoever asks.
StatusInv == TypeOK /\ SuccessIsCommitted /\ RunningIsRunning

=============================================================================
