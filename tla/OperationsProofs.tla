-------------------------- MODULE OperationsProofs --------------------------
(***************************************************************************)
(* What a reported status is worth, proved for any documents, files,       *)
(* callers and faults.                                                     *)
(*                                                                         *)
(* StatusInv is not inductive: a replay answers "idempotent" because of    *)
(* what is stored, so the stored rows must be known to have been           *)
(* committed.  ReportedIsStored needs that a success that was not          *)
(* overtaken is stored, which calls the script has taken for its files,    *)
(* and what it has bound up to the one it is at.                           *)
(***************************************************************************)
EXTENDS Operations, SequenceTheorems, TLAPS

Success == {"completed", "idempotent"}

JobType ==
  [op : Operations, by : {"script", "other"}, version : Versions \cup {Chunk},
   text : Texts \cup {Null}, content : Texts \cup {Null},
   pc : {"queued", "begun", "writing", "settled", "answered", "raised", "lost"},
   answer : {Null} \cup Answers]

ScriptType ==
  [pc : {"idle", "rebinding"} \cup Waiting \cup Ended, at : 0 .. Len(Candidates),
   job : Nat, update : BOOLEAN, stop : BOOLEAN,
   calls : [DOMAIN Candidates -> Nat]]

Types ==
  /\ documents \in [Docs -> Stored \cup {Null}]
  /\ runner \in Processes
  /\ items \in [Processes -> [Operations -> {"none", "running"} \cup Answers]]
  /\ current \in [Processes -> Operations \cup {Null}]
  /\ jobs \in Seq(JobType)
  /\ script \in ScriptType
  /\ script.job <= Len(jobs)
  /\ bounds \in [runs : Nat, other : Nat, faults : Nat]
  /\ committed \subseteq Stored
  /\ replaced \subseteq Docs

\* What the call asks for is among the rows, as Held says.
Asked(job, rows) ==
  \E row \in rows :
    /\ row.operation[1] = job.op[1]
    /\ row.operation = job.op \/ (job.op[2] # Chunk /\ Carries(row, job))

\* What is known of a call when the rows have been committed: its success, or the one
\* it is about to have, is among them, and an upload keeps what it was called with.
JobOK(job, rows) ==
  /\ job.answer \in Success => Asked(job, rows)
  /\ job.pc = "settled" => job.answer \in Success
  /\ job.pc = "writing" =>
       job.version \in Versions /\ job.text \in Texts /\ job.content \in Texts
  /\ job.op[2] # Chunk =>
       job.version = job.op[2] /\ job.text \in Texts /\ job.content = job.text

JobsOK == \A j \in DOMAIN jobs : JobOK(jobs[j], committed)

\* A publication as it was before the rebind.
Unbound(row) == [row EXCEPT !.project = Null]

\* What is stored was committed, for its document and by a call.
DocumentsOK ==
  /\ \A d \in Docs : documents[d] # Null =>
       Unbound(documents[d]) \in committed /\ documents[d].operation[1] = d
  /\ \A row \in committed : \E j \in DOMAIN jobs : jobs[j].op = row.operation

\* If the call is an upload that succeeded, it is stored.
Kept(job) ==
  job.answer \in Success /\ job.op[2] # Chunk =>
    documents[job.op[1]] # Null /\ Carries(documents[job.op[1]], job)

StoredOK == \A j \in DOMAIN jobs : j \notin overtaken => Kept(jobs[j])

ItemsOK ==
  \A p \in Processes, o \in Operations : items[p][o] \in Success =>
    \E j \in DOMAIN jobs : jobs[j].op = o /\ Asked(jobs[j], committed)

\* Call i uploads the file of candidate k.
UploadedIn(calls, i, k) ==
  /\ i \in DOMAIN calls
  /\ calls[i].op = <<Candidates[k].doc, Candidates[k].version>>
  /\ calls[i].version = Candidates[k].version /\ calls[i].text = Candidates[k].text

Uploaded(i, k) == UploadedIn(jobs, i, k)

ScriptOK ==
  /\ script.pc \in Waiting \cup {"rebinding"} => script.at \in DOMAIN Candidates
  /\ script.pc \in Waiting => Uploaded(script.job, script.at)
  /\ \A k \in DOMAIN Candidates : script.calls[k] # 0 => Uploaded(script.calls[k], k)

\* Candidate k is behind the script.
Passed(k) ==
  \/ script.pc = "done"
  \/ script.pc \in Waiting \cup {"rebinding"} /\ k < script.at

BoundOK ==
  \A k \in DOMAIN Candidates :
    Passed(k) /\ script.calls[k] # 0 =>
      LET d == Candidates[k].doc
      IN  documents[d] # Null /\ (d \notin replaced => documents[d].project # Null)

OperationsInv ==
  /\ Types /\ JobsOK /\ DocumentsOK /\ StoredOK /\ ItemsOK
  /\ RunningIsRunning /\ ScriptOK /\ BoundOK

-----------------------------------------------------------------------------
(* What the steps are made of.                                              *)

LEMMA AssumedOfCandidates ==
  /\ Candidates \in Seq(File)
  /\ \A k \in DOMAIN Candidates :
       /\ Candidates[k].doc \in Docs /\ Candidates[k].version \in Versions
       /\ Candidates[k].text \in Texts
<1>1. Candidates \in Seq(File) /\ \A k \in DOMAIN Candidates : Candidates[k] \in File
  BY OperationsAssumption, ElementOfSeq
<1> QED
  BY <1>1 DEF File

LEMMA OperationParts ==
  ASSUME NEW o \in Operations
  PROVE  /\ o[1] \in Docs /\ o[2] \in Versions \cup {Chunk}
         /\ o = <<o[1], o[2]>>
  BY DEF Operations

LEMMA JobTyped ==
  ASSUME Types, NEW j \in DOMAIN jobs
  PROVE  jobs[j] \in JobType
  BY ElementOfSeq DEF Types

\* A step keeps of a call what it was called with.
SameCall(new, old) ==
  /\ new.op = old.op /\ new.by = old.by
  /\ old.op[2] # Chunk => new.version = old.version /\ new.text = old.text

LEMMA AskedMore ==
  ASSUME NEW new, NEW old, NEW rows, NEW more, SameCall(new, old), rows \subseteq more,
         Asked(old, rows)
  PROVE  Asked(new, more)
  BY DEF SameCall, Asked, Carries

\* A step keeps every call.
Continues ==
  /\ jobs' \in Seq(JobType)
  /\ Len(jobs) <= Len(jobs')
  /\ \A i \in DOMAIN jobs : i \in DOMAIN jobs' /\ SameCall(jobs'[i], jobs[i])

\* One call goes on.
LEMMA OneJob ==
  ASSUME Types, NEW j \in DOMAIN jobs, NEW job \in JobType,
         jobs' = [jobs EXCEPT ![j] = job], SameCall(job, jobs[j])
  PROVE  /\ Continues
         /\ DOMAIN jobs' = DOMAIN jobs
         /\ jobs'[j] = job
         /\ \A i \in DOMAIN jobs \ {j} : jobs'[i] = jobs[i]
<1>1. jobs' \in Seq(JobType) /\ Len(jobs') = Len(jobs)
  BY ExceptSeq DEF Types
<1>2. DOMAIN jobs' = DOMAIN jobs /\ jobs'[j] = job /\ \A i \in DOMAIN jobs \ {j} : jobs'[i] = jobs[i]
  OBVIOUS
<1>3. Len(jobs) \in Nat
  BY LenProperties DEF Types
<1> QED
  BY <1>1, <1>2, <1>3 DEF Continues, SameCall

\* A handler changes the step and the answer of its call.
Alike(new, old) ==
  /\ new.op = old.op /\ new.by = old.by
  /\ new.version = old.version /\ new.text = old.text /\ new.content = old.content

LEMMA AlikeSame ==
  ASSUME NEW new, NEW old, Alike(new, old)
  PROVE  SameCall(new, old)
  BY DEF Alike, SameCall

\* How a handler moves its call on.
LEMMA MovedJob ==
  ASSUME Types, NEW j \in DOMAIN jobs, NEW pc, NEW answer,
         pc \in {"queued", "begun", "writing", "settled", "answered", "raised", "lost"},
         answer \in {Null} \cup Answers
  PROVE  \E job \in JobType :
           /\ Job(j, pc, answer) = [jobs EXCEPT ![j] = job]
           /\ job.pc = pc /\ job.answer = answer /\ Alike(job, jobs[j])
<1>1. jobs[j] \in JobType
  BY JobTyped
<1> DEFINE job == [jobs[j] EXCEPT !.pc = pc, !.answer = answer]
<1>2. /\ job \in JobType
      /\ job.pc = pc /\ job.answer = answer /\ Alike(job, jobs[j])
  BY <1>1 DEF JobType, Alike
<1>3. Job(j, pc, answer) = [jobs EXCEPT ![j] = job]
  BY DEF Job, Types
<1> QED
  BY <1>2, <1>3

\* A call is made.
LEMMA OneMore ==
  ASSUME Types, NEW job \in JobType, jobs' = Append(jobs, job)
  PROVE  /\ Continues
         /\ Len(jobs') = Len(jobs) + 1
         /\ DOMAIN jobs' = DOMAIN jobs \cup {Len(jobs) + 1}
         /\ jobs'[Len(jobs) + 1] = job
         /\ \A i \in DOMAIN jobs : jobs'[i] = jobs[i]
<1>1. jobs \in Seq(JobType) /\ Len(jobs) \in Nat /\ DOMAIN jobs = 1 .. Len(jobs)
  BY LenProperties DEF Types
<1>2. /\ jobs' \in Seq(JobType) /\ Len(jobs') = Len(jobs) + 1
      /\ \A i \in 1 .. Len(jobs) : jobs'[i] = jobs[i]
      /\ jobs'[Len(jobs) + 1] = job
  BY <1>1, AppendProperties
<1>3. DOMAIN jobs' = 1 .. Len(jobs')
  BY <1>2, LenProperties
<1> QED
  BY <1>1, <1>2, <1>3 DEF Continues, SameCall

\* InMemoryRuntimeStatus.record
LEMMA RecordedIs ==
  ASSUME Types, NEW p \in Processes, NEW o \in Operations, NEW status \in {"running"} \cup Answers,
         Recorded(p, o, status)
  PROVE  /\ items' \in [Processes -> [Operations -> {"none", "running"} \cup Answers]]
         /\ current' \in [Processes -> Operations \cup {Null}]
         /\ \A q \in Processes, x \in Operations :
              items'[q][x] = IF q = p /\ x = o THEN status ELSE items[q][x]
         /\ \A q \in Processes :
              current'[q] = IF q # p THEN current[q]
                            ELSE IF status = "running" THEN o
                            ELSE IF current[q] = o THEN Null ELSE current[q]
  BY DEF Types, Recorded

-----------------------------------------------------------------------------
(* What a step that leaves something alone keeps.                           *)

LEMMA JobMore ==
  ASSUME NEW job, NEW done, NEW more, done \subseteq more, JobOK(job, done)
  PROVE  JobOK(job, more)
  BY DEF JobOK, Asked

LEMMA JobsMoved ==
  ASSUME Types, JobsOK, NEW j \in DOMAIN jobs, NEW job \in JobType,
         jobs' = [jobs EXCEPT ![j] = job], SameCall(job, jobs[j]),
         committed \subseteq committed', JobOK(job, committed')
  PROVE  JobsOK'
<1>1. DOMAIN jobs' = DOMAIN jobs /\ jobs'[j] = job /\ \A i \in DOMAIN jobs \ {j} : jobs'[i] = jobs[i]
  BY OneJob
<1>2. ASSUME NEW i \in DOMAIN jobs \ {j}
      PROVE  JobOK(jobs'[i], committed')
  BY <1>1, <1>2, JobMore DEF JobsOK
<1> QED
  BY <1>1, <1>2 DEF JobsOK

LEMMA JobsMore ==
  ASSUME Types, JobsOK, NEW job \in JobType, jobs' = Append(jobs, job),
         committed' = committed, JobOK(job, committed)
  PROVE  JobsOK'
<1>1. /\ DOMAIN jobs' = DOMAIN jobs \cup {Len(jobs) + 1} /\ jobs'[Len(jobs) + 1] = job
      /\ \A i \in DOMAIN jobs : jobs'[i] = jobs[i]
  BY OneMore
<1> QED
  BY <1>1 DEF JobsOK

LEMMA DocumentsKept ==
  ASSUME Types, DocumentsOK, Continues, UNCHANGED <<documents, committed>>
  PROVE  DocumentsOK'
<1>1. \A row \in committed : \E j \in DOMAIN jobs' : jobs'[j].op = row.operation
  BY DEF DocumentsOK, Continues, SameCall
<1> QED
  BY <1>1 DEF DocumentsOK

\* One call moves on, and what it has succeeded with is stored.
LEMMA StoredMoved ==
  ASSUME Types, StoredOK, NEW j \in DOMAIN jobs, NEW job \in JobType,
         jobs' = [jobs EXCEPT ![j] = job], SameCall(job, jobs[j]),
         j \notin overtaken => Kept(job), UNCHANGED <<documents, overtaken>>
  PROVE  StoredOK'
<1>1. DOMAIN jobs' = DOMAIN jobs /\ jobs'[j] = job /\ \A i \in DOMAIN jobs \ {j} : jobs'[i] = jobs[i]
  BY OneJob
<1>2. \A i \in DOMAIN jobs : i \notin overtaken => Kept(jobs'[i])
  BY <1>1 DEF StoredOK
<1> QED
  BY <1>1, <1>2 DEF StoredOK, Kept

LEMMA ItemsKept ==
  ASSUME ItemsOK, Continues, items' = items, committed \subseteq committed'
  PROVE  ItemsOK'
<1> SUFFICES ASSUME NEW p \in Processes, NEW o \in Operations, items[p][o] \in Success
             PROVE  \E j \in DOMAIN jobs' : jobs'[j].op = o /\ Asked(jobs'[j], committed')
  BY DEF ItemsOK
<1>1. PICK j \in DOMAIN jobs : jobs[j].op = o /\ Asked(jobs[j], committed)
  BY DEF ItemsOK
<1>2. j \in DOMAIN jobs' /\ SameCall(jobs'[j], jobs[j])
  BY DEF Continues
<1>3. Asked(jobs'[j], committed')
  BY <1>1, <1>2, AskedMore
<1> QED
  BY <1>1, <1>2, <1>3 DEF SameCall

LEMMA BoundKept ==
  ASSUME BoundOK, UNCHANGED <<documents, script, replaced>>
  PROVE  BoundOK'
  BY DEF BoundOK, Passed

LEMMA UploadedStill ==
  ASSUME Continues, NEW i, NEW k \in DOMAIN Candidates, Uploaded(i, k)
  PROVE  UploadedIn(jobs', i, k)
<1>1. jobs[i].op[2] # Chunk
  BY AssumedOfCandidates, OperationsAssumption DEF Uploaded, UploadedIn
<1> QED
  BY <1>1 DEF Continues, SameCall, Uploaded, UploadedIn

LEMMA ScriptKept ==
  ASSUME Types, ScriptOK, Continues, UNCHANGED script
  PROVE  ScriptOK' /\ script'.job <= Len(jobs')
<1>1. Len(jobs) \in Nat /\ Len(jobs') \in Nat
  BY LenProperties DEF Types, Continues
<1>2. script'.job <= Len(jobs')
  BY <1>1 DEF Types, ScriptType, Continues
<1>3. ScriptOK'
  BY UploadedStill DEF ScriptOK, Uploaded
<1> QED
  BY <1>2, <1>3

\* The steps of its handler in which a call is running.
Busy == {"begun", "writing", "settled", "raised"}

LEMMA RunningMoved ==
  ASSUME Types, RunningIsRunning, NEW j \in DOMAIN jobs, NEW job \in JobType,
         jobs' = [jobs EXCEPT ![j] = job], SameCall(job, jobs[j]),
         job.pc \in Busy, UNCHANGED <<runner, items, current>>
  PROVE  RunningIsRunning'
<1>1. DOMAIN jobs' = DOMAIN jobs /\ jobs'[j] = job /\ \A i \in DOMAIN jobs \ {j} : jobs'[i] = jobs[i]
  BY OneJob
<1> SUFFICES ASSUME NEW p \in Processes, NEW o \in Operations, items[p][o] = "running" \/ current[p] = o
             PROVE  \E i \in DOMAIN jobs' : /\ jobs'[i].op = o /\ p = runner
                                            /\ jobs'[i].pc \in Busy
  BY DEF RunningIsRunning, Busy
<1>2. PICK i \in DOMAIN jobs : jobs[i].op = o /\ p = runner /\ jobs[i].pc \in Busy
  BY DEF RunningIsRunning, Busy
<1>3. jobs'[i].op = o /\ jobs'[i].pc \in Busy
  BY <1>1, <1>2 DEF SameCall
<1> QED
  BY <1>1, <1>2, <1>3

\* The answer is recorded: the operation is not running any more, here or there.
LEMMA RunningRecorded ==
  ASSUME Types, RunningIsRunning, NEW j \in DOMAIN jobs, NEW job \in JobType,
         jobs' = [jobs EXCEPT ![j] = job], SameCall(job, jobs[j]),
         NEW status \in Answers, Recorded(runner, jobs[j].op, status), UNCHANGED runner
  PROVE  RunningIsRunning'
<1>1. DOMAIN jobs' = DOMAIN jobs /\ jobs'[j] = job /\ \A i \in DOMAIN jobs \ {j} : jobs'[i] = jobs[i]
  BY OneJob
<1>2. jobs[j].op \in Operations /\ runner \in Processes
  BY JobTyped DEF JobType, Types
<1>3. /\ \A q \in Processes, x \in Operations :
           items'[q][x] = IF q = runner /\ x = jobs[j].op THEN status ELSE items[q][x]
      /\ \A q \in Processes :
           current'[q] = IF q # runner THEN current[q]
                         ELSE IF status = "running" THEN jobs[j].op
                         ELSE IF current[q] = jobs[j].op THEN Null ELSE current[q]
  BY <1>2, RecordedIs DEF Answers
<1>4. status # "running" /\ Null \notin Operations
  BY NullAssumption DEF Answers
<1> SUFFICES ASSUME NEW p \in Processes, NEW o \in Operations, items'[p][o] = "running" \/ current'[p] = o
             PROVE  \E i \in DOMAIN jobs' : /\ jobs'[i].op = o /\ p = runner
                                            /\ jobs'[i].pc \in Busy
  BY DEF RunningIsRunning, Busy
<1>5. items[p][o] = "running" \/ current[p] = o
  BY <1>3, <1>4
<1>6. PICK i \in DOMAIN jobs : jobs[i].op = o /\ p = runner /\ jobs[i].pc \in Busy
  BY <1>5 DEF RunningIsRunning, Busy
<1>7. i # j
  BY <1>3, <1>4, <1>6
<1> QED
  BY <1>1, <1>6, <1>7

LEMMA ItemsRecorded ==
  ASSUME Types, ItemsOK, NEW p \in Processes, NEW o \in Operations, NEW status \in {"running"} \cup Answers,
         Recorded(p, o, status), Continues, committed' = committed,
         NEW i \in DOMAIN jobs, jobs[i].op = o, status \in Success => Asked(jobs[i], committed)
  PROVE  ItemsOK'
<1> SUFFICES ASSUME NEW q \in Processes, NEW x \in Operations, items'[q][x] \in Success
             PROVE  \E j \in DOMAIN jobs' : jobs'[j].op = x /\ Asked(jobs'[j], committed')
  BY DEF ItemsOK
<1>1. PICK j \in DOMAIN jobs : jobs[j].op = x /\ Asked(jobs[j], committed)
  <2>1. CASE q = p /\ x = o
    BY <2>1, RecordedIs
  <2>2. CASE ~(q = p /\ x = o)
    BY <2>2, RecordedIs DEF ItemsOK
  <2> QED
    BY <2>1, <2>2
<1>2. j \in DOMAIN jobs' /\ SameCall(jobs'[j], jobs[j])
  BY DEF Continues
<1>3. Asked(jobs'[j], committed')
  BY <1>1, <1>2, AskedMore
<1> QED
  BY <1>1, <1>2, <1>3 DEF SameCall

-----------------------------------------------------------------------------
(* The handlers.                                                            *)

LEMMA BeginKeeps ==
  ASSUME OperationsInv, NEW j \in DOMAIN jobs, Begin(j)
  PROVE  OperationsInv'
<1>0. Types /\ jobs' = Job(j, "begun", Null)
  BY DEF OperationsInv, Begin
<1>1. PICK job \in JobType :
           /\ jobs' = [jobs EXCEPT ![j] = job]
           /\ job.pc = "begun" /\ job.answer = Null
           /\ Alike(job, jobs[j]) /\ SameCall(job, jobs[j])
  BY <1>0, MovedJob, AlikeSame
<1>2. Continues /\ DOMAIN jobs' = DOMAIN jobs /\ jobs'[j] = job
      /\ \A i \in DOMAIN jobs \ {j} : jobs'[i] = jobs[i]
  BY <1>1, OneJob DEF OperationsInv
<1>3. jobs[j].op \in Operations /\ runner \in Processes
  BY JobTyped DEF OperationsInv, JobType, Types
<1>4. UNCHANGED <<documents, runner, script, bounds, committed, overtaken, replaced>>
      /\ Recorded(runner, jobs[j].op, "running")
  BY DEF Begin, history
<1>5. /\ items' \in [Processes -> [Operations -> {"none", "running"} \cup Answers]]
      /\ current' \in [Processes -> Operations \cup {Null}]
      /\ \A q \in Processes, x \in Operations :
           items'[q][x] = IF q = runner /\ x = jobs[j].op THEN "running" ELSE items[q][x]
      /\ \A q \in Processes : current'[q] = IF q # runner THEN current[q] ELSE jobs[j].op
  BY <1>3, <1>4, RecordedIs DEF OperationsInv
<1>6. ScriptOK' /\ script'.job <= Len(jobs')
  BY <1>2, <1>4, ScriptKept DEF OperationsInv
<1>7. Types'
  BY <1>2, <1>4, <1>5, <1>6 DEF OperationsInv, Types, Continues
<1>8. JobOK(job, committed')
  <2>1. JobOK(jobs[j], committed) /\ Null \notin Success
    BY NullAssumption DEF OperationsInv, JobsOK, Success, Answers
  <2> QED
    BY <1>1, <1>4, <2>1 DEF JobOK, Alike
<1>9. JobsOK'
  BY <1>1, <1>4, <1>8, JobsMoved DEF OperationsInv
<1>10. DocumentsOK' /\ BoundOK'
  BY <1>2, <1>4, DocumentsKept, BoundKept DEF OperationsInv
<1>11. ItemsOK'
  BY <1>2, <1>3, <1>4, ItemsRecorded DEF OperationsInv, Success
<1>12. RunningIsRunning'
  <2> SUFFICES ASSUME NEW p \in Processes, NEW o \in Operations, items'[p][o] = "running" \/ current'[p] = o
               PROVE  \E i \in DOMAIN jobs' : /\ jobs'[i].op = o /\ p = runner
                                              /\ jobs'[i].pc \in Busy
    BY <1>4 DEF RunningIsRunning, Busy
  <2>1. CASE p = runner /\ o = jobs[j].op
    BY <1>1, <1>2, <2>1 DEF Busy, SameCall
  <2>2. CASE ~(p = runner /\ o = jobs[j].op)
    <3>1. items[p][o] = "running" \/ current[p] = o
      BY <1>5, <2>2
    <3>2. PICK i \in DOMAIN jobs : jobs[i].op = o /\ p = runner /\ jobs[i].pc \in Busy
      BY <3>1 DEF OperationsInv, RunningIsRunning, Busy
    <3> QED
      BY <1>2, <2>2, <3>2
  <2> QED
    BY <2>1, <2>2
<1>13. StoredOK'
  <2>1. Kept(job)
    BY <1>1, NullAssumption DEF Kept, Success, Answers
  <2> QED
    BY <1>1, <1>4, <2>1, StoredMoved DEF OperationsInv
<1> QED
  BY <1>6, <1>7, <1>9, <1>10, <1>11, <1>12, <1>13 DEF OperationsInv

\* What Finish, and the two ways to fail, have in common: the answer is recorded.
LEMMA AnsweredKeeps ==
  ASSUME OperationsInv, NEW j \in DOMAIN jobs, NEW answer \in Answers,
         jobs' = Job(j, "answered", answer), Recorded(runner, jobs[j].op, answer),
         answer = "failed" \/ answer = jobs[j].answer,
         UNCHANGED <<documents, runner, script, history>>,
         bounds' \in [runs : Nat, other : Nat, faults : Nat]
  PROVE  OperationsInv'
<1>0. Types /\ jobs' = Job(j, "answered", answer) /\ UNCHANGED <<committed, overtaken, replaced>>
  BY DEF OperationsInv, history
<1>1. PICK job \in JobType :
           /\ jobs' = [jobs EXCEPT ![j] = job]
           /\ job.pc = "answered" /\ job.answer = answer
           /\ Alike(job, jobs[j]) /\ SameCall(job, jobs[j])
  BY <1>0, MovedJob, AlikeSame
<1>2. Continues
  BY <1>1, OneJob DEF OperationsInv
<1>3. jobs[j].op \in Operations /\ runner \in Processes
  BY JobTyped DEF OperationsInv, JobType, Types
<1>4. /\ JobOK(jobs[j], committed)
      /\ j \notin overtaken => Kept(jobs[j])
      /\ "failed" \notin Success
  BY DEF OperationsInv, JobsOK, StoredOK, Success
<1>5. /\ items' \in [Processes -> [Operations -> {"none", "running"} \cup Answers]]
      /\ current' \in [Processes -> Operations \cup {Null}]
  BY <1>3, RecordedIs DEF OperationsInv
<1>6. ScriptOK' /\ script'.job <= Len(jobs')
  BY <1>2, ScriptKept DEF OperationsInv
<1>7. Types'
  BY <1>0, <1>2, <1>5, <1>6 DEF OperationsInv, Types, Continues
<1>8. JobOK(job, committed')
  BY <1>0, <1>1, <1>4 DEF JobOK, Asked, Carries, Alike
<1>9. JobsOK'
  BY <1>0, <1>1, <1>8, JobsMoved DEF OperationsInv
<1>10. DocumentsOK' /\ BoundOK'
  BY <1>0, <1>2, DocumentsKept, BoundKept DEF OperationsInv
<1>11. ItemsOK'
  <2>1. answer \in Success => Asked(jobs[j], committed)
    BY <1>4 DEF JobOK
  <2> QED
    BY <1>0, <1>2, <1>3, <2>1, ItemsRecorded DEF OperationsInv
<1>12. RunningIsRunning'
  BY <1>1, RunningRecorded DEF OperationsInv
<1>13. StoredOK'
  <2>1. j \notin overtaken => Kept(job)
    BY <1>1, <1>4 DEF Kept, Carries, Alike
  <2> QED
    BY <1>0, <1>1, <2>1, StoredMoved DEF OperationsInv
<1> QED
  BY <1>6, <1>7, <1>9, <1>10, <1>11, <1>12, <1>13 DEF OperationsInv

LEMMA FinishKeeps ==
  ASSUME OperationsInv, NEW j \in DOMAIN jobs, Finish(j)
  PROVE  OperationsInv'
<1>1. jobs[j].answer \in Success
  BY DEF OperationsInv, JobsOK, JobOK, Finish
<1>2. jobs[j].answer \in Answers
  BY <1>1 DEF Success, Answers
<1> QED
  BY <1>1, <1>2, AnsweredKeeps DEF Finish, OperationsInv, Types

LEMMA FaultSpent ==
  ASSUME Types, Fault \/ UNCHANGED bounds
  PROVE  bounds' \in [runs : Nat, other : Nat, faults : Nat]
  BY DEF Types, Fault

LEMMA FailKeeps ==
  ASSUME OperationsInv, NEW j \in DOMAIN jobs, Fail(j)
  PROVE  OperationsInv'
<1>1. bounds' \in [runs : Nat, other : Nat, faults : Nat]
  BY FaultSpent DEF Fail, OperationsInv
<1>2. "failed" \in Answers
  BY DEF Answers
<1> QED
  BY <1>1, <1>2, AnsweredKeeps DEF Fail

\* Lookup and Raise touch only the call, which stays busy.
LEMMA BusyKeeps ==
  ASSUME OperationsInv, NEW j \in DOMAIN jobs, NEW job \in JobType,
         jobs' = [jobs EXCEPT ![j] = job], SameCall(job, jobs[j]),
         job.pc \in Busy, JobOK(job, committed), Kept(job),
         UNCHANGED <<server, runner, script>>,
         bounds' \in [runs : Nat, other : Nat, faults : Nat]
  PROVE  OperationsInv'
<1>1. UNCHANGED <<documents, items, current, committed, overtaken, replaced>>
  BY DEF server, history
<1>2. Continues
  BY OneJob DEF OperationsInv
<1>3. ScriptOK' /\ script'.job <= Len(jobs')
  BY <1>2, ScriptKept DEF OperationsInv
<1>4. Types'
  BY <1>1, <1>2, <1>3 DEF OperationsInv, Types, Continues
<1>5. JobsOK'
  BY <1>1, JobsMoved DEF OperationsInv
<1>6. DocumentsOK' /\ BoundOK'
  BY <1>1, <1>2, DocumentsKept, BoundKept DEF OperationsInv
<1>7. ItemsOK'
  BY <1>1, <1>2, ItemsKept DEF OperationsInv
<1>8. RunningIsRunning'
  BY <1>1, RunningMoved DEF OperationsInv
<1>9. StoredOK'
  BY <1>1, StoredMoved DEF OperationsInv
<1> QED
  BY <1>3, <1>4, <1>5, <1>6, <1>7, <1>8, <1>9 DEF OperationsInv

\* The row is of the document and was committed with the same version and text.
LEMMA StoredRow ==
  ASSUME OperationsInv, NEW d \in Docs, documents[d] # Null
  PROVE  /\ documents[d] \in Stored
         /\ \E row \in committed :
              /\ row.operation = documents[d].operation /\ row.operation[1] = d
              /\ row.version = documents[d].version /\ row.text = documents[d].text
              /\ row.content = documents[d].content
<1>1. documents[d] \in Stored /\ Unbound(documents[d]) \in committed /\ documents[d].operation[1] = d
  BY DEF OperationsInv, DocumentsOK, Types
<1> DEFINE row == Unbound(documents[d])
<1>2. /\ row.operation = documents[d].operation
      /\ row.version = documents[d].version /\ row.text = documents[d].text
      /\ row.content = documents[d].content
  BY <1>1 DEF Unbound, Stored
<1> QED
  BY <1>1, <1>2

LEMMA LookupKeeps ==
  ASSUME OperationsInv, NEW j \in DOMAIN jobs, Lookup(j)
  PROVE  OperationsInv'
<1>1. Types /\ jobs[j] \in JobType /\ JobOK(jobs[j], committed) /\ UNCHANGED <<server, runner, script, bounds>>
  BY JobTyped DEF OperationsInv, JobsOK, Lookup
<1>2. jobs[j].op \in Operations /\ Doc(j) \in Docs /\ jobs[j].op[1] = Doc(j)
  BY <1>1, OperationParts DEF JobType, Doc
<1>3. bounds' \in [runs : Nat, other : Nat, faults : Nat]
  BY <1>1 DEF Types
<1>4. Null \notin Success
  BY NullAssumption DEF Success, Answers
<1>5. ASSUME NEW flags, NEW named, NEW answer \in Replayed(j, flags, named),
             jobs' = Job(j, "settled", answer)
      PROVE  OperationsInv'
  <2>1. /\ answer \in Success /\ answer \in Answers /\ ~Rechunks(j) /\ documents[Doc(j)] # Null
        /\ SameVersion(j) \/ SameFile(j)
    BY <1>5 DEF Success, Answers, Replayed
  <2>2. PICK job \in JobType :
          /\ jobs' = [jobs EXCEPT ![j] = job]
          /\ job.pc = "settled" /\ job.answer = answer
          /\ Alike(job, jobs[j]) /\ SameCall(job, jobs[j])
    BY <1>1, <1>5, <2>1, MovedJob, AlikeSame
  <2>3. Carries(documents[Doc(j)], job)
    BY <1>1, <2>1, <2>2 DEF Carries, SameVersion, SameFile, JobOK, Rechunks, Alike
  <2>4. Asked(job, committed)
    <3>1. PICK row \in committed :
            /\ row.operation[1] = Doc(j)
            /\ row.version = documents[Doc(j)].version /\ row.text = documents[Doc(j)].text
            /\ row.content = documents[Doc(j)].content
      BY <1>2, <2>1, StoredRow
    <3> QED
      BY <1>2, <2>1, <2>2, <2>3, <3>1 DEF Asked, Carries, Alike, Rechunks
  <2>5. JobOK(job, committed)
    BY <1>1, <2>1, <2>2, <2>4 DEF JobOK, Alike
  <2>6. Kept(job)
    BY <1>2, <2>1, <2>2, <2>3 DEF Kept, Alike
  <2> QED
    BY <1>1, <1>3, <2>2, <2>5, <2>6, BusyKeeps DEF Busy
<1>6. ASSUME ~Rechunks(j), jobs' = Job(j, "writing", Null)
      PROVE  OperationsInv'
  <2>1. PICK job \in JobType :
          /\ jobs' = [jobs EXCEPT ![j] = job]
          /\ job.pc = "writing" /\ job.answer = Null
          /\ Alike(job, jobs[j]) /\ SameCall(job, jobs[j])
    BY <1>1, <1>6, MovedJob, AlikeSame
  <2>2. jobs[j].op[2] \in Versions
    BY <1>2, <1>6, OperationParts DEF Rechunks
  <2>3. JobOK(job, committed) /\ Kept(job)
    BY <1>1, <1>4, <1>6, <2>1, <2>2 DEF JobOK, Kept, Alike, Rechunks
  <2> QED
    BY <1>1, <1>3, <2>1, <2>3, BusyKeeps DEF Busy
<1>7. ASSUME Rechunks(j), documents[Doc(j)] # Null, NEW text \in Texts,
             jobs' = [Job(j, "writing", Null) EXCEPT
                        ![j].version = documents[Doc(j)].version,
                        ![j].text = text, ![j].content = documents[Doc(j)].text]
      PROVE  OperationsInv'
  <2>1. PICK moved \in JobType :
          /\ Job(j, "writing", Null) = [jobs EXCEPT ![j] = moved]
          /\ moved.pc = "writing" /\ moved.answer = Null /\ Alike(moved, jobs[j])
    BY <1>1, MovedJob
  <2>2. PICK version \in Versions, content \in Texts :
          version = documents[Doc(j)].version /\ content = documents[Doc(j)].text
    BY <1>2, <1>7, StoredRow DEF Stored
  <2>3. PICK job : job = [moved EXCEPT !.version = version, !.text = text, !.content = content]
    OBVIOUS
  <2>4. /\ job \in JobType /\ job.pc = "writing" /\ job.answer = Null
        /\ job.op = jobs[j].op /\ job.by = jobs[j].by
        /\ job.version = version /\ job.text = text /\ job.content = content
    BY <2>1, <2>3 DEF JobType, Alike
  <2>5. jobs' = [jobs EXCEPT ![j] = job]
    BY <1>7, <2>1, <2>2, <2>3
  <2>6. jobs[j].op[2] = Chunk
    BY <1>7 DEF Rechunks
  <2>7. SameCall(job, jobs[j]) /\ JobOK(job, committed) /\ Kept(job)
    BY <1>4, <2>4, <2>6 DEF SameCall, JobOK, Kept
  <2> QED
    BY <1>1, <1>3, <2>4, <2>5, <2>7, BusyKeeps DEF Busy
<1> QED
  BY <1>5, <1>6, <1>7 DEF Lookup

LEMMA RaiseKeeps ==
  ASSUME OperationsInv, NEW j \in DOMAIN jobs, Raise(j)
  PROVE  OperationsInv'
<1>1. Types /\ "failed" \in Answers /\ "failed" \notin Success
  BY DEF OperationsInv, Answers, Success
<1>2. PICK job \in JobType :
        /\ jobs' = [jobs EXCEPT ![j] = job]
        /\ job.pc = "raised" /\ job.answer = "failed"
        /\ Alike(job, jobs[j]) /\ SameCall(job, jobs[j])
  BY <1>1, MovedJob, AlikeSame DEF Raise
<1>3. JobOK(jobs[j], committed)
  BY DEF OperationsInv, JobsOK
<1>4. JobOK(job, committed) /\ Kept(job)
  BY <1>1, <1>2, <1>3 DEF JobOK, Kept, Alike
<1>5. bounds' \in [runs : Nat, other : Nat, faults : Nat]
  BY <1>1, FaultSpent DEF Raise
<1> QED
  BY <1>2, <1>4, <1>5, BusyKeeps DEF Raise, Busy

\* publish_transaction
LEMMA PublishKeeps ==
  ASSUME OperationsInv, NEW j \in DOMAIN jobs, Publish(j)
  PROVE  OperationsInv'
<1>1. Types /\ jobs[j] \in JobType /\ JobOK(jobs[j], committed) /\ jobs[j].pc = "writing"
  BY JobTyped DEF OperationsInv, JobsOK, Publish
<1>2. PICK d \in Docs : d = Doc(j) /\ d = jobs[j].op[1]
  BY <1>1, OperationParts DEF JobType, Doc
<1>3. PICK o \in Operations : o = jobs[j].op
  BY <1>1 DEF JobType
<1>4. PICK stored \in Stored :
        /\ stored = Written(j) /\ stored.version = jobs[j].version
        /\ stored.operation = o /\ stored.project = Null
  <2>1. PICK v \in Versions, t \in Texts, c \in Texts :
          v = jobs[j].version /\ t = jobs[j].text /\ c = jobs[j].content
    BY <1>1 DEF JobOK
  <2>2. [version |-> v, text |-> t, content |-> c, operation |-> o, project |-> Null] \in Stored
    BY DEF Stored
  <2> QED
    BY <1>3, <2>1, <2>2 DEF Written
<1>5. /\ documents' = [documents EXCEPT ![d] = stored]
      /\ committed' = committed \cup {stored}
      /\ replaced' = IF documents[d] # Null /\ documents[d].project # Null
                     THEN replaced \cup {d} ELSE replaced
      /\ jobs' = Job(j, "settled", "completed")
      /\ UNCHANGED <<runner, items, current, script, bounds>>
  BY <1>2, <1>4 DEF Publish
<1>6. /\ overtaken \subseteq overtaken'
      /\ \A i \in DOMAIN jobs :
           /\ jobs[i].op[1] = d /\ jobs[i].answer \in Success /\ i \notin overtaken'
           => Carries(stored, jobs[i])
  BY <1>2, <1>4 DEF Publish, Doc, Success
<1>7. PICK job \in JobType :
           /\ jobs' = [jobs EXCEPT ![j] = job]
           /\ job.pc = "settled" /\ job.answer = "completed"
           /\ Alike(job, jobs[j]) /\ SameCall(job, jobs[j])
  BY <1>1, <1>5, MovedJob, AlikeSame DEF Answers
<1>8. Continues /\ DOMAIN jobs' = DOMAIN jobs /\ jobs'[j] = job
      /\ \A i \in DOMAIN jobs \ {j} : jobs'[i] = jobs[i]
  BY <1>1, <1>7, OneJob
<1>9. ScriptOK' /\ script'.job <= Len(jobs')
  BY <1>5, <1>8, ScriptKept DEF OperationsInv
<1>10. /\ documents' \in [Docs -> Stored \cup {Null}] /\ committed' \subseteq Stored
       /\ replaced' \subseteq Docs
       /\ documents'[d] = stored /\ \A e \in Docs \ {d} : documents'[e] = documents[e]
  BY <1>1, <1>5 DEF Types
<1>11. Types'
  BY <1>1, <1>5, <1>8, <1>9, <1>10 DEF Types, Continues
<1>12. JobOK(job, committed')
  <2>1. Asked(job, committed')
    BY <1>2, <1>3, <1>4, <1>5, <1>7 DEF Asked, Alike
  <2> QED
    BY <1>1, <1>7, <2>1 DEF JobOK, Alike, Success
<1>13. JobsOK'
  BY <1>1, <1>5, <1>7, <1>12, JobsMoved DEF OperationsInv
<1>14. stored # Null
  BY NullAssumption
<1>15. DocumentsOK'
  <2>1. ASSUME NEW e \in Docs, documents'[e] # Null
        PROVE  Unbound(documents'[e]) \in committed' /\ documents'[e].operation[1] = e
    <3>1. CASE e = d
      <4>1. Unbound(stored) = stored
        BY <1>4 DEF Unbound, Stored
      <4> QED
        BY <1>2, <1>3, <1>4, <1>5, <1>10, <3>1, <4>1
    <3>2. CASE e # d
      BY <1>5, <1>10, <2>1, <3>2 DEF OperationsInv, DocumentsOK
    <3> QED
      BY <3>1, <3>2
  <2>2. ASSUME NEW row \in committed'
        PROVE  \E i \in DOMAIN jobs' : jobs'[i].op = row.operation
    <3>1. \E i \in DOMAIN jobs : jobs[i].op = row.operation
      BY <1>3, <1>4, <1>5, <2>2 DEF OperationsInv, DocumentsOK
    <3> QED
      BY <1>8, <3>1 DEF Continues, SameCall
  <2> QED
    BY <2>1, <2>2 DEF DocumentsOK
<1>16. ItemsOK'
  BY <1>5, <1>8, ItemsKept DEF OperationsInv
<1>17. RunningIsRunning'
  BY <1>1, <1>5, <1>7, RunningMoved DEF OperationsInv, Busy
<1>18. BoundOK'
  <2> SUFFICES ASSUME NEW k \in DOMAIN Candidates, Passed(k)', script'.calls[k] # 0
               PROVE  /\ documents'[Candidates[k].doc] # Null
                      /\ Candidates[k].doc \notin replaced' => documents'[Candidates[k].doc].project # Null
    BY DEF BoundOK
  <2>1. PICK e \in Docs : e = Candidates[k].doc
    BY AssumedOfCandidates
  <2>2. documents[e] # Null /\ (e \notin replaced => documents[e].project # Null)
    BY <1>5, <2>1 DEF OperationsInv, BoundOK, Passed
  <2>3. CASE e = d
    BY <1>5, <1>10, <1>14, <2>1, <2>2, <2>3
  <2>4. CASE e # d
    BY <1>5, <1>10, <2>1, <2>2, <2>4
  <2> QED
    BY <2>3, <2>4
<1>19. StoredOK'
  <2> SUFFICES ASSUME NEW i \in DOMAIN jobs, i \notin overtaken', jobs'[i].answer \in Success,
                      jobs'[i].op[2] # Chunk
               PROVE  /\ documents'[jobs'[i].op[1]] # Null
                      /\ Carries(documents'[jobs'[i].op[1]], jobs'[i])
    BY <1>8 DEF StoredOK, Kept
  <2>1. jobs[i].op \in Operations /\ jobs[i].op[1] \in Docs
    BY <1>1, JobTyped, OperationParts DEF JobType
  <2>2. CASE i = j
    BY <1>2, <1>4, <1>7, <1>8, <1>10, <1>14, <2>2 DEF Carries, Alike
  <2>3. CASE i # j /\ jobs[i].op[1] = d
    BY <1>6, <1>8, <1>10, <1>14, <2>3
  <2>4. CASE i # j /\ jobs[i].op[1] # d
    BY <1>6, <1>8, <1>10, <2>1, <2>4 DEF OperationsInv, StoredOK, Kept
  <2> QED
    BY <2>2, <2>3, <2>4
<1> QED
  BY <1>9, <1>11, <1>13, <1>15, <1>16, <1>17, <1>18, <1>19 DEF OperationsInv

\* A restart forgets the calls that had no answer and the registry.
LEMMA CrashKeeps ==
  ASSUME OperationsInv, Crash
  PROVE  OperationsInv'
<1>1. Types /\ Len(jobs) \in Nat /\ DOMAIN jobs = 1 .. Len(jobs)
  BY LenProperties DEF OperationsInv, Types
<1>2. /\ DOMAIN jobs' = DOMAIN jobs
      /\ \A i \in DOMAIN jobs :
           jobs'[i] = IF jobs[i].pc \in {"answered", "raised"} THEN jobs[i]
                      ELSE [jobs[i] EXCEPT !.pc = "lost"]
  BY DEF Crash
<1>3. ASSUME NEW i \in DOMAIN jobs
      PROVE  /\ jobs'[i] \in JobType /\ Alike(jobs'[i], jobs[i]) /\ SameCall(jobs'[i], jobs[i])
             /\ jobs'[i].answer = jobs[i].answer
             /\ jobs'[i].pc \in {"answered", "raised", "lost"}
  <2>1. jobs[i] \in JobType
    BY <1>1, JobTyped
  <2> QED
    BY <1>2, <2>1 DEF JobType, Alike, SameCall
<1>4. jobs' \in Seq(JobType) /\ Len(jobs') = Len(jobs)
  <2>1. jobs' = [i \in 1 .. Len(jobs) |-> jobs'[i]]
    BY <1>1 DEF Crash
  <2> QED
    BY <1>1, <1>2, <1>3, <2>1, IsASeq, LenProperties
<1>5. Continues
  BY <1>1, <1>2, <1>3, <1>4 DEF Continues
<1>6. /\ UNCHANGED <<documents, runner, script, committed, overtaken, replaced>>
      /\ bounds' \in [runs : Nat, other : Nat, faults : Nat]
  BY <1>1, FaultSpent DEF Crash, history
<1>7. /\ items' = [items EXCEPT ![runner] = [o \in Operations |-> "none"]]
      /\ current' = [current EXCEPT ![runner] = Null]
      /\ items' \in [Processes -> [Operations -> {"none", "running"} \cup Answers]]
      /\ current' \in [Processes -> Operations \cup {Null}]
  BY <1>1 DEF Crash, Types
<1>8. ScriptOK' /\ script'.job <= Len(jobs')
  BY <1>5, <1>6, ScriptKept DEF OperationsInv
<1>9. Types'
  BY <1>1, <1>4, <1>6, <1>7, <1>8 DEF Types
<1>10. JobsOK'
  <2>1. ASSUME NEW i \in DOMAIN jobs
        PROVE  JobOK(jobs'[i], committed)
    <3>1. JobOK(jobs[i], committed) /\ jobs'[i].pc \notin {"settled", "writing"}
      BY <1>3 DEF OperationsInv, JobsOK
    <3> QED
      BY <1>3, <3>1, AskedMore DEF JobOK, Alike
  <2> QED
    BY <1>2, <1>6, <2>1 DEF JobsOK
<1>14. StoredOK'
  <2>1. ASSUME NEW i \in DOMAIN jobs, i \notin overtaken
        PROVE  Kept(jobs'[i])
    BY <1>3, <2>1 DEF OperationsInv, StoredOK, Kept, Carries, Alike
  <2> QED
    BY <1>2, <1>6, <2>1 DEF StoredOK, Kept
<1>11. DocumentsOK' /\ BoundOK'
  BY <1>1, <1>5, <1>6, DocumentsKept, BoundKept DEF OperationsInv
<1>12. ItemsOK'
  <2> SUFFICES ASSUME NEW p \in Processes, NEW o \in Operations, items'[p][o] \in Success
               PROVE  \E i \in DOMAIN jobs' : jobs'[i].op = o /\ Asked(jobs'[i], committed')
    BY DEF ItemsOK
  <2>1. items[p][o] \in Success
    BY <1>1, <1>7 DEF Types, Success
  <2>2. PICK i \in DOMAIN jobs : jobs[i].op = o /\ Asked(jobs[i], committed)
    BY <2>1 DEF OperationsInv, ItemsOK
  <2>3. jobs'[i].op = o /\ Asked(jobs'[i], committed)
    BY <1>3, <2>2, AskedMore DEF Alike
  <2> QED
    BY <1>2, <1>6, <2>2, <2>3
<1>13. RunningIsRunning'
  BY <1>1, <1>6, <1>7, NullAssumption DEF OperationsInv, RunningIsRunning, Types
<1> QED
  BY <1>8, <1>9, <1>10, <1>11, <1>12, <1>13, <1>14 DEF OperationsInv

-----------------------------------------------------------------------------
(* Callers.  None of them runs in a process of the server.                  *)

\* A call that is made waits, and runs nothing yet.
LEMMA NewJobOK ==
  ASSUME NEW d \in Docs, NEW v \in Versions \cup {Chunk}, NEW text \in Texts \cup {Null},
         NEW by \in {"script", "other"}, v # Chunk => text \in Texts
  PROVE  LET job == NewJob(<<d, v>>, text, by)
         IN  job \in JobType /\ JobOK(job, committed) /\ job.answer = Null
<1> DEFINE job == NewJob(<<d, v>>, text, by)
<1>1. <<d, v>> \in Operations
  BY DEF Operations
<1>2. job \in JobType
  BY <1>1 DEF NewJob, JobType
<1>3. Null \notin Success
  BY NullAssumption DEF Success, Answers
<1>4. /\ job.op[2] = v /\ job.pc = "queued" /\ job.answer = Null
      /\ job.version = v /\ job.text = text /\ job.content = text
  BY DEF NewJob
<1>5. JobOK(job, committed)
  BY <1>3, <1>4 DEF JobOK
<1> QED
  BY <1>2, <1>4, <1>5

\* What the processes keep is not touched by a caller.
Untouched ==
  /\ UNCHANGED <<runner, items, current, committed, overtaken>>
  /\ bounds' \in [runs : Nat, other : Nat, faults : Nat]

\* A caller makes one call, or none.
Calls ==
  \/ UNCHANGED jobs
  \/ \E d \in Docs, v \in Versions \cup {Chunk}, text \in Texts \cup {Null}, by \in {"script", "other"} :
       (v # Chunk => text \in Texts) /\ jobs' = Append(jobs, NewJob(<<d, v>>, text, by))

LEMMA CallsContinue ==
  ASSUME OperationsInv, Calls
  PROVE  Continues /\ \A i \in DOMAIN jobs : jobs'[i] = jobs[i]
<1>1. CASE UNCHANGED jobs
  <2>1. jobs \in Seq(JobType) /\ Len(jobs) \in Nat
    BY LenProperties DEF OperationsInv, Types
  <2> QED
    BY <1>1, <2>1 DEF Continues, SameCall
<1>2. CASE ~ UNCHANGED jobs
  <2>1. PICK job \in JobType : jobs' = Append(jobs, job)
    BY <1>2, NewJobOK DEF Calls
  <2> QED
    BY <2>1, OneMore DEF OperationsInv
<1> QED
  BY <1>1, <1>2

LEMMA CallsKeep ==
  ASSUME OperationsInv, Calls, Untouched
  PROVE  JobsOK' /\ ItemsOK' /\ RunningIsRunning'
<1>1. JobsOK'
  <2>1. CASE UNCHANGED jobs
    BY <2>1 DEF OperationsInv, JobsOK, Untouched
  <2>2. CASE ~ UNCHANGED jobs
    <3>1. PICK job \in JobType : JobOK(job, committed) /\ jobs' = Append(jobs, job)
      BY <2>2, NewJobOK DEF Calls
    <3> QED
      BY <3>1, JobsMore DEF OperationsInv, Untouched
  <2> QED
    BY <2>1, <2>2
<1>2. ItemsOK'
  BY CallsContinue, ItemsKept DEF OperationsInv, Untouched
<1>3. RunningIsRunning'
  BY CallsContinue DEF OperationsInv, RunningIsRunning, Untouched, Continues
<1> QED
  BY <1>1, <1>2, <1>3

\* A call that was made has not succeeded; the table may have other projects.
LEMMA CallsStore ==
  ASSUME OperationsInv, Calls, Untouched,
         \A d \in Docs : documents[d] # Null =>
           /\ documents'[d] # Null /\ documents'[d].version = documents[d].version
           /\ documents'[d].text = documents[d].text /\ documents'[d].content = documents[d].content
  PROVE  StoredOK'
<1>1. Continues /\ \A i \in DOMAIN jobs : jobs'[i] = jobs[i]
  BY CallsContinue
<1>2. \A i \in DOMAIN jobs' : i \in DOMAIN jobs \/ jobs'[i].answer \notin Success
  <2>1. CASE UNCHANGED jobs
    BY <2>1
  <2>2. CASE ~ UNCHANGED jobs
    <3>1. PICK job \in JobType : job.answer = Null /\ jobs' = Append(jobs, job)
      BY <2>2, NewJobOK DEF Calls
    <3>2. Null \notin Success
      BY NullAssumption DEF Success, Answers
    <3>3. DOMAIN jobs' = DOMAIN jobs \cup {Len(jobs) + 1} /\ jobs'[Len(jobs) + 1] = job
      BY <3>1, OneMore DEF OperationsInv
    <3> QED
      BY <3>1, <3>2, <3>3
  <2> QED
    BY <2>1, <2>2
<1> SUFFICES ASSUME NEW i \in DOMAIN jobs, i \notin overtaken, jobs[i].answer \in Success,
                    jobs[i].op[2] # Chunk
             PROVE  /\ documents'[jobs[i].op[1]] # Null
                    /\ Carries(documents'[jobs[i].op[1]], jobs[i])
  BY <1>1, <1>2 DEF StoredOK, Kept, Untouched
<1>3. jobs[i].op[1] \in Docs
  BY JobTyped, OperationParts DEF OperationsInv, JobType
<1> QED
  BY <1>3 DEF OperationsInv, StoredOK, Kept, Carries

\* A step of the script that leaves the table alone.
LEMMA ScriptStepKeeps ==
  ASSUME OperationsInv, Calls, Untouched, UNCHANGED <<documents, replaced>>,
         script' \in ScriptType, script'.job <= Len(jobs'), ScriptOK', BoundOK'
  PROVE  OperationsInv'
<1>1. Continues
  BY CallsContinue
<1>2. Types'
  BY <1>1 DEF OperationsInv, Types, Continues, Untouched
<1>3. DocumentsOK'
  BY <1>1, DocumentsKept DEF OperationsInv, Untouched
<1> QED
  BY <1>2, <1>3, CallsKeep, CallsStore DEF OperationsInv

LEMMA CallKeeps ==
  ASSUME OperationsInv, NEW d \in Docs, NEW upload \in Uploads \cup {<<Chunk, Null>>},
         Call(d, upload[1], upload[2])
  PROVE  OperationsInv'
<1>1. jobs' = Append(jobs, NewJob(<<d, upload[1]>>, upload[2], "other"))
      /\ UNCHANGED <<documents, items, current, committed, overtaken, replaced, runner, script>>
  BY DEF Call, server, history
<1>2. Calls
  <2>1. /\ upload[1] \in Versions \cup {Chunk} /\ upload[2] \in Texts \cup {Null}
        /\ upload[1] # Chunk => upload[2] \in Texts
    BY OperationsAssumption
  <2> QED
    BY <1>1, <2>1 DEF Calls
<1>3. Untouched
  BY <1>1 DEF Untouched, Call, OperationsInv, Types
<1>4. Continues
  BY <1>2, CallsContinue
<1>5. ScriptOK' /\ script'.job <= Len(jobs')
  BY <1>1, <1>4, ScriptKept DEF OperationsInv
<1>6. BoundOK'
  BY <1>1, BoundKept DEF OperationsInv
<1> QED
  BY <1>1, <1>2, <1>3, <1>5, <1>6, ScriptStepKeeps DEF OperationsInv, Types

-----------------------------------------------------------------------------
(* scripts/import_docs.py.                                                  *)

LEMMA UploadCalls ==
  ASSUME NEW k \in DOMAIN Candidates, jobs' = Append(jobs, Upload(k))
  PROVE  Calls
<1>1. /\ Candidates[k].doc \in Docs /\ Candidates[k].version \in Versions
      /\ Candidates[k].text \in Texts
  BY AssumedOfCandidates
<1> QED
  BY <1>1 DEF Calls, Upload

LEMMA UploadAppends ==
  ASSUME Types, NEW k \in DOMAIN Candidates, jobs' = Append(jobs, Upload(k))
  PROVE  /\ Continues /\ Len(jobs') = Len(jobs) + 1 /\ Len(jobs) + 1 \in DOMAIN jobs'
         /\ Len(jobs) + 1 \in Nat /\ UploadedIn(jobs', Len(jobs) + 1, k)
<1>1. /\ Candidates[k].doc \in Docs /\ Candidates[k].version \in Versions
      /\ Candidates[k].text \in Texts
  BY AssumedOfCandidates
<1>2. Upload(k) \in JobType
  BY <1>1, NewJobOK DEF Upload
<1>3. Len(jobs) \in Nat
  BY LenProperties DEF Types
<1>4. /\ Continues /\ Len(jobs') = Len(jobs) + 1 /\ Len(jobs) + 1 \in DOMAIN jobs'
      /\ jobs'[Len(jobs) + 1] = Upload(k)
  BY <1>2, OneMore
<1>5. UploadedIn(jobs', Len(jobs) + 1, k)
  BY <1>4 DEF Uploaded, UploadedIn, Upload, NewJob
<1> QED
  BY <1>3, <1>4, <1>5

\* Moving on to candidate k: the script is done, or has one more call.
LEMMA CreateMoves ==
  ASSUME Types, NEW k \in Nat \ {0}, NEW s \in ScriptType, s.job <= Len(jobs), Create(k, s),
         \A i \in DOMAIN Candidates : s.calls[i] # 0 => Uploaded(s.calls[i], i)
  PROVE  /\ Calls /\ script' \in ScriptType /\ script'.job <= Len(jobs')
         /\ ScriptOK' /\ script'.calls = s.calls
         /\ \A i \in DOMAIN Candidates : Passed(i)' => i < k
<1>1. Len(Candidates) \in Nat /\ DOMAIN Candidates = 1 .. Len(Candidates) /\ Len(jobs) \in Nat
  BY OperationsAssumption, LenProperties DEF Types
<1>2. CASE k > Len(Candidates)
  <2>1. /\ UNCHANGED jobs
        /\ script' = [s EXCEPT !.pc = "done", !.at = 0, !.job = 0, !.update = FALSE, !.stop = FALSE]
    BY <1>2 DEF Create
  <2>2. /\ script' \in ScriptType /\ script'.pc = "done" /\ script'.job = 0
        /\ script'.calls = s.calls
    <3>1. 0 \in 0 .. Len(Candidates) /\ 0 \in Nat /\ FALSE \in BOOLEAN
      BY <1>1
    <3> QED
      BY <2>1, <3>1 DEF ScriptType, Ended
  <2>3. ScriptOK'
    BY <2>1, <2>2 DEF ScriptOK, Waiting, Uploaded, UploadedIn
  <2>4. script'.job <= Len(jobs')
    BY <1>1, <2>1, <2>2
  <2>5. \A i \in DOMAIN Candidates : i < k
    BY <1>1, <1>2
  <2> QED
    BY <2>1, <2>2, <2>3, <2>4, <2>5 DEF Calls
<1>3. CASE ~(k > Len(Candidates))
  <2>1. k \in DOMAIN Candidates
    BY <1>1, <1>3
  <2>2. /\ jobs' = Append(jobs, Upload(k))
        /\ script' = [s EXCEPT !.pc = "creating", !.at = k, !.job = Len(jobs) + 1]
    BY <1>3 DEF Create
  <2>3. /\ Calls /\ Continues /\ Len(jobs') = Len(jobs) + 1 /\ Len(jobs) + 1 \in DOMAIN jobs'
        /\ Len(jobs) + 1 \in Nat /\ UploadedIn(jobs', Len(jobs) + 1, k)
    BY <2>1, <2>2, UploadCalls, UploadAppends
  <2>4. /\ script' \in ScriptType /\ script'.pc = "creating" /\ script'.at = k
        /\ script'.job = Len(jobs) + 1 /\ script'.calls = s.calls
    <3>1. k \in 0 .. Len(Candidates)
      BY <1>1, <2>1
    <3> QED
      BY <2>2, <2>3, <3>1 DEF ScriptType, Waiting
  <2>5. ScriptOK'
    <3>1. \A i \in DOMAIN Candidates : s.calls[i] # 0 => UploadedIn(jobs', s.calls[i], i)
      BY <2>3, UploadedStill
    <3>2. UploadedIn(jobs', script'.job, k)
      BY <2>3, <2>4 DEF Uploaded, UploadedIn
    <3> QED
      BY <2>1, <2>4, <3>1, <3>2 DEF ScriptOK, Uploaded, UploadedIn
  <2>6. script'.job <= Len(jobs')
    BY <2>3, <2>4
  <2>7. \A i \in DOMAIN Candidates : Passed(i)' => i < k
    BY <2>4 DEF Passed
  <2> QED
    BY <2>3, <2>4, <2>5, <2>6, <2>7
<1> QED
  BY <1>2, <1>3

\* Where the script is in a run.
LEMMA ScriptAt ==
  ASSUME OperationsInv
  PROVE  /\ script \in ScriptType /\ script.at \in Nat /\ script.job \in Nat
         /\ Len(jobs) \in Nat /\ script.job <= Len(jobs)
         /\ DOMAIN Candidates \subseteq Nat \ {0}
         /\ script.pc \in Waiting \cup {"rebinding"} => script.at \in DOMAIN Candidates
         /\ \A k \in DOMAIN Candidates : script.calls[k] # 0 => Uploaded(script.calls[k], k)
<1>1. Len(Candidates) \in Nat /\ DOMAIN Candidates = 1 .. Len(Candidates) /\ Len(jobs) \in Nat
  BY OperationsAssumption, LenProperties DEF OperationsInv, Types
<1>2. script \in ScriptType /\ script.job <= Len(jobs)
  BY DEF OperationsInv, Types
<1>3. script.at \in 0 .. Len(Candidates) /\ script.job \in Nat
  BY <1>2 DEF ScriptType
<1> QED
  BY <1>1, <1>2, <1>3 DEF OperationsInv, ScriptOK

LEMMA StartKeeps ==
  ASSUME OperationsInv, StartScript
  PROVE  OperationsInv'
<1>1. PICK update \in BOOLEAN, stop \in BOOLEAN :
        Create(1, [script EXCEPT !.update = update, !.stop = stop,
                                 !.calls = [k \in DOMAIN Candidates |-> 0]])
  BY DEF StartScript
<1>2. PICK s : s = [script EXCEPT !.update = update, !.stop = stop,
                                  !.calls = [k \in DOMAIN Candidates |-> 0]]
  OBVIOUS
<1>3. /\ s \in ScriptType /\ s.job = script.job
      /\ \A k \in DOMAIN Candidates : s.calls[k] = 0
  BY <1>2, ScriptAt DEF ScriptType
<1>4. /\ Calls /\ script' \in ScriptType /\ script'.job <= Len(jobs')
      /\ ScriptOK' /\ \A i \in DOMAIN Candidates : Passed(i)' => i < 1
  <2>1. Create(1, s) /\ 1 \in Nat \ {0} /\ s.job <= Len(jobs)
    BY <1>1, <1>2, <1>3, ScriptAt
  <2> QED
    BY <1>3, <2>1, CreateMoves DEF OperationsInv
<1>5. UNCHANGED <<documents, items, current, committed, overtaken, replaced, runner>>
      /\ bounds' \in [runs : Nat, other : Nat, faults : Nat]
  BY DEF StartScript, server, history, OperationsInv, Types
<1>6. BoundOK'
  BY <1>4, ScriptAt DEF BoundOK
<1> QED
  BY <1>4, <1>5, <1>6, ScriptStepKeeps DEF Untouched

LEMMA TakeAnswerKeeps ==
  ASSUME OperationsInv, TakeAnswer
  PROVE  OperationsInv'
<1>1. /\ script.pc \in Waiting /\ script.at \in DOMAIN Candidates
      /\ Uploaded(script.job, script.at) /\ script.job \in Nat
      /\ UNCHANGED <<documents, items, current, committed, overtaken, replaced, runner, jobs, bounds>>
  BY ScriptAt DEF TakeAnswer, server, history, OperationsInv, ScriptOK
<1>2. script' = [script EXCEPT !.pc = "rebinding", !.calls[script.at] = script.job]
  BY DEF TakeAnswer, Answered
<1>3. /\ script' \in ScriptType /\ script'.pc = "rebinding" /\ script'.at = script.at
      /\ script'.job = script.job /\ script'.calls[script.at] = script.job
      /\ \A i \in DOMAIN Candidates \ {script.at} : script'.calls[i] = script.calls[i]
  BY <1>1, <1>2, ScriptAt DEF ScriptType
<1>4. ScriptOK' /\ script'.job <= Len(jobs')
  <2>1. \A k \in DOMAIN Candidates : script'.calls[k] # 0 => Uploaded(script'.calls[k], k)
    BY <1>1, <1>3, ScriptAt
  <2> QED
    BY <1>1, <1>3, <2>1, ScriptAt DEF ScriptOK, Waiting, Uploaded, UploadedIn
<1>5. BoundOK'
  <2> SUFFICES ASSUME NEW i \in DOMAIN Candidates, Passed(i)', script'.calls[i] # 0
               PROVE  Passed(i) /\ script.calls[i] # 0
    BY <1>1 DEF OperationsInv, BoundOK
  <2>1. i < script.at /\ i \in Nat /\ script.at \in Nat
    BY <1>3, ScriptAt DEF Passed
  <2> QED
    BY <1>1, <1>3, <2>1 DEF Passed
<1>6. Calls /\ Untouched
  BY <1>1 DEF Calls, Untouched, OperationsInv, Types
<1> QED
  BY <1>1, <1>3, <1>4, <1>5, <1>6, ScriptStepKeeps

\* A script that stops has nothing behind it that counts.
LEMMA StopKeeps ==
  ASSUME OperationsInv, script' = Aborted, UNCHANGED <<server, runner, jobs, bounds>>
  PROVE  OperationsInv'
<1>1. UNCHANGED <<documents, items, current, committed, overtaken, replaced>>
  BY DEF server, history
<1>2. /\ script' \in ScriptType /\ script'.pc = "aborted" /\ script'.job = 0
      /\ script'.calls = script.calls
  <2>1. 0 \in 0 .. Len(Candidates)
    BY OperationsAssumption, LenProperties
  <2> QED
    BY <2>1, ScriptAt DEF Aborted, ScriptType, Ended
<1>3. ScriptOK' /\ BoundOK' /\ script'.job <= Len(jobs')
  BY <1>2, ScriptAt DEF ScriptOK, BoundOK, Passed, Waiting, Uploaded, UploadedIn
<1>4. Calls /\ Untouched
  BY <1>1 DEF Calls, Untouched, OperationsInv, Types
<1> QED
  BY <1>1, <1>2, <1>3, <1>4, ScriptStepKeeps

LEMMA TakeErrorKeeps ==
  ASSUME OperationsInv, TakeError
  PROVE  OperationsInv'
<1>1. /\ script.pc \in Waiting /\ script.at \in DOMAIN Candidates
      /\ UNCHANGED <<documents, items, current, committed, overtaken, replaced, runner, bounds>>
  BY ScriptAt DEF TakeError, server, history
<1>2. Untouched
  BY <1>1 DEF Untouched, OperationsInv, Types
<1>3. ASSUME jobs' = Append(jobs, Upload(script.at)),
             script' = [script EXCEPT !.pc = "updating", !.job = Len(jobs) + 1]
      PROVE  OperationsInv'
  <2>1. /\ Calls /\ Continues /\ Len(jobs') = Len(jobs) + 1 /\ Len(jobs) + 1 \in DOMAIN jobs'
        /\ Len(jobs) + 1 \in Nat /\ UploadedIn(jobs', Len(jobs) + 1, script.at)
    BY <1>1, <1>3, UploadCalls, UploadAppends DEF OperationsInv
  <2>2. /\ script' \in ScriptType /\ script'.pc = "updating" /\ script'.at = script.at
        /\ script'.job = Len(jobs) + 1 /\ script'.calls = script.calls
    BY <1>3, <2>1, ScriptAt DEF ScriptType, Waiting
  <2>3. ScriptOK' /\ script'.job <= Len(jobs')
    <3>1. \A i \in DOMAIN Candidates : script.calls[i] # 0 => UploadedIn(jobs', script.calls[i], i)
      BY <2>1, UploadedStill, ScriptAt
    <3>2. UploadedIn(jobs', script'.job, script'.at)
      BY <1>1, <2>1, <2>2 DEF Uploaded, UploadedIn
    <3> QED
      BY <1>1, <2>1, <2>2, <3>1, <3>2 DEF ScriptOK, Uploaded, UploadedIn
  <2>4. BoundOK'
    BY <1>1, <2>2 DEF OperationsInv, BoundOK, Passed
  <2> QED
    BY <1>1, <1>2, <2>1, <2>2, <2>3, <2>4, ScriptStepKeeps
<1>4. ASSUME Create(script.at + 1, [script EXCEPT !.calls[script.at] = 0])
      PROVE  OperationsInv'
  <2>1. PICK s : s = [script EXCEPT !.calls[script.at] = 0]
    OBVIOUS
  <2>2. /\ s \in ScriptType /\ s.job = script.job /\ s.calls[script.at] = 0
        /\ \A i \in DOMAIN Candidates \ {script.at} : s.calls[i] = script.calls[i]
    BY <1>1, <2>1, ScriptAt DEF ScriptType
  <2>3. /\ Create(script.at + 1, s) /\ script.at + 1 \in Nat \ {0} /\ s.job <= Len(jobs)
        /\ \A i \in DOMAIN Candidates : s.calls[i] # 0 => Uploaded(s.calls[i], i)
    BY <1>4, <2>1, <2>2, ScriptAt
  <2>4. /\ Calls /\ script' \in ScriptType /\ script'.job <= Len(jobs')
        /\ ScriptOK' /\ script'.calls = s.calls
        /\ \A i \in DOMAIN Candidates : Passed(i)' => i < script.at + 1
    BY <2>2, <2>3, CreateMoves DEF OperationsInv
  <2>5. BoundOK'
    <3> SUFFICES ASSUME NEW i \in DOMAIN Candidates, Passed(i)', script'.calls[i] # 0
                 PROVE  Passed(i) /\ script.calls[i] # 0
      BY <1>1 DEF OperationsInv, BoundOK
    <3>1. i # script.at
      BY <2>2, <2>4
    <3>2. i < script.at
      BY <2>4, <3>1, ScriptAt
    <3> QED
      BY <1>1, <2>2, <2>4, <3>1, <3>2 DEF Passed
  <2> QED
    BY <1>1, <1>2, <2>4, <2>5, ScriptStepKeeps
<1>5. CASE script' = Aborted /\ UNCHANGED jobs
  BY <1>1, <1>5, StopKeeps DEF server, history
<1> QED
  BY <1>3, <1>4, <1>5 DEF TakeError

LEMMA GiveUpKeeps ==
  ASSUME OperationsInv, GiveUp
  PROVE  OperationsInv'
  BY StopKeeps DEF GiveUp

\* document_rebind
LEMMA RebindKeeps ==
  ASSUME OperationsInv, Rebind
  PROVE  OperationsInv'
<1>1. /\ script.pc = "rebinding" /\ script.at \in DOMAIN Candidates
      /\ UNCHANGED <<runner, items, current, bounds, committed, overtaken>>
  BY ScriptAt DEF Rebind
<1>2. PICK d \in Docs : d = Candidates[script.at].doc
  BY <1>1, AssumedOfCandidates
<1>3. CASE documents[d] = Null
  <2>1. script' = Aborted /\ UNCHANGED <<documents, jobs, replaced>>
    BY <1>2, <1>3 DEF Rebind
  <2> QED
    BY <1>1, <2>1, StopKeeps DEF server, history
<1>4. CASE documents[d] # Null
  <2>1. /\ documents' = [documents EXCEPT ![d] = [documents[d] EXCEPT !.project = "project"]]
        /\ replaced' = replaced \ {d}
        /\ Create(script.at + 1, script)
    BY <1>2, <1>4 DEF Rebind, Rebound
  <2>2. PICK stored \in Stored :
          /\ documents' = [documents EXCEPT ![d] = stored]
          /\ stored.version = documents[d].version /\ stored.operation = documents[d].operation
          /\ stored.text = documents[d].text /\ stored.content = documents[d].content
          /\ stored.project = "project" /\ Unbound(stored) = Unbound(documents[d])
    <3>1. documents[d] \in Stored
      BY <1>4 DEF OperationsInv, Types
    <3> DEFINE bound == [documents[d] EXCEPT !.project = "project"]
    <3>2. /\ bound \in Stored /\ bound.version = documents[d].version
          /\ bound.operation = documents[d].operation /\ bound.project = "project"
          /\ bound.text = documents[d].text /\ bound.content = documents[d].content
      BY <3>1 DEF Stored
    <3>3. Unbound(bound) = Unbound(documents[d])
      BY <3>1 DEF Unbound, Stored
    <3>4. documents' = [documents EXCEPT ![d] = bound]
      BY <2>1
    <3> QED
      BY <3>2, <3>3, <3>4
  <2>3. /\ documents' \in [Docs -> Stored \cup {Null}] /\ documents'[d] = stored
        /\ \A e \in Docs \ {d} : documents'[e] = documents[e]
        /\ replaced' \subseteq Docs
    BY <2>1, <2>2, ZenonT(30) DEF OperationsInv, Types
  <2>4. /\ Calls /\ script' \in ScriptType /\ script'.job <= Len(jobs')
        /\ ScriptOK' /\ script'.calls = script.calls
        /\ \A i \in DOMAIN Candidates : Passed(i)' => i < script.at + 1
    <3>1. script.at + 1 \in Nat \ {0}
      BY ScriptAt
    <3> QED
      BY <2>1, <3>1, ScriptAt, CreateMoves DEF OperationsInv
  <2>5. Untouched /\ Continues
    BY <1>1, <2>4, CallsContinue DEF Untouched, OperationsInv, Types
  <2>6. Types'
    BY <1>1, <2>3, <2>4, <2>5 DEF OperationsInv, Types, Continues
  <2>7. stored # Null /\ "project" # Null
    BY NullAssumption
  <2>8. DocumentsOK'
    <3>1. ASSUME NEW e \in Docs, documents'[e] # Null
          PROVE  Unbound(documents'[e]) \in committed /\ documents'[e].operation[1] = e
      <4>1. /\ documents[e] # Null /\ Unbound(documents'[e]) = Unbound(documents[e])
            /\ documents'[e].operation = documents[e].operation
        BY <1>4, <2>2, <2>3, <3>1
      <4> QED
        BY <4>1 DEF OperationsInv, DocumentsOK
    <3>2. \A row \in committed : \E j \in DOMAIN jobs' : jobs'[j].op = row.operation
      BY <2>5 DEF OperationsInv, DocumentsOK, Continues, SameCall
    <3> QED
      BY <1>1, <3>1, <3>2 DEF DocumentsOK
  <2>9. BoundOK'
    <3> SUFFICES ASSUME NEW i \in DOMAIN Candidates, Passed(i)', script'.calls[i] # 0
                 PROVE  /\ documents'[Candidates[i].doc] # Null
                        /\ Candidates[i].doc \notin replaced' => documents'[Candidates[i].doc].project # Null
      BY DEF BoundOK
    <3>1. PICK e \in Docs : e = Candidates[i].doc
      BY AssumedOfCandidates
    <3>2. CASE e = d
      BY <2>2, <2>3, <2>7, <3>1, <3>2
    <3>3. CASE e # d
      <4>1. i < script.at
        BY <1>2, <2>4, <3>1, <3>3, ScriptAt
      <4>2. Passed(i) /\ script.calls[i] # 0
        BY <1>1, <2>4, <4>1 DEF Passed
      <4>3. documents[e] # Null /\ (e \notin replaced => documents[e].project # Null)
        BY <3>1, <4>2 DEF OperationsInv, BoundOK
      <4> QED
        BY <2>1, <2>3, <3>1, <3>3, <4>3
    <3> QED
      BY <3>2, <3>3
  <2>10. StoredOK'
    <3>1. \A e \in Docs : documents[e] # Null =>
            /\ documents'[e] # Null /\ documents'[e].version = documents[e].version
            /\ documents'[e].text = documents[e].text /\ documents'[e].content = documents[e].content
      BY <2>2, <2>3, <2>7
    <3> QED
      BY <2>4, <2>5, <3>1, CallsStore
  <2> QED
    BY <2>4, <2>5, <2>6, <2>8, <2>9, <2>10, CallsKeep DEF OperationsInv
<1> QED
  BY <1>3, <1>4

-----------------------------------------------------------------------------
(* The theorems.                                                            *)

LEMMA OperationsInit == Init => OperationsInv
<1> SUFFICES ASSUME Init
             PROVE  OperationsInv
  OBVIOUS
<1>1. jobs \in Seq(JobType) /\ Len(jobs) = 0 /\ DOMAIN jobs = {}
  BY DEF Init
<1>2. /\ script \in ScriptType /\ script.pc = "idle" /\ script.job = 0
      /\ \A k \in DOMAIN Candidates : script.calls[k] = 0
  <2>1. 0 \in 0 .. Len(Candidates)
    BY OperationsAssumption, LenProperties
  <2> QED
    BY <2>1 DEF Init, ScriptType
<1>3. bounds \in [runs : Nat, other : Nat, faults : Nat]
  BY OperationsAssumption DEF Init
<1>4. /\ documents \in [Docs -> Stored \cup {Null}]
      /\ items \in [Processes -> [Operations -> {"none", "running"} \cup Answers]]
      /\ current \in [Processes -> Operations \cup {Null}]
  BY DEF Init
<1>5. Types
  BY <1>1, <1>2, <1>3, <1>4 DEF Types, Init
<1>6. JobsOK /\ DocumentsOK /\ StoredOK
  BY <1>1 DEF Init, JobsOK, DocumentsOK, StoredOK
<1>7. ItemsOK /\ RunningIsRunning
  BY NullAssumption DEF Init, ItemsOK, RunningIsRunning, Success
<1>8. ScriptOK /\ BoundOK
  BY <1>2 DEF ScriptOK, BoundOK, Passed, Waiting
<1> QED
  BY <1>5, <1>6, <1>7, <1>8 DEF OperationsInv

LEMMA OperationsStutter ==
  ASSUME OperationsInv, UNCHANGED vars
  PROVE  OperationsInv'
<1>1. UNCHANGED <<documents, runner, items, current, jobs, script, bounds, committed, overtaken, replaced>>
  BY DEF vars, history
<1>2. Types'
  BY <1>1 DEF OperationsInv, Types
<1>3. JobsOK' /\ ItemsOK' /\ RunningIsRunning' /\ ScriptOK'
  BY <1>1 DEF OperationsInv, JobsOK, ItemsOK, RunningIsRunning, ScriptOK, Uploaded, UploadedIn
<1>4. DocumentsOK' /\ BoundOK' /\ StoredOK'
  BY <1>1 DEF OperationsInv, DocumentsOK, BoundOK, Passed, StoredOK, Kept
<1> QED
  BY <1>2, <1>3, <1>4 DEF OperationsInv

LEMMA OperationsNext == OperationsInv /\ [Next]_vars => OperationsInv'
<1> SUFFICES ASSUME OperationsInv, [Next]_vars
             PROVE  OperationsInv'
  OBVIOUS
<1>1. ASSUME NEW j \in DOMAIN jobs, Run(j)
      PROVE  OperationsInv'
  BY <1>1, BeginKeeps, LookupKeeps, PublishKeeps, FinishKeeps, FailKeeps, RaiseKeeps DEF Run
<1>2. ASSUME NEW d \in Docs, NEW upload \in Uploads \cup {<<Chunk, Null>>},
             Call(d, upload[1], upload[2])
      PROVE  OperationsInv'
  BY <1>2, CallKeeps
<1>3. CASE Crash
  BY <1>3, CrashKeeps
<1>4. CASE StartScript \/ TakeAnswer \/ TakeError \/ GiveUp \/ Rebind
  BY <1>4, StartKeeps, TakeAnswerKeeps, TakeErrorKeeps, GiveUpKeeps, RebindKeeps
<1>5. CASE UNCHANGED vars
  BY <1>5, OperationsStutter
<1> QED
  BY <1>1, <1>2, <1>3, <1>4, <1>5 DEF Next

LEMMA OperationsAlways == Spec => []OperationsInv
  BY OperationsInit, OperationsNext, PTL DEF Spec

\* For any documents, texts, calls, crashes and failures: what is answered or
\* reported as a success was published, by its operation or by one with its version
\* or text, and "running" is of an operation that runs or was lost to an exception
\* outside of the handler's try (InMemoryRuntimeStatus, _replay_reference).
THEOREM StatusCorrect == Spec => []StatusInv
<1>1. OperationsInv => TypeOK
  <2> SUFFICES ASSUME OperationsInv
               PROVE  TypeOK
    OBVIOUS
  <2>1. \A j \in DOMAIN jobs : jobs[j] \in JobType
    BY JobTyped DEF OperationsInv
  <2>2. /\ script.pc \in {"idle", "rebinding"} \cup Waiting \cup Ended
        /\ script.at \in 0 .. Len(Candidates)
    BY DEF OperationsInv, Types, ScriptType
  <2>3. script.job \in 0 .. Len(jobs)
    BY ScriptAt
  <2> QED
    BY <2>1, <2>2, <2>3 DEF OperationsInv, Types, TypeOK, JobType
<1>2. OperationsInv => SuccessIsCommitted
  <2> SUFFICES ASSUME OperationsInv
               PROVE  SuccessIsCommitted
    OBVIOUS
  <2>1. \A j \in DOMAIN jobs : Asked(jobs[j], committed) => Held(j)
    BY DEF Asked, Held, Doc, Rechunks
  <2>2. \A j \in DOMAIN jobs : jobs[j].answer \in Success => Held(j)
    BY <2>1 DEF OperationsInv, JobsOK, JobOK
  <2>3. ASSUME NEW p \in Processes, NEW o \in Operations, GetStatus(p, o) \in Success
        PROVE  \E j \in DOMAIN jobs : jobs[j].op = o /\ Held(j)
    <3>1. CASE items[p][o] # "none"
      BY <2>1, <2>3, <3>1 DEF GetStatus, OperationsInv, ItemsOK
    <3>2. CASE items[p][o] = "none"
      <4>1. Persisted(o)
        BY <2>3, <3>2 DEF GetStatus, Success
      <4>2. PICK d \in Docs : documents[d] # Null /\ documents[d].operation = o
        BY <4>1 DEF Persisted
      <4>3. PICK row \in committed : row.operation = o
        BY <4>2, StoredRow
      <4>4. PICK j \in DOMAIN jobs : jobs[j].op = o
        BY <4>3 DEF OperationsInv, DocumentsOK
      <4>5. Held(j)
        BY <4>3, <4>4 DEF Held, Doc
      <4> QED
        BY <4>4, <4>5
    <3> QED
      BY <3>1, <3>2
  <2> QED
    BY <2>2, <2>3 DEF SuccessIsCommitted, Success
<1>3. OperationsInv => StatusInv
  BY <1>1, <1>2 DEF StatusInv, OperationsInv
<1> QED
  BY <1>3, OperationsAlways, PTL

\* For any list of files, of one name or of many, and any other calls: what
\* scripts/import_docs.py took for a success is stored, unless a publication without
\* the file's version and text came after it, and bound to the project, unless the
\* document was published after the rebind.
THEOREM ReportsAreStored == Spec => []ReportedIsStored
<1>1. OperationsInv => ReportedIsStored
  <2> SUFFICES ASSUME OperationsInv, script.pc = "done", NEW k \in DOMAIN Candidates,
                      NEW j, j = script.calls[k], j # 0, jobs[j].answer \in Success
               PROVE  /\ documents[Candidates[k].doc] # Null
                      /\ j \notin overtaken => Carries(documents[Candidates[k].doc], Candidates[k])
                      /\ Candidates[k].doc \notin replaced => documents[Candidates[k].doc].project # Null
    BY DEF ReportedIsStored, Success
  <2>1. Uploaded(j, k) /\ Passed(k)
    BY DEF OperationsInv, ScriptOK, Passed
  <2>2. /\ documents[Candidates[k].doc] # Null
        /\ Candidates[k].doc \notin replaced => documents[Candidates[k].doc].project # Null
    BY <2>1 DEF OperationsInv, BoundOK
  <2>3. ASSUME j \notin overtaken
        PROVE  Carries(documents[Candidates[k].doc], Candidates[k])
    <3>1. jobs[j].op[1] = Candidates[k].doc /\ jobs[j].op[2] # Chunk
      BY <2>1, AssumedOfCandidates, OperationsAssumption DEF Uploaded, UploadedIn
    <3>2. Carries(documents[Candidates[k].doc], jobs[j])
      BY <2>1, <2>3, <3>1 DEF OperationsInv, StoredOK, Kept, Uploaded, UploadedIn
    <3> QED
      BY <2>1, <3>2 DEF Carries, Uploaded, UploadedIn
  <2> QED
    BY <2>2, <2>3
<1> QED
  BY <1>1, OperationsAlways, PTL

=============================================================================
