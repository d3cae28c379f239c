----------------------------- MODULE Provenance -----------------------------
(***************************************************************************)
(* Evidence of publications in the database: primary_sources,              *)
(* processing_runs, source_spans and the source_states that hang from      *)
(* temporal_assertions, with the triggers and foreign keys of migrations   *)
(* 0018 to 0021, the upgrade of a populated database to them, and the      *)
(* deletes that reach the evidence by cascade.                             *)
(*                                                                         *)
(* A publication's own statements are the subject of Publication; here it  *)
(* resolves the original of its File in one step and commits in another.   *)
(***************************************************************************)
EXTENDS Integers, FiniteSets, Sequences, FiniteSetsExt

CONSTANTS
  Docs,         \* document ids; the File of a document is named by it
  Published,    \* bound: the documents that publications address
  Contents,     \* original bytes, told apart by checksum
  Publishers,   \* publications in flight
  Null,
  Installed,    \* the last revision each release of the program ships
  MaxRuns       \* bound: processing runs recorded

Revisions == <<"0018", "0018a", "0018b", "0019", "0020", "0021">>
Latest == Len(Revisions)

ASSUME ProvenanceAssumption ==
  /\ Null \notin Docs \cup Contents /\ "backfill" \notin Contents
  /\ Published \subseteq Docs /\ Installed \subseteq 1 .. Latest
  /\ MaxRuns \in Nat

VARIABLES
  revision,   \* position of the last revision in alembic_version; 0 before 0018
  stray,      \* the registry holds a row of a table that is not allowlisted
  files,      \* files rows: whether path and hashes are there, and the original
  present,    \* the document and chapter rows of each document
  sources,    \* primary_sources, each named by its File and content
  runs,       \* processing_runs, in order of insertion; Null once removed
  assertions, \* source_state assertions with their source_states rows, likewise
  spans,      \* source_spans
  pub,        \* the locals of each publication
  overlapped  \* history: documents whose File was bound while a publication ran

vars == <<revision, stray, files, present, sources, runs, assertions, spans, pub, overlapped>>

-----------------------------------------------------------------------------
(* Rows.                                                                    *)

Sources == Docs \X (Contents \cup {"backfill"})
References == {"document", "chapter"}
Terminal == {"succeeded", "failed", "aborted"}

FileRow == [lawful : BOOLEAN, source : Sources \cup {Null}]

\* doc is what the run was about; refs are the columns that still name its rows.
RunRow == [source : Sources, status : {"succeeded", "failed"}, doc : Docs,
           refs : SUBSET References]

\* The source_states row has the key of its assertion and goes with it.
Assertion == [object : Docs, revision : 1 .. MaxRuns, supersedes : 0 .. MaxRuns,
              source : Sources, run : 1 .. MaxRuns]

Span == [run : 1 .. MaxRuns, doc : Docs]

\* SQL's NULL is no row of any table.
ASSUME NullAssumption == Null \notin Sources \cup FileRow \cup RunRow \cup Assertion

Rows(table) == {i \in DOMAIN table : table[i] # Null}
About(d) == {a \in Rows(assertions) : assertions[a].object = d}
Superseded(a) == \E b \in Rows(assertions) : assertions[b].supersedes = a
Files == {d \in Docs : files[d] # Null}
BoundTo(d) == IF d \in Files THEN files[d].source ELSE Null

Idle == [at |-> "idle", doc |-> Null, source |-> Null, seen |-> Null]

Init ==
  /\ revision = 0
  /\ stray \in BOOLEAN
  /\ files \in [Docs -> {Null} \cup {[lawful |-> l, source |-> Null] : l \in BOOLEAN}]
  /\ present = [d \in Docs |-> IF files[d] = Null THEN {} ELSE References]
  /\ sources = {} /\ spans = {}
  /\ runs = <<>> /\ assertions = <<>>
  /\ pub = [p \in Publishers |-> Idle]
  /\ overlapped = {}

-----------------------------------------------------------------------------
(* Upgrading.                                                               *)

\* Mutant of Backfilled: originals with the same content are shared by Files.
BackfilledByContent == [d \in Files |-> <<CHOOSE e \in Docs : TRUE, "backfill">>]

\* Every File gets an original of its own.
Backfilled == [d \in Files |-> <<d, "backfill">>]

\* 0018a stops at a locator outside the allowlist, 0019 at a File that cannot
\* name its original.
Preflight(from, to) ==
  /\ 2 \in from + 1 .. to => ~stray
  /\ 4 \in from + 1 .. to => \A d \in Files : files[d].lawful

\* All pending revisions run in one transaction; one that raises undoes them all.
ApplyMigrations(to) ==
  /\ revision < to
  /\ Preflight(revision, to)
  /\ revision' = to
  /\ IF 4 \in revision + 1 .. to
     THEN /\ sources' = sources \cup {Backfilled[d] : d \in Files}
          /\ files' = [d \in Docs |-> IF d \in Files
                                      THEN [files[d] EXCEPT !.source = Backfilled[d]] ELSE Null]
     ELSE UNCHANGED <<sources, files>>
  /\ UNCHANGED <<stray, present, runs, assertions, spans, pub, overlapped>>

\* The operator follows the hint of a preflight that raised.
Repair ==
  /\ \/ stray' = FALSE /\ UNCHANGED files
     \/ \E d \in Files : /\ ~files[d].lawful
                         /\ files' = [files EXCEPT ![d].lawful = TRUE]
                         /\ UNCHANGED stray
  /\ revision < Latest
  /\ UNCHANGED <<revision, present, sources, runs, assertions, spans, pub, overlapped>>

-----------------------------------------------------------------------------
(* Publications.                                                            *)

\* Mutant of ResolvedSource: every publication mints an original.
MintedSource(d, content) == <<d, content>>

\* The original a File is bound to, or a new one named by File and content.
ResolvedSource(d, content) ==
  IF d \in Files THEN files[d].source ELSE <<d, content>>

\* The program runs on the newest schema only; the original is inserted if new.
ResolvePrimarySource(p, d, content) ==
  /\ revision = Latest /\ pub[p].at = "idle" /\ Len(runs) < MaxRuns
  /\ pub' = [pub EXCEPT ![p] = [at |-> "resolved", doc |-> d,
                                source |-> ResolvedSource(d, content),
                                seen |-> BoundTo(d)]]
  /\ UNCHANGED <<revision, stray, files, present, sources, runs, assertions, spans, overlapped>>

Run(p, status, refs) ==
  [source |-> pub[p].source, status |-> status, doc |-> pub[p].doc, refs |-> refs]

\* Mutant of Prior: the oldest assertion is superseded, not the newest.
PriorOldest(d) == LET all == About(d) IN IF all = {} THEN 0 ELSE Min(all)

\* The newest assertion about the document that nothing supersedes.
Prior(d) ==
  LET open == {a \in About(d) : ~Superseded(a)} IN IF open = {} THEN 0 ELSE Max(open)

\* Mutant of NextRevision: COALESCE(MAX(revision_no), 0) without the increment.
NextRevisionOfLast(d) == Max({assertions[a].revision : a \in About(d)} \cup {0})

NextRevision(d) == 1 + Max({assertions[a].revision : a \in About(d)} \cup {0})

\* The guard of source_states: the run named consumed the original restored.
StateGuard(state, run) == state.source = run.source

\* The File row is inserted with the original, or updated and keeps its own.
Accept(p) ==
  LET d == pub[p].doc
      run == Run(p, "succeeded", References)
      state == [object |-> d, revision |-> NextRevision(d), supersedes |-> Prior(d),
                source |-> pub[p].source, run |-> Len(runs) + 1]
  IN  /\ pub[p].at = "resolved" /\ Len(runs) < MaxRuns
      /\ StateGuard(state, run)
      /\ sources' = sources \cup {pub[p].source}
      /\ files' = [files EXCEPT ![d] = IF @ = Null THEN [lawful |-> TRUE, source |-> pub[p].source]
                                       ELSE @]
      /\ present' = [present EXCEPT ![d] = References]
      /\ runs' = Append(runs, run)
      /\ assertions' = Append(assertions, state)
      /\ overlapped' = IF pub[p].seen # BoundTo(d) THEN overlapped \cup {d} ELSE overlapped
      /\ pub' = [pub EXCEPT ![p] = Idle]
      /\ UNCHANGED <<revision, stray, spans>>

\* The hierarchy is rolled back; the failed run and its span, which names the
\* document without a foreign key, are written by a transaction of their own.
Refuse(p) ==
  /\ pub[p].at = "resolved" /\ Len(runs) < MaxRuns
  /\ sources' = sources \cup {pub[p].source}
  /\ runs' = Append(runs, Run(p, "failed", {}))
  /\ assertions' = Append(assertions, Null)
  /\ spans' = spans \cup {[run |-> Len(runs) + 1, doc |-> pub[p].doc]}
  /\ pub' = [pub EXCEPT ![p] = Idle]
  /\ UNCHANGED <<revision, stray, files, present, overlapped>>

-----------------------------------------------------------------------------
(* Statements on the evidence, as its triggers and foreign keys allow.      *)

\* Mutant of RunTrigger: the function of 0019, which 0021 replaces.
RunTrigger0019(old, new) ==
  /\ old.status \notin Terminal
  /\ new.source = old.source

\* Mutant of RunTrigger: the columns of foreign keys are not compared.
RunTriggerIgnoringReferences(old, new) ==
  /\ old.status \in Terminal => [new EXCEPT !.refs = {}] = [old EXCEPT !.refs = {}]
  /\ new.source = old.source /\ new.doc = old.doc

\* An UPDATE of a terminal run may release references and nothing else; what
\* identifies the execution never changes.
RunTrigger(old, new) ==
  /\ old.status \in Terminal => /\ new.refs \subseteq old.refs
                                /\ [new EXCEPT !.refs = {}] = [old EXCEPT !.refs = {}]
  /\ new.source = old.source /\ new.doc = old.doc

\* Any client's UPDATE of a run.
UpdateRun(r, new) ==
  /\ r \in Rows(runs) /\ new # runs[r]
  /\ RunTrigger(runs[r], new)
  /\ runs' = [runs EXCEPT ![r] = new]
  /\ UNCHANGED <<revision, stray, files, present, sources, assertions, spans, pub, overlapped>>

Released(run, gone) == [run EXCEPT !.refs = @ \ gone]
Citing(d, gone) == {r \in Rows(runs) : runs[r].doc = d /\ runs[r].refs \cap gone # {}}

\* ON DELETE SET NULL is an UPDATE of each run that names the row.
ReleasePermitted(d, gone) ==
  \A r \in Citing(d, gone), ref \in gone :
    ref \in runs[r].refs => RunTrigger(runs[r], Released(runs[r], {ref}))

\* Deleting the document takes its chapters, its registry row and by that the
\* assertions about it; a chapter alone leaves them.
DeleteRows(d, gone) ==
  /\ gone # {} /\ gone \subseteq present[d]
  /\ "document" \in gone => gone = present[d]
  /\ revision >= 4 => ReleasePermitted(d, gone)
  /\ present' = [present EXCEPT ![d] = @ \ gone]
  /\ runs' = [r \in DOMAIN runs |->
                IF r \in Citing(d, gone) THEN Released(runs[r], gone) ELSE runs[r]]
  /\ assertions' = [a \in DOMAIN assertions |->
                      IF "document" \in gone /\ a \in About(d) THEN Null ELSE assertions[a]]
  /\ UNCHANGED <<revision, stray, files, sources, spans, pub, overlapped>>

\* A File may go once its document is gone.
DeleteFile(d) ==
  /\ d \in Files /\ present[d] = {}
  /\ files' = [files EXCEPT ![d] = Null]
  /\ UNCHANGED <<revision, stray, present, sources, runs, assertions, spans, pub, overlapped>>

\* Mutant of DeleteRun: the foreign key of spans does not restrict.
DeleteRunUnderSpans(r) ==
  /\ r \in Rows(runs)
  /\ \A a \in Rows(assertions) : assertions[a].run # r
  /\ runs' = [runs EXCEPT ![r] = Null]
  /\ UNCHANGED <<revision, stray, files, present, sources, assertions, spans, pub, overlapped>>

\* RESTRICT: a state or a span keeps its run.
DeleteRun(r) ==
  /\ r \in Rows(runs)
  /\ \A a \in Rows(assertions) : assertions[a].run # r
  /\ \A s \in spans : s.run # r
  /\ runs' = [runs EXCEPT ![r] = Null]
  /\ UNCHANGED <<revision, stray, files, present, sources, assertions, spans, pub, overlapped>>

\* RESTRICT: a File, a run or a state keeps its original.
DeleteSource(s) ==
  /\ s \in sources
  /\ \A d \in Files : files[d].source # s
  /\ \A r \in Rows(runs) : runs[r].source # s
  /\ \A p \in Publishers : pub[p].source # s
  /\ sources' = sources \ {s}
  /\ UNCHANGED <<revision, stray, files, present, runs, assertions, spans, pub, overlapped>>

-----------------------------------------------------------------------------
Next ==
  \/ \E to \in Installed : ApplyMigrations(to)
  \/ Repair
  \/ \E p \in Publishers : \/ \E d \in Published, content \in Contents : ResolvePrimarySource(p, d, content)
                           \/ Accept(p) \/ Refuse(p)
  \/ \E r \in 1 .. MaxRuns, new \in RunRow : UpdateRun(r, new)
  \/ \E d \in Docs, gone \in SUBSET References : DeleteRows(d, gone)
  \/ \E d \in Docs : DeleteFile(d)
  \/ \E r \in 1 .. MaxRuns : DeleteRun(r)
  \/ \E s \in Sources : DeleteSource(s)

Spec == Init /\ [][Next]_vars

-----------------------------------------------------------------------------
(* Properties.                                                              *)

TypeOK ==
  /\ revision \in 0 .. Latest /\ stray \in BOOLEAN
  /\ files \in [Docs -> FileRow \cup {Null}]
  /\ present \in [Docs -> SUBSET References]
  /\ sources \subseteq Sources
  /\ runs \in Seq(RunRow \cup {Null}) /\ assertions \in Seq(Assertion \cup {Null})
  /\ Len(runs) <= MaxRuns /\ Len(assertions) = Len(runs)
  /\ spans \subseteq Span
  /\ overlapped \subseteq Docs

\* Once 0019 is in, every File is bound to an original that is there and that no
\* other File claims, whatever the database held before the upgrade.
FilesHaveTheirOwnOriginal ==
  revision >= 4 =>
    /\ \A d \in Files : files[d].source \in sources
    /\ \A d, e \in Files : d # e => files[d].source # files[e].source

\* The chain of evidence does not break or fork: a source state and a span have
\* their run, and the run and the state name one original, which is there.
EvidenceChainHolds ==
  /\ \A r \in Rows(runs) : runs[r].source \in sources
  /\ \A a \in Rows(assertions) :
       LET r == assertions[a].run
       IN  r \in Rows(runs) /\ runs[r].source = assertions[a].source
             /\ runs[r].status = "succeeded"
  /\ \A s \in spans : s.run \in Rows(runs) /\ runs[s.run].status = "failed"

\* A source state restores the original of the document's File, also after deletes
\* and publications again, unless its File was bound to another original while
\* the publication ran, as when two requests publish a document for the first
\* time at once: the File keeps the one that committed first.
StatesCiteTheFilesOriginal ==
  \A a \in Rows(assertions) :
    LET d == assertions[a].object
    IN  d \in Files /\ d \notin overlapped => assertions[a].source = files[d].source

\* The states of a document form one line of supersession: exactly one of them is
\* current, however publications and deletes interleave.
OneCurrentState ==
  \A d \in Docs : About(d) # {} => Cardinality({a \in About(d) : ~Superseded(a)}) = 1

\* A document, or a chapter of it, can always be deleted: the runs that name it
\* are terminal, and the triggers let the foreign keys release them.
DeletesAreNotRefused ==
  revision = Latest =>
    \A d \in Docs, gone \in SUBSET References : gone \subseteq present[d] => ReleasePermitted(d, gone)

\* What a terminal run records never changes: only its references to rows fall
\* away, and it goes only when no state and no span cites it.
TerminalRunsAreHistory ==
  [][\A r \in Rows(runs) :
       IF runs'[r] = Null THEN \A s \in spans' : s.run # r
       ELSE /\ [runs'[r] EXCEPT !.refs = {}] = [runs[r] EXCEPT !.refs = {}]
            /\ runs'[r].refs \subseteq runs[r].refs]_vars

\* What binds Files, originals and source states together, from the backfill on.
OriginalsInv ==
  TypeOK /\ FilesHaveTheirOwnOriginal /\ StatesCiteTheFilesOriginal /\ OneCurrentState

\* The bargain of 0021: the triggers let every delete through and keep history.
DeletesReleaseHistory == []DeletesAreNotRefused /\ TerminalRunsAreHistory

=============================================================================
