---------------------------- MODULE ProvenanceProofs ----------------------------
(***************************************************************************)
(* Theorems of Provenance for every set of documents, contents and         *)
(* publishers, every set of releases and any number of runs.               *)
(***************************************************************************)
EXTENDS Provenance, FiniteSetTheorems, TLAPS

LEMMA LatestIs == Latest = 6
BY DEF Latest, Revisions

\* A finite set of numbers has a largest one (Max is well defined).
LEMMA FiniteMax ==
  ASSUME NEW S \in SUBSET Int, IsFiniteSet(S), S # {}
  PROVE  Max(S) \in S /\ \A y \in S : Max(S) >= y
<1> DEFINE Bad == {U \in FiniteSubsetsOf(S) : U # {} /\ ~ \E m \in U : \A y \in U : m >= y}
<1>0. S \in FiniteSubsetsOf(S)
  BY DEF FiniteSubsetsOf
<1>1. SUFFICES ASSUME Bad # {} PROVE FALSE
  BY <1>0 DEF Max
<1>2. PICK U \in Bad : \A V \in Bad : <<V, U>> \notin StrictSubsetOrdering(S)
  <2>1. Bad \subseteq FiniteSubsetsOf(S)
    OBVIOUS
  <2> HIDE DEF Bad
  <2> QED
    BY <1>1, <2>1, FS_StrictSubsetOrderingWellFounded, WFMin
<1>3. PICK x \in U : TRUE
  OBVIOUS
<1>4. U \ {x} \notin Bad
  <2>1. <<U \ {x}, U>> \in StrictSubsetOrdering(S)
    BY DEF StrictSubsetOrdering, FiniteSubsetsOf
  <2> QED
    BY <1>2, <2>1
<1>5. U \ {x} \in FiniteSubsetsOf(S)
  BY FS_FiniteSubsetsOfFinite DEF FiniteSubsetsOf
<1>6. CASE U \ {x} = {}
  BY <1>3, <1>6 DEF FiniteSubsetsOf
<1>7. CASE U \ {x} # {}
  <2>1. PICK m \in U \ {x} : \A y \in U \ {x} : m >= y
    BY <1>4, <1>5, <1>7
  <2>2. m \in Int /\ x \in Int /\ U \subseteq Int
    BY DEF FiniteSubsetsOf
  <2>3. \A y \in U : (IF x <= m THEN m ELSE x) >= y
    BY <2>1, <2>2
  <2> QED
    BY <2>1, <2>3
<1> QED
  BY <1>6, <1>7

-----------------------------------------------------------------------------
(* The tables in order of insertion.                                       *)

LEMMA Inserted ==
  ASSUME NEW S, NEW q \in Seq(S), NEW e \in S
  PROVE  /\ Append(q, e) \in Seq(S) /\ Len(Append(q, e)) = Len(q) + 1
         /\ DOMAIN Append(q, e) = DOMAIN q \cup {Len(q) + 1}
         /\ Append(q, e)[Len(q) + 1] = e
         /\ \A i \in DOMAIN q : i # Len(q) + 1 /\ Append(q, e)[i] = q[i]
OBVIOUS

LEMMA NothingInserted == ASSUME NEW S, NEW q \in Seq(S), Len(q) = 0 PROVE q = <<>>
OBVIOUS

LEMMA Rewritten ==
  ASSUME NEW S, NEW q \in Seq(S), NEW f \in [DOMAIN q -> S]
  PROVE  f \in Seq(S) /\ Len(f) = Len(q) /\ DOMAIN f = DOMAIN q
<1>1. DOMAIN q = 1 .. Len(q) /\ Len(q) \in Nat
  OBVIOUS
<1>2. f \in [1 .. Len(q) -> S]
  BY <1>1
<1>3. f \in Seq(S)
  BY <1>1, <1>2
<1> QED
  BY <1>1, <1>2, <1>3

\* An inserted row is the only new one; inserting NULL inserts none.
LEMMA InsertedRows ==
  ASSUME NEW S, NEW q \in Seq(S), NEW e \in S
  PROVE  Rows(Append(q, e)) = Rows(q) \cup (IF e = Null THEN {} ELSE {Len(q) + 1})
BY Inserted DEF Rows

-----------------------------------------------------------------------------
(* The invariant.                                                          *)

PubType ==
  pub \in [Publishers -> [at : {"idle", "resolved"}, doc : Docs \cup {Null},
                          source : Sources \cup {Null}, seen : Sources \cup {Null}]]

\* A publication in flight runs on the newest schema; the original it resolved
\* is named after its File, and is the one the File was bound to, if any.
PubOK(p) ==
  pub[p].at = "resolved" =>
    /\ revision = Latest
    /\ pub[p].doc \in Docs /\ pub[p].source \in Sources /\ pub[p].source[1] = pub[p].doc
    /\ pub[p].seen # Null => pub[p].source = pub[p].seen

\* From the backfill on a File is bound to an original named after it.
FileOK(d) ==
  revision >= 4 /\ d \in Files => files[d].source \in sources /\ files[d].source[1] = d

\* Revisions do not outrun positions, and a state supersedes an older one about
\* the same document.
StateOK(a) ==
  /\ assertions[a].revision <= a
  /\ assertions[a].supersedes < a
  /\ assertions[a].supersedes \in Rows(assertions) =>
       assertions[assertions[a].supersedes].object = assertions[a].object

\* A document has its File and states a document; one state is not superseded.
DocOK(d) ==
  /\ present[d] # {} => d \in Files
  /\ About(d) # {} => "document" \in present[d]
  /\ About(d) # {} =>
       \E a \in About(d) : \A b \in About(d) : Superseded(b) <=> b # a

ProvenanceInv ==
  /\ TypeOK /\ PubType
  /\ revision < Latest => runs = <<>>
  /\ \A p \in Publishers : PubOK(p)
  /\ \A d \in Docs : FileOK(d) /\ DocOK(d)
  /\ \A a \in Rows(assertions) : StateOK(a)
  /\ EvidenceChainHolds
  /\ StatesCiteTheFilesOriginal

LEMMA RowTypes ==
  ASSUME TypeOK
  PROVE  /\ \A r \in Rows(runs) : r \in 1 .. Len(runs) /\ runs[r] \in RunRow
         /\ \A a \in Rows(assertions) : a \in 1 .. Len(runs) /\ assertions[a] \in Assertion
         /\ \A d \in Files : files[d] \in FileRow
         /\ DOMAIN runs = 1 .. Len(runs) /\ DOMAIN assertions = DOMAIN runs
         /\ Len(runs) \in Nat
BY DEF TypeOK, Rows, Files

\* Neither Null nor a File's original is mistaken for the other.
LEMMA NullIsNoRow ==
  /\ Null \notin Sources /\ Null \notin FileRow
  /\ Null \notin RunRow /\ Null \notin Assertion
BY NullAssumption

LEMMA InitOK == ASSUME Init PROVE ProvenanceInv
<1>1. TypeOK
  <2>1. files \in [Docs -> FileRow \cup {Null}]
    BY DEF Init, FileRow
  <2>2. /\ present \in [Docs -> SUBSET References]
        /\ runs \in Seq(RunRow \cup {Null}) /\ assertions \in Seq(Assertion \cup {Null})
        /\ Len(runs) = 0 /\ Len(assertions) = 0
    BY DEF Init
  <2> QED
    BY <2>1, <2>2, LatestIs, ProvenanceAssumption DEF Init, TypeOK
<1>2. PubType /\ \A p \in Publishers : PubOK(p)
  BY DEF Init, PubType, PubOK, Idle
<1>3. Rows(runs) = {} /\ Rows(assertions) = {}
  BY DEF Init, Rows
<1>4. \A d \in Docs : FileOK(d) /\ DocOK(d)
  BY <1>3 DEF Init, FileOK, DocOK, About, Files
<1>5. EvidenceChainHolds /\ StatesCiteTheFilesOriginal
  BY <1>3 DEF Init, EvidenceChainHolds, StatesCiteTheFilesOriginal
<1> QED
  BY <1>1, <1>2, <1>3, <1>4, <1>5 DEF ProvenanceInv, Init

\* Statements that leave the evidence of states alone.
SameEvidence == UNCHANGED <<runs, assertions, spans>>

LEMMA SameStates ==
  ASSUME ProvenanceInv, UNCHANGED assertions
  PROVE  /\ Rows(assertions)' = Rows(assertions)
         /\ \A d : About(d)' = About(d)
         /\ \A a : Superseded(a)' <=> Superseded(a)
         /\ \A a \in Rows(assertions) : StateOK(a)'
BY DEF ProvenanceInv, Rows, About, Superseded, StateOK

-----------------------------------------------------------------------------
(* Upgrade and repair.                                                     *)

LEMMA MigrationKeeps ==
  ASSUME ProvenanceInv, NEW to \in Installed, ApplyMigrations(to)
  PROVE  ProvenanceInv'
<1>0. /\ TypeOK /\ PubType /\ to \in 1 .. 6 /\ revision \in 0 .. 6 /\ revision < to
      /\ revision' = to
  BY ProvenanceAssumption, LatestIs DEF ProvenanceInv, TypeOK, ApplyMigrations
<1>1. /\ UNCHANGED <<stray, present, runs, assertions, spans, pub, overlapped>>
      /\ Rows(runs)' = Rows(runs) /\ Rows(assertions)' = Rows(assertions)
  BY DEF ApplyMigrations, Rows
<1>2. runs = <<>> /\ Rows(assertions) = {}
  <2>1. runs = <<>>
    BY <1>0, LatestIs DEF ProvenanceInv
  <2> QED
    BY <1>0, <2>1 DEF TypeOK, Rows
<1>3. CASE 4 \in revision + 1 .. to
  <2>1. /\ sources' = sources \cup {Backfilled[d] : d \in Files}
        /\ files' = [d \in Docs |-> IF d \in Files
                       THEN [files[d] EXCEPT !.source = Backfilled[d]] ELSE Null]
    BY <1>3 DEF ApplyMigrations
  <2>2. \A d \in Files : /\ Backfilled[d] = <<d, "backfill">>
                        /\ Backfilled[d] \in Sources
                        /\ files[d] \in FileRow
    BY <1>0, RowTypes DEF Backfilled, Sources, Files
  <2>3. \A d \in Files : /\ [files[d] EXCEPT !.source = Backfilled[d]] \in FileRow
                        /\ [files[d] EXCEPT !.source = Backfilled[d]].source = Backfilled[d]
    BY <2>2 DEF FileRow
  <2>4. files' \in [Docs -> FileRow \cup {Null}] /\ sources' \subseteq Sources
    BY <1>0, <2>1, <2>2, <2>3 DEF TypeOK
  <2>5. Files' = Files
    BY <2>1, <2>3, NullIsNoRow DEF Files
  <2>6. \A d \in Docs : FileOK(d)'
    <3>1. \A d \in Files : d \in Docs /\ files'[d].source = <<d, "backfill">>
      BY <2>1, <2>2, <2>3 DEF Files
    <3>2. \A d \in Files : <<d, "backfill">> \in sources'
      BY <2>1, <2>2
    <3>3. ASSUME NEW d \in Docs, d \in Files'
          PROVE  files'[d].source \in sources' /\ files'[d].source[1] = d
      <4>1. d \in Files
        BY <2>5, <3>3
      <4>2. files'[d].source = <<d, "backfill">> /\ <<d, "backfill">> \in sources'
        BY <3>1, <3>2, <4>1
      <4>3. <<d, "backfill">>[1] = d
        OBVIOUS
      <4> QED
        BY <4>2, <4>3
    <3> QED
      BY <3>3 DEF FileOK
  <2>7. \A d \in Docs : DocOK(d)'
    BY <1>1, <1>2, <2>5 DEF ProvenanceInv, DocOK, About
  <2>8. EvidenceChainHolds' /\ StatesCiteTheFilesOriginal' /\ \A a \in Rows(assertions)' : StateOK(a)'
    BY <1>1, <1>2 DEF ProvenanceInv, EvidenceChainHolds, StatesCiteTheFilesOriginal, Rows
  <2>9. TypeOK' /\ PubType' /\ \A p \in Publishers : PubOK(p)'
    BY <1>0, <1>1, <2>4, LatestIs DEF ProvenanceInv, TypeOK, PubType, PubOK
  <2> QED
    BY <1>1, <1>2, <2>6, <2>7, <2>8, <2>9 DEF ProvenanceInv
<1>4. CASE 4 \notin revision + 1 .. to
  <2>1. UNCHANGED <<sources, files>> /\ (to >= 4 => revision >= 4)
    BY <1>0, <1>4 DEF ApplyMigrations
  <2>2. \A d \in Docs : FileOK(d)' /\ DocOK(d)'
    BY <1>0, <1>1, <1>2, <2>1 DEF ProvenanceInv, FileOK, DocOK, Files, About
  <2>3. EvidenceChainHolds' /\ StatesCiteTheFilesOriginal' /\ \A a \in Rows(assertions)' : StateOK(a)'
    BY <1>1, <1>2, <2>1 DEF ProvenanceInv, EvidenceChainHolds, StatesCiteTheFilesOriginal, Rows
  <2>4. TypeOK' /\ PubType' /\ \A p \in Publishers : PubOK(p)'
    BY <1>0, <1>1, <2>1, LatestIs DEF ProvenanceInv, TypeOK, PubType, PubOK
  <2> QED
    BY <1>1, <1>2, <2>2, <2>3, <2>4 DEF ProvenanceInv
<1> QED
  BY <1>3, <1>4

LEMMA RepairKeeps ==
  ASSUME ProvenanceInv, Repair
  PROVE  ProvenanceInv'
<1>1. /\ UNCHANGED <<revision, present, sources, runs, assertions, spans, pub, overlapped>>
      /\ stray' \in BOOLEAN
  BY DEF Repair, ProvenanceInv, TypeOK
<1>2. /\ files' \in [Docs -> FileRow \cup {Null}] /\ Files' = Files
      /\ \A d \in Files : files'[d].source = files[d].source
  <2>1. CASE UNCHANGED files
    BY <2>1 DEF ProvenanceInv, TypeOK, Files
  <2>2. CASE \E d \in Files : files' = [files EXCEPT ![d].lawful = TRUE]
    <3>1. PICK d \in Files : files' = [files EXCEPT ![d].lawful = TRUE]
      BY <2>2
    <3>2. files[d] \in FileRow /\ files \in [Docs -> FileRow \cup {Null}] /\ d \in Docs
      BY RowTypes DEF ProvenanceInv, TypeOK, Files
    <3>3. /\ files'[d] \in FileRow /\ files'[d].source = files[d].source
          /\ \A e \in Docs \ {d} : files'[e] = files[e]
          /\ files' \in [Docs -> FileRow \cup {Null}]
      BY <3>1, <3>2 DEF FileRow
    <3>4. Files' = Files
      BY <3>2, <3>3, NullIsNoRow DEF Files
    <3>5. Files \subseteq Docs
      BY DEF Files
    <3> QED
      BY <3>3, <3>4, <3>5
  <2> QED
    BY <2>1, <2>2 DEF Repair
<1>3. Rows(runs)' = Rows(runs) /\ Rows(assertions)' = Rows(assertions)
  BY <1>1 DEF Rows
<1>4. \A d \in Docs : FileOK(d)' /\ DocOK(d)'
  BY <1>1, <1>2, <1>3, SameStates DEF ProvenanceInv, FileOK, DocOK
<1>5. EvidenceChainHolds' /\ StatesCiteTheFilesOriginal'
  BY <1>1, <1>2, <1>3 DEF ProvenanceInv, EvidenceChainHolds, StatesCiteTheFilesOriginal
<1>6. TypeOK' /\ PubType' /\ \A p \in Publishers : PubOK(p)'
  BY <1>1, <1>2 DEF ProvenanceInv, TypeOK, PubType, PubOK
<1> QED
  BY <1>1, <1>3, <1>4, <1>5, <1>6, SameStates DEF ProvenanceInv

-----------------------------------------------------------------------------
(* Publications.                                                           *)

LEMMA ResolveKeeps ==
  ASSUME ProvenanceInv, NEW p \in Publishers, NEW d \in Published, NEW content \in Contents,
         ResolvePrimarySource(p, d, content)
  PROVE  ProvenanceInv'
<1>1. /\ UNCHANGED <<revision, stray, files, present, sources, runs, assertions, spans, overlapped>>
      /\ revision = 6
  BY LatestIs DEF ResolvePrimarySource
<1>2. d \in Docs /\ FileOK(d)
  BY ProvenanceAssumption DEF ProvenanceInv
<1>3. /\ ResolvedSource(d, content) \in Sources /\ ResolvedSource(d, content)[1] = d
      /\ BoundTo(d) \in Sources \cup {Null}
      /\ BoundTo(d) # Null => ResolvedSource(d, content) = BoundTo(d)
  <2>1. CASE d \in Files
    <3>1. files[d].source \in Sources /\ files[d].source[1] = d
      BY <1>1, <1>2, <2>1 DEF FileOK, ProvenanceInv, TypeOK
    <3> QED
      BY <2>1, <3>1 DEF ResolvedSource, BoundTo
  <2>2. CASE d \notin Files
    BY <1>2, <2>2 DEF ResolvedSource, BoundTo, Sources
  <2> QED
    BY <2>1, <2>2
<1> DEFINE rec == [at |-> "resolved", doc |-> d, source |-> ResolvedSource(d, content),
                   seen |-> BoundTo(d)]
<1>4. pub' = [pub EXCEPT ![p] = rec]
  BY DEF ResolvePrimarySource
<1>5. PubType'
  BY <1>2, <1>3, <1>4 DEF ProvenanceInv, PubType
<1>6. \A q \in Publishers : PubOK(q)'
  BY <1>1, <1>2, <1>3, <1>4, LatestIs DEF ProvenanceInv, PubType, PubOK
<1>7. TypeOK'
  BY <1>1 DEF ProvenanceInv, TypeOK
<1>8. Rows(runs)' = Rows(runs) /\ Rows(assertions)' = Rows(assertions) /\ Files' = Files
  BY <1>1 DEF Rows, Files
<1>9. \A e \in Docs : FileOK(e)' /\ DocOK(e)'
  BY <1>1, <1>8, SameStates DEF ProvenanceInv, FileOK, DocOK
<1>10. EvidenceChainHolds' /\ StatesCiteTheFilesOriginal'
  BY <1>1, <1>8 DEF ProvenanceInv, EvidenceChainHolds, StatesCiteTheFilesOriginal
<1> QED
  BY <1>1, <1>5, <1>6, <1>7, <1>8, <1>9, <1>10, SameStates DEF ProvenanceInv

\* The run a publication records.
LEMMA RunType ==
  ASSUME ProvenanceInv, NEW p \in Publishers, pub[p].at = "resolved",
         NEW status \in {"succeeded", "failed"}, NEW refs \in SUBSET References
  PROVE  /\ Run(p, status, refs) \in RunRow /\ Run(p, status, refs) # Null
         /\ Run(p, status, refs).source = pub[p].source
         /\ Run(p, status, refs).status = status
BY NullIsNoRow DEF ProvenanceInv, PubOK, Run, RunRow

\* Revisions and supersession of an accepted publication.
LEMMA AcceptedState ==
  ASSUME ProvenanceInv, NEW d \in Docs, Len(runs) < MaxRuns
  PROVE  /\ NextRevision(d) \in 1 .. Len(runs) + 1
         /\ Prior(d) \in 0 .. Len(runs)
         /\ About(d) = {} => Prior(d) = 0
         /\ About(d) # {} => /\ Prior(d) \in About(d)
                             /\ \A a \in About(d) : Superseded(a) <=> a # Prior(d)
<1>1. /\ TypeOK /\ Len(runs) \in Nat /\ DocOK(d)
      /\ \A a \in Rows(assertions) : /\ a \in 1 .. Len(runs) /\ assertions[a] \in Assertion
                                     /\ StateOK(a)
  BY RowTypes DEF ProvenanceInv
<1>2. About(d) \subseteq Rows(assertions)
  BY DEF About
<1>3. NextRevision(d) \in 1 .. Len(runs) + 1
  <2> DEFINE S == {assertions[a].revision : a \in About(d)} \cup {0}
  <2>1. \A x \in S : x \in Nat /\ x <= Len(runs)
    <3>1. ASSUME NEW a \in About(d)
          PROVE  assertions[a].revision \in Nat /\ assertions[a].revision <= Len(runs)
      <4>1. /\ assertions[a].revision \in 1 .. MaxRuns /\ assertions[a].revision <= a
            /\ a \in 1 .. Len(runs)
        BY <1>1, <1>2 DEF Assertion, StateOK
      <4> QED
        BY <1>1, <4>1, ProvenanceAssumption
    <3> QED
      BY <1>1, <3>1
  <2>2. IsFiniteSet(S)
    <3>1. S \in SUBSET Nat
      BY <2>1
    <3> HIDE DEF S
    <3> QED
      BY <1>1, <2>1, <3>1, FS_BoundedSetOfNaturals
  <2>3. S \in SUBSET Int /\ S # {}
    BY <2>1
  <2>4. Max(S) \in S
    <3> HIDE DEF S
    <3> QED
      BY <2>2, <2>3, FiniteMax
  <2>5. NextRevision(d) = 1 + Max(S)
    BY DEF NextRevision
  <2> HIDE DEF S
  <2> QED
    BY <1>1, <2>1, <2>4, <2>5
<1>4. CASE About(d) = {}
  <2>1. Prior(d) = 0
    BY <1>4 DEF Prior
  <2> QED
    BY <1>1, <1>3, <1>4, <2>1
<1>5. CASE About(d) # {}
  <2>1. PICK a \in About(d) : \A b \in About(d) : Superseded(b) <=> b # a
    BY <1>1, <1>5 DEF DocOK
  <2>2. {b \in About(d) : ~Superseded(b)} = {a}
    BY <2>1
  <2>3. a \in Int /\ a \in 0 .. Len(runs)
    BY <1>1, <1>2
  <2>4. Max({a}) = a
    BY <2>3 DEF Max
  <2>5. Prior(d) = a
    BY <2>2, <2>4 DEF Prior
  <2> QED
    BY <1>3, <1>5, <2>1, <2>3, <2>5
<1> QED
  BY <1>4, <1>5

\* An accepted publication extends the evidence by one run and the state it
\* supports; the rest of the tables stands.
LEMMA AcceptKeeps ==
  ASSUME ProvenanceInv, NEW p \in Publishers, Accept(p)
  PROVE  ProvenanceInv'
<1>a. pub[p].doc \in Docs /\ Len(runs) \in Nat
  BY RowTypes DEF ProvenanceInv, PubOK, Accept
<1>d. PICK d \in Docs : d = pub[p].doc
  BY <1>a
<1>n. PICK n \in Nat : n = Len(runs) + 1
  BY <1>a
<1> DEFINE run == Run(p, "succeeded", References)
           state == [object |-> d, revision |-> NextRevision(d), supersedes |-> Prior(d),
                     source |-> pub[p].source, run |-> n]
<1>1. /\ TypeOK /\ PubType /\ revision = 6 /\ Len(runs) \in Nat /\ Len(runs) < MaxRuns
      /\ d \in Docs /\ pub[p].source \in Sources /\ pub[p].source[1] = d
      /\ pub[p].seen # Null => pub[p].source = pub[p].seen
      /\ pub[p].at = "resolved" /\ Len(assertions) = Len(runs)
  BY <1>d, LatestIs, RowTypes DEF ProvenanceInv, PubOK, Accept, TypeOK
<1>2. /\ UNCHANGED <<revision, stray, spans>>
      /\ sources' = sources \cup {pub[p].source}
      /\ files' = [files EXCEPT ![d] = IF files[d] = Null
                     THEN [lawful |-> TRUE, source |-> pub[p].source] ELSE files[d]]
      /\ present' = [present EXCEPT ![d] = References]
      /\ runs' = Append(runs, run)
      /\ assertions' = Append(assertions, state)
      /\ overlapped' = IF pub[p].seen # BoundTo(d) THEN overlapped \cup {d} ELSE overlapped
      /\ pub' = [pub EXCEPT ![p] = Idle]
  BY <1>d, <1>n DEF Accept
<1>3. /\ run \in RunRow /\ run # Null /\ run.source = pub[p].source
      /\ run.status = "succeeded"
  BY <1>1, RunType
<1>4. /\ NextRevision(d) \in 1 .. n /\ Prior(d) \in 0 .. Len(runs)
      /\ About(d) = {} => Prior(d) = 0
      /\ About(d) # {} => /\ Prior(d) \in About(d)
                          /\ \A a \in About(d) : Superseded(a) <=> a # Prior(d)
  BY <1>1, <1>n, AcceptedState
<1>5. /\ state \in Assertion /\ state # Null /\ state.object = d /\ state.revision <= n
      /\ state.supersedes = Prior(d) /\ state.source = pub[p].source /\ state.run = n
  <2>1. /\ NextRevision(d) \in 1 .. MaxRuns /\ Prior(d) \in 0 .. MaxRuns
        /\ n \in 1 .. MaxRuns /\ NextRevision(d) <= n
    BY <1>1, <1>4, <1>n, ProvenanceAssumption
  <2>2. state \in Assertion
    BY <1>1, <2>1 DEF Assertion
  <2> QED
    BY <2>1, <2>2, NullIsNoRow
<1> HIDE DEF run, state
<1>6. /\ runs' \in Seq(RunRow \cup {Null}) /\ Len(runs') = n
      /\ Rows(runs)' = Rows(runs) \cup {n} /\ n \notin Rows(runs)
      /\ runs'[n] = run /\ \A r \in Rows(runs) : runs'[r] = runs[r]
  <2>1. runs \in Seq(RunRow \cup {Null}) /\ run \in RunRow \cup {Null}
    BY <1>1, <1>3 DEF TypeOK
  <2>2. Rows(runs') = Rows(runs) \cup {n}
    BY <1>2, <1>3, <1>n, <2>1, InsertedRows
  <2>3. Rows(runs)' = Rows(runs')
    BY DEF Rows
  <2>4. Rows(runs) \subseteq DOMAIN runs
    BY DEF Rows
  <2> QED
    BY <1>2, <1>n, <2>1, <2>2, <2>3, <2>4, Inserted
<1>7. /\ assertions' \in Seq(Assertion \cup {Null}) /\ Len(assertions') = n
      /\ Rows(assertions)' = Rows(assertions) \cup {n} /\ n \notin Rows(assertions)
      /\ assertions'[n] = state /\ \A a \in Rows(assertions) : assertions'[a] = assertions[a]
  <2>1. assertions \in Seq(Assertion \cup {Null}) /\ state \in Assertion \cup {Null}
    BY <1>1, <1>5 DEF TypeOK
  <2>2. Rows(assertions') = Rows(assertions) \cup {n}
    BY <1>1, <1>2, <1>5, <1>n, <2>1, InsertedRows
  <2>3. Rows(assertions)' = Rows(assertions')
    BY DEF Rows
  <2>4. Rows(assertions) \subseteq DOMAIN assertions
    BY DEF Rows
  <2> QED
    BY <1>1, <1>2, <1>n, <2>1, <2>2, <2>3, <2>4, Inserted
<1>8. /\ files' \in [Docs -> FileRow \cup {Null}] /\ Files' = Files \cup {d}
      /\ \A e \in Files : files'[e] = files[e]
      /\ d \notin Files => files'[d].source = pub[p].source
  <2> DEFINE row == [lawful |-> TRUE, source |-> pub[p].source]
  <2>1. row \in FileRow /\ row.source = pub[p].source
    BY <1>1 DEF FileRow
  <2>2. files \in [Docs -> FileRow \cup {Null}]
    BY <1>1 DEF TypeOK
  <2>3. /\ files' \in [Docs -> FileRow \cup {Null}]
        /\ \A e \in Docs \ {d} : files'[e] = files[e]
        /\ files[d] # Null => files'[d] = files[d]
        /\ files[d] = Null => files'[d] # Null /\ files'[d].source = pub[p].source
    <3>1. files' = [files EXCEPT ![d] = IF files[d] = Null THEN row ELSE files[d]]
      BY <1>2
    <3> HIDE DEF row
    <3> QED
      BY <1>1, <2>1, <2>2, <3>1, NullIsNoRow
  <2> QED
    BY <1>1, <2>3 DEF Files
<1>9. /\ About(d)' = About(d) \cup {n}
      /\ \A e \in Docs : e # d => About(e)' = About(e)
  BY <1>5, <1>7 DEF About
<1>10. \A a \in Rows(assertions) : a \in 1 .. Len(runs) /\ assertions[a] \in Assertion /\ StateOK(a)
  BY RowTypes DEF ProvenanceInv
<1>11. /\ \A a \in Rows(assertions) : Superseded(a)' <=> (Superseded(a) \/ a = Prior(d))
       /\ ~Superseded(n)'
  <2>1. \A a \in Rows(assertions) : Superseded(a)' <=> (Superseded(a) \/ a = Prior(d))
    BY <1>5, <1>7 DEF Superseded
  <2>2. ~Superseded(n)'
    <3>1. \A b \in Rows(assertions) : assertions[b].supersedes # n
      <4>1. \A b \in Rows(assertions) :
              b \in 1 .. Len(runs) /\ assertions[b].supersedes \in 0 .. MaxRuns
                /\ assertions[b].supersedes < b
        BY <1>10 DEF StateOK, Assertion
      <4> QED
        BY <1>1, <1>n, <4>1, ProvenanceAssumption
    <3>2. Prior(d) # n
      BY <1>1, <1>4, <1>n
    <3> QED
      BY <1>5, <1>7, <3>1, <3>2 DEF Superseded
  <2> QED
    BY <2>1, <2>2
<1>12. \A e \in Docs : FileOK(e)'
  BY <1>1, <1>2, <1>8 DEF ProvenanceInv, FileOK
<1>13. \A e \in Docs : DocOK(e)'
  <2>1. ASSUME NEW e \in Docs, e # d PROVE DocOK(e)'
    <3>1. /\ present'[e] = present[e] /\ (e \in Files => e \in Files')
          /\ About(e)' = About(e)
      BY <1>1, <1>2, <1>8, <1>9, <2>1 DEF TypeOK
    <3>2. \A a \in About(e) : Superseded(a)' <=> Superseded(a)
      <4>1. ASSUME NEW a \in About(e) PROVE a # Prior(d) /\ a \in Rows(assertions)
        <5>1. a \in Rows(assertions) /\ assertions[a].object = e /\ a # 0
          BY <1>10 DEF About
        <5>2. About(d) # {} => assertions[Prior(d)].object = d
          BY <1>4 DEF About
        <5> QED
          BY <1>4, <2>1, <5>1, <5>2
      <4> QED
        BY <1>11, <4>1
    <3>3. DocOK(e)
      BY DEF ProvenanceInv
    <3> QED
      BY <3>1, <3>2, <3>3 DEF DocOK
  <2>2. DocOK(d)'
    <3>1. present'[d] = References /\ d \in Files'
      BY <1>1, <1>2, <1>8 DEF TypeOK
    <3>2. \A a \in About(d) : a \in Rows(assertions) /\ a # n
      BY <1>7 DEF About
    <3>3. \A a \in About(d)' : Superseded(a)' <=> a # n
      BY <1>4, <1>9, <1>11, <3>2
    <3> QED
      BY <1>9, <3>1, <3>3 DEF DocOK, References
  <2> QED
    BY <2>1, <2>2
<1>14. \A a \in Rows(assertions)' : StateOK(a)'
  <2>1. ASSUME NEW a \in Rows(assertions) PROVE StateOK(a)'
    <3>1. /\ assertions'[a] = assertions[a] /\ StateOK(a) /\ assertions[a].supersedes < a
          /\ a \in 1 .. Len(runs) /\ assertions[a].supersedes \in 0 .. MaxRuns
      BY <1>7, <1>10 DEF StateOK, Assertion
    <3>2. assertions[a].supersedes # n
      BY <1>1, <3>1, ProvenanceAssumption, <1>n
    <3> QED
      BY <1>7, <3>1, <3>2 DEF StateOK
  <2>2. StateOK(n)'
    <3>1. Prior(d) < n /\ Prior(d) # n
      BY <1>1, <1>4, <1>n
    <3>2. Prior(d) \in Rows(assertions) => assertions[Prior(d)].object = d
      <4>1. Prior(d) = 0 => Prior(d) \notin Rows(assertions)
        BY <1>10
      <4> QED
        BY <1>4, <4>1 DEF About
    <3> QED
      BY <1>5, <1>7, <3>1, <3>2 DEF StateOK
  <2> QED
    BY <1>7, <2>1, <2>2
<1>15. EvidenceChainHolds'
  <2>1. \A r \in Rows(runs)' : runs'[r].source \in sources'
    BY <1>2, <1>3, <1>6 DEF ProvenanceInv, EvidenceChainHolds
  <2>2. ASSUME NEW a \in Rows(assertions)'
        PROVE  LET r == assertions'[a].run
               IN  r \in Rows(runs)' /\ runs'[r].source = assertions'[a].source
                     /\ runs'[r].status = "succeeded"
    BY <1>3, <1>5, <1>6, <1>7 DEF ProvenanceInv, EvidenceChainHolds
  <2>3. \A s \in spans' : s.run \in Rows(runs)' /\ runs'[s.run].status = "failed"
    BY <1>2, <1>6 DEF ProvenanceInv, EvidenceChainHolds
  <2> QED
    BY <2>1, <2>2, <2>3 DEF EvidenceChainHolds
<1>16. StatesCiteTheFilesOriginal'
  <2>1. ASSUME NEW a \in Rows(assertions)', assertions'[a].object \in Files',
               assertions'[a].object \notin overlapped'
        PROVE  assertions'[a].source = files'[assertions'[a].object].source
    <3>1. CASE a \in Rows(assertions)
      <4>1. assertions'[a] = assertions[a] /\ overlapped \subseteq overlapped'
        BY <1>2, <1>7, <3>1
      <4>2. assertions[a].object \in Files
        <5>1. a \in About(assertions[a].object) /\ assertions[a].object \in Docs
          BY <1>10, <3>1 DEF About, Assertion
        <5> QED
          BY <5>1 DEF ProvenanceInv, DocOK
      <4> QED
        BY <1>8, <2>1, <3>1, <4>1, <4>2 DEF ProvenanceInv, StatesCiteTheFilesOriginal
    <3>2. CASE a = n
      <4>1. assertions'[a].object = d /\ assertions'[a].source = pub[p].source
        BY <1>5, <1>7, <3>2
      <4>2. pub[p].seen = BoundTo(d)
        BY <1>2, <2>1, <4>1
      <4>3. CASE d \in Files
        <5>1. BoundTo(d) = files[d].source /\ files[d].source \in Sources
          <6>1. FileOK(d)
            BY <1>1 DEF ProvenanceInv
          <6> QED
            BY <1>1, <4>3, <6>1 DEF BoundTo, FileOK, TypeOK
        <5> QED
          BY <1>1, <1>8, <4>1, <4>2, <4>3, <5>1, NullIsNoRow
      <4>4. CASE d \notin Files
        BY <1>8, <4>1, <4>4
      <4> QED
        BY <4>3, <4>4
    <3> QED
      BY <1>7, <3>1, <3>2
  <2> QED
    BY <2>1 DEF StatesCiteTheFilesOriginal
<1>17. TypeOK'
  <2>1. /\ present' \in [Docs -> SUBSET References] /\ overlapped' \subseteq Docs
        /\ sources' \subseteq Sources
    BY <1>1, <1>2 DEF TypeOK
  <2>2. n <= MaxRuns
    BY <1>1, ProvenanceAssumption, <1>n
  <2> QED
    BY <1>1, <1>2, <1>6, <1>7, <1>8, <2>1, <2>2 DEF TypeOK
<1>18. PubType' /\ \A q \in Publishers : PubOK(q)'
  BY <1>1, <1>2 DEF ProvenanceInv, PubType, PubOK, Idle
<1>19. (revision < Latest)' => runs' = <<>>
  BY <1>1, <1>2, LatestIs
<1> QED
  BY <1>12, <1>13, <1>14, <1>15, <1>16, <1>17, <1>18, <1>19 DEF ProvenanceInv

\* A refused publication leaves a failed run and a span, no state.
LEMMA RefuseKeeps ==
  ASSUME ProvenanceInv, NEW p \in Publishers, Refuse(p)
  PROVE  ProvenanceInv'
<1>a. /\ pub[p].doc \in Docs /\ Len(runs) \in Nat
      /\ runs \in Seq(RunRow \cup {Null}) /\ assertions \in Seq(Assertion \cup {Null})
  BY RowTypes DEF ProvenanceInv, PubOK, Refuse, TypeOK
<1>n. PICK n \in Nat : n = Len(runs) + 1
  BY <1>a
<1> DEFINE run == Run(p, "failed", {})
           span == [run |-> n, doc |-> pub[p].doc]
<1>1. /\ TypeOK /\ PubType /\ revision = 6 /\ Len(runs) < MaxRuns
      /\ pub[p].source \in Sources /\ Len(assertions) = Len(runs)
  BY LatestIs DEF ProvenanceInv, PubOK, Refuse, TypeOK
<1>2. /\ UNCHANGED <<revision, stray, files, present, overlapped>>
      /\ sources' = sources \cup {pub[p].source}
      /\ runs' = Append(runs, run) /\ assertions' = Append(assertions, Null)
      /\ spans' = spans \cup {span}
      /\ pub' = [pub EXCEPT ![p] = Idle]
  BY <1>n DEF Refuse
<1>3. run \in RunRow /\ run # Null /\ run.source = pub[p].source /\ run.status = "failed"
  <2>1. pub[p].at = "resolved"
    BY DEF Refuse
  <2> QED
    BY <2>1, RunType
<1>4. span \in Span /\ span.run = n /\ n <= MaxRuns
  <2>1. n \in 1 .. MaxRuns
    BY <1>a, <1>1, <1>n, ProvenanceAssumption
  <2> QED
    BY <1>a, <2>1 DEF Span
<1> HIDE DEF run, span
<1>5. /\ runs' \in Seq(RunRow \cup {Null}) /\ Len(runs') = n
      /\ Rows(runs)' = Rows(runs) \cup {n} /\ n \notin Rows(runs)
      /\ runs'[n] = run /\ \A r \in Rows(runs) : runs'[r] = runs[r]
  <2>1. run \in RunRow \cup {Null}
    BY <1>3
  <2>2. Rows(runs') = Rows(runs) \cup {n}
    BY <1>a, <1>2, <1>3, <1>n, <2>1, InsertedRows
  <2>3. Rows(runs)' = Rows(runs') /\ Rows(runs) \subseteq DOMAIN runs
    BY DEF Rows
  <2> QED
    BY <1>a, <1>2, <1>n, <2>1, <2>2, <2>3, Inserted
<1>6. /\ assertions' \in Seq(Assertion \cup {Null}) /\ Len(assertions') = n
      /\ Rows(assertions)' = Rows(assertions)
      /\ \A a \in Rows(assertions) : assertions'[a] = assertions[a]
  <2>1. Null \in Assertion \cup {Null} /\ Rows(assertions') = Rows(assertions)
    <3>1. Null \in Assertion \cup {Null}
      OBVIOUS
    <3>2. Rows(Append(assertions, Null)) = Rows(assertions) \cup {}
      BY <1>a, <3>1, InsertedRows
    <3> QED
      BY <1>2, <3>1, <3>2
  <2>2. Rows(assertions)' = Rows(assertions') /\ Rows(assertions) \subseteq DOMAIN assertions
    BY DEF Rows
  <2> QED
    BY <1>a, <1>1, <1>2, <1>n, <2>1, <2>2, Inserted
<1>7. /\ \A d \in Docs : About(d)' = About(d)
      /\ \A a : Superseded(a)' <=> Superseded(a)
  BY <1>6 DEF About, Superseded
<1>8. \A d \in Docs : FileOK(d)' /\ DocOK(d)'
  BY <1>2, <1>7 DEF ProvenanceInv, FileOK, DocOK, Files
<1>9. \A a \in Rows(assertions)' : StateOK(a)'
  BY <1>6 DEF ProvenanceInv, StateOK
<1>10. EvidenceChainHolds'
  <2>1. \A r \in Rows(runs)' : runs'[r].source \in sources'
    BY <1>2, <1>3, <1>5 DEF ProvenanceInv, EvidenceChainHolds
  <2>2. \A a \in Rows(assertions)' :
          LET r == assertions'[a].run
          IN  r \in Rows(runs)' /\ runs'[r].source = assertions'[a].source
                /\ runs'[r].status = "succeeded"
    BY <1>5, <1>6 DEF ProvenanceInv, EvidenceChainHolds
  <2>3. \A s \in spans' : s.run \in Rows(runs)' /\ runs'[s.run].status = "failed"
    <3>1. \A s \in spans : s.run \in Rows(runs)' /\ runs'[s.run].status = "failed"
      BY <1>5 DEF ProvenanceInv, EvidenceChainHolds
    <3>2. span.run \in Rows(runs)' /\ runs'[span.run].status = "failed"
      BY <1>3, <1>4, <1>5
    <3> QED
      BY <1>2, <3>1, <3>2
  <2> QED
    BY <2>1, <2>2, <2>3 DEF EvidenceChainHolds
<1>11. StatesCiteTheFilesOriginal'
  BY <1>2, <1>6 DEF ProvenanceInv, StatesCiteTheFilesOriginal, Files
<1>12. TypeOK'
  BY <1>1, <1>2, <1>4, <1>5, <1>6 DEF TypeOK
<1>13. PubType' /\ \A q \in Publishers : PubOK(q)'
  BY <1>1, <1>2 DEF ProvenanceInv, PubType, PubOK, Idle
<1>14. ~(revision < Latest)'
  BY <1>1, <1>2, LatestIs
<1> QED
  BY <1>8, <1>9, <1>10, <1>11, <1>12, <1>13, <1>14 DEF ProvenanceInv

-----------------------------------------------------------------------------
(* Statements on the evidence.                                             *)

\* A statement that rewrites runs in place: each remaining row keeps what the
\* evidence refers to, and a removed one is cited by nothing.
LEMMA RunsRewritten ==
  ASSUME ProvenanceInv,
         NEW kept, NEW f,
         f \in [DOMAIN runs -> RunRow \cup {Null}], runs' = f,
         kept = {r \in Rows(runs) : f[r] # Null},
         \A r \in DOMAIN runs : f[r] # Null => r \in Rows(runs),
         \A r \in kept : f[r].source = runs[r].source /\ f[r].status = runs[r].status,
         \A a \in Rows(assertions) : assertions[a].run \in kept,
         \A s \in spans : s.run \in kept,
         UNCHANGED <<revision, stray, files, sources, spans, pub, overlapped>>,
         UNCHANGED <<present, assertions>>
  PROVE  ProvenanceInv'
<1>1. /\ runs' \in Seq(RunRow \cup {Null}) /\ Len(runs') = Len(runs)
      /\ DOMAIN runs' = DOMAIN runs
  <2>1. runs \in Seq(RunRow \cup {Null})
    BY DEF ProvenanceInv, TypeOK
  <2>2. f \in Seq(RunRow \cup {Null}) /\ Len(f) = Len(runs) /\ DOMAIN f = DOMAIN runs
    BY <2>1, Rewritten
  <2> QED
    BY <2>2
<1>2. Rows(runs)' = kept
  BY <1>1 DEF Rows
<1>3. EvidenceChainHolds'
  BY <1>2, SameStates DEF ProvenanceInv, EvidenceChainHolds
<1>4. StatesCiteTheFilesOriginal'
  BY SameStates DEF ProvenanceInv, StatesCiteTheFilesOriginal, Files
<1>5. \A d \in Docs : FileOK(d)' /\ DocOK(d)'
  BY SameStates DEF ProvenanceInv, FileOK, DocOK, Files
<1>6. TypeOK' /\ PubType' /\ \A q \in Publishers : PubOK(q)'
  <2>1. TypeOK'
    <3>1. Len(runs') <= MaxRuns /\ Len(assertions') = Len(runs')
      BY <1>1 DEF ProvenanceInv, TypeOK
    <3>2. /\ files' \in [Docs -> FileRow \cup {Null}] /\ present' \in [Docs -> SUBSET References]
          /\ assertions' \in Seq(Assertion \cup {Null})
      BY DEF ProvenanceInv, TypeOK
    <3>3. /\ revision' \in 0 .. Latest /\ stray' \in BOOLEAN /\ sources' \subseteq Sources
          /\ spans' \subseteq Span /\ overlapped' \subseteq Docs
      BY DEF ProvenanceInv, TypeOK
    <3> QED
      BY <1>1, <3>1, <3>2, <3>3 DEF TypeOK
  <2>2. PubType' /\ \A q \in Publishers : PubOK(q)'
    BY DEF ProvenanceInv, PubType, PubOK
  <2> QED
    BY <2>1, <2>2
<1>7. (revision < Latest)' => runs' = <<>>
  BY <1>1 DEF ProvenanceInv
<1> QED
  BY <1>3, <1>4, <1>5, <1>6, <1>7, SameStates DEF ProvenanceInv

LEMMA UpdateRunKeeps ==
  ASSUME ProvenanceInv, NEW r \in 1 .. MaxRuns, NEW new \in RunRow, UpdateRun(r, new)
  PROVE  ProvenanceInv'
<1>1. /\ r \in Rows(runs) /\ runs[r] \in RunRow /\ Rows(runs) \subseteq DOMAIN runs
      /\ runs \in Seq(RunRow \cup {Null}) /\ new # Null
  BY RowTypes, NullIsNoRow DEF ProvenanceInv, UpdateRun, Rows, TypeOK
<1>2. new.source = runs[r].source /\ new.status = runs[r].status
  <2>1. /\ RunTrigger(runs[r], new) /\ runs[r].status \in Terminal
    BY <1>1 DEF UpdateRun, RunRow, Terminal
  <2>2. /\ [new EXCEPT !.refs = {}].status = new.status
        /\ [runs[r] EXCEPT !.refs = {}].status = runs[r].status
    BY <1>1 DEF RunRow
  <2> QED
    BY <2>1, <2>2 DEF RunTrigger
<1> DEFINE f == [runs EXCEPT ![r] = new]
<1>3. /\ f \in [DOMAIN runs -> RunRow \cup {Null}] /\ runs' = f
      /\ Rows(runs) = {q \in Rows(runs) : f[q] # Null}
      /\ \A q \in DOMAIN runs : f[q] # Null => q \in Rows(runs)
      /\ \A q \in Rows(runs) : f[q].source = runs[q].source /\ f[q].status = runs[q].status
  <2>1. /\ DOMAIN f = DOMAIN runs /\ f[r] = new
        /\ \A q \in DOMAIN runs : q # r => f[q] = runs[q]
    BY <1>1
  <2>2. \A q \in DOMAIN runs : f[q] \in RunRow \cup {Null}
    BY <1>1, <2>1
  <2>3. f \in [DOMAIN runs -> RunRow \cup {Null}] /\ runs' = f
    BY <2>1, <2>2 DEF UpdateRun
  <2> HIDE DEF f
  <2> QED
    BY <1>1, <1>2, <2>1, <2>3 DEF Rows
<1>4. /\ \A a \in Rows(assertions) : assertions[a].run \in Rows(runs)
      /\ \A s \in spans : s.run \in Rows(runs)
      /\ UNCHANGED <<revision, stray, files, sources, spans, pub, overlapped>>
      /\ UNCHANGED <<present, assertions>>
  BY DEF ProvenanceInv, EvidenceChainHolds, UpdateRun
<1> HIDE DEF f
<1> QED
  BY <1>3, <1>4, RunsRewritten

LEMMA DeleteRunKeeps ==
  ASSUME ProvenanceInv, NEW r \in 1 .. MaxRuns, DeleteRun(r)
  PROVE  ProvenanceInv'
<1>1. /\ r \in Rows(runs) /\ Rows(runs) \subseteq DOMAIN runs
      /\ runs \in Seq(RunRow \cup {Null})
  BY DEF ProvenanceInv, DeleteRun, Rows, TypeOK
<1> DEFINE f == [runs EXCEPT ![r] = Null]
           kept == Rows(runs) \ {r}
<1>2. /\ f \in [DOMAIN runs -> RunRow \cup {Null}] /\ runs' = f
      /\ kept = {q \in Rows(runs) : f[q] # Null}
      /\ \A q \in DOMAIN runs : f[q] # Null => q \in Rows(runs)
      /\ \A q \in kept : f[q].source = runs[q].source /\ f[q].status = runs[q].status
  <2>1. /\ DOMAIN f = DOMAIN runs /\ f[r] = Null
        /\ \A q \in DOMAIN runs : q # r => f[q] = runs[q]
    BY <1>1
  <2>2. \A q \in DOMAIN runs : f[q] \in RunRow \cup {Null}
    BY <1>1, <2>1
  <2>3. f \in [DOMAIN runs -> RunRow \cup {Null}] /\ runs' = f
    BY <2>1, <2>2 DEF DeleteRun
  <2> HIDE DEF f
  <2> QED
    BY <1>1, <2>1, <2>3 DEF Rows
<1>3. /\ \A a \in Rows(assertions) : assertions[a].run \in kept
      /\ \A s \in spans : s.run \in kept
      /\ UNCHANGED <<revision, stray, files, sources, spans, pub, overlapped>>
      /\ UNCHANGED <<present, assertions>>
  BY DEF ProvenanceInv, EvidenceChainHolds, DeleteRun
<1> HIDE DEF f, kept
<1> QED
  BY <1>2, <1>3, RunsRewritten

LEMMA DeleteFileKeeps ==
  ASSUME ProvenanceInv, NEW d \in Docs, DeleteFile(d)
  PROVE  ProvenanceInv'
<1>1. /\ UNCHANGED <<revision, stray, present, sources, runs, assertions, spans, pub, overlapped>>
      /\ d \in Files /\ present[d] = {} /\ files' = [files EXCEPT ![d] = Null]
  BY DEF DeleteFile
<1>2. /\ files' \in [Docs -> FileRow \cup {Null}] /\ Files' = Files \ {d}
      /\ \A e \in Files' : files'[e] = files[e]
  <2>1. files \in [Docs -> FileRow \cup {Null}]
    BY DEF ProvenanceInv, TypeOK
  <2> QED
    BY <1>1, <2>1 DEF Files
<1>3. Rows(runs)' = Rows(runs) /\ Rows(assertions)' = Rows(assertions)
  BY <1>1 DEF Rows
<1>4. \A e \in Docs : FileOK(e)' /\ DocOK(e)'
  BY <1>1, <1>2, SameStates DEF ProvenanceInv, FileOK, DocOK
<1>5. EvidenceChainHolds' /\ StatesCiteTheFilesOriginal'
  BY <1>1, <1>2, <1>3 DEF ProvenanceInv, EvidenceChainHolds, StatesCiteTheFilesOriginal
<1>6. TypeOK' /\ PubType' /\ \A q \in Publishers : PubOK(q)'
  BY <1>1, <1>2 DEF ProvenanceInv, TypeOK, PubType, PubOK
<1> QED
  BY <1>1, <1>3, <1>4, <1>5, <1>6, SameStates DEF ProvenanceInv

LEMMA DeleteSourceKeeps ==
  ASSUME ProvenanceInv, NEW s \in Sources, DeleteSource(s)
  PROVE  ProvenanceInv'
<1>1. /\ UNCHANGED <<revision, stray, files, present, runs, assertions, spans, pub, overlapped>>
      /\ sources' = sources \ {s}
      /\ \A d \in Files : files[d].source # s
      /\ \A r \in Rows(runs) : runs[r].source # s
  BY DEF DeleteSource
<1>2. Rows(runs)' = Rows(runs) /\ Rows(assertions)' = Rows(assertions) /\ Files' = Files
  BY <1>1 DEF Rows, Files
<1>3. \A e \in Docs : FileOK(e)' /\ DocOK(e)'
  BY <1>1, <1>2, SameStates DEF ProvenanceInv, FileOK, DocOK
<1>4. EvidenceChainHolds' /\ StatesCiteTheFilesOriginal'
  BY <1>1, <1>2 DEF ProvenanceInv, EvidenceChainHolds, StatesCiteTheFilesOriginal
<1>5. TypeOK' /\ PubType' /\ \A q \in Publishers : PubOK(q)'
  BY <1>1 DEF ProvenanceInv, TypeOK, PubType, PubOK
<1> QED
  BY <1>1, <1>2, <1>3, <1>4, <1>5, SameStates DEF ProvenanceInv

\* Deleting a document removes the states about it all at once, and no state of
\* another document hangs from them.
LEMMA DeleteRowsKeeps ==
  ASSUME ProvenanceInv, NEW d \in Docs, NEW gone \in SUBSET References, DeleteRows(d, gone)
  PROVE  ProvenanceInv'
<1> DEFINE f == [r \in DOMAIN runs |->
                   IF r \in Citing(d, gone) THEN Released(runs[r], gone) ELSE runs[r]]
           g == [a \in DOMAIN assertions |->
                   IF "document" \in gone /\ a \in About(d) THEN Null ELSE assertions[a]]
<1>1. /\ TypeOK /\ runs \in Seq(RunRow \cup {Null}) /\ assertions \in Seq(Assertion \cup {Null})
      /\ gone \subseteq present[d] /\ ("document" \in gone => gone = present[d])
      /\ present' = [present EXCEPT ![d] = present[d] \ gone]
      /\ UNCHANGED <<revision, stray, files, sources, spans, pub, overlapped>>
      /\ runs' = f /\ assertions' = g
  BY DEF DeleteRows, ProvenanceInv, TypeOK
<1>2. /\ Rows(runs) \subseteq DOMAIN runs /\ Rows(assertions) \subseteq DOMAIN assertions
      /\ About(d) \subseteq Rows(assertions) /\ Citing(d, gone) \subseteq Rows(runs)
  BY DEF Rows, About, Citing
<1>3. /\ runs' \in Seq(RunRow \cup {Null}) /\ Len(runs') = Len(runs) /\ Rows(runs)' = Rows(runs)
      /\ \A r \in Rows(runs) : runs'[r].source = runs[r].source /\ runs'[r].status = runs[r].status
  <2>1. ASSUME NEW r \in Citing(d, gone)
        PROVE  /\ Released(runs[r], gone) \in RunRow
               /\ Released(runs[r], gone).source = runs[r].source
               /\ Released(runs[r], gone).status = runs[r].status
    <3>1. runs[r] \in RunRow
      BY <1>1, <1>2, RowTypes
    <3> QED
      BY <3>1 DEF Released, RunRow
  <2>2. /\ f \in [DOMAIN runs -> RunRow \cup {Null}]
        /\ \A r \in DOMAIN runs : (f[r] # Null) <=> (runs[r] # Null)
        /\ \A r \in Rows(runs) : f[r].source = runs[r].source /\ f[r].status = runs[r].status
    BY <1>1, <1>2, <2>1, NullIsNoRow DEF Rows
  <2> HIDE DEF f
  <2>3. f \in Seq(RunRow \cup {Null}) /\ Len(f) = Len(runs) /\ DOMAIN f = DOMAIN runs
    BY <1>1, <2>2, Rewritten
  <2> QED
    BY <1>1, <2>2, <2>3 DEF Rows
<1>4. /\ assertions' \in Seq(Assertion \cup {Null}) /\ Len(assertions') = Len(assertions)
      /\ Rows(assertions)' = IF "document" \in gone THEN Rows(assertions) \ About(d)
                             ELSE Rows(assertions)
      /\ \A a \in Rows(assertions)' : assertions'[a] = assertions[a]
  <2>1. /\ g \in [DOMAIN assertions -> Assertion \cup {Null}]
        /\ \A a \in DOMAIN assertions :
             IF "document" \in gone /\ a \in About(d) THEN g[a] = Null ELSE g[a] = assertions[a]
    BY <1>1
  <2> HIDE DEF g
  <2>2. g \in Seq(Assertion \cup {Null}) /\ Len(g) = Len(assertions) /\ DOMAIN g = DOMAIN assertions
    BY <1>1, <2>1, Rewritten
  <2> QED
    BY <1>1, <1>2, <2>1, <2>2 DEF Rows
<1> HIDE DEF f, g
<1>5. /\ "document" \in gone => About(d)' = {}
      /\ "document" \notin gone => About(d)' = About(d)
      /\ \A e \in Docs : e # d => About(e)' = About(e)
  BY <1>4 DEF About
<1>6. \A a \in Rows(assertions) :
        /\ a # 0 /\ assertions[a].object \in Docs /\ StateOK(a) /\ assertions[a] \in Assertion
  BY <1>1, RowTypes DEF ProvenanceInv, Assertion
<1>7. \A a \in Rows(assertions)' : Superseded(a)' <=> Superseded(a)
  <2>1. ASSUME NEW a \in Rows(assertions)', NEW b \in Rows(assertions), assertions[b].supersedes = a
        PROVE  b \in Rows(assertions)'
    <3>1. a \in Rows(assertions)
      BY <1>4
    <3>2. assertions[a].object = assertions[b].object
      BY <1>6, <2>1, <3>1 DEF StateOK
    <3>3. b \in About(d) => a \in About(d)
      BY <3>1, <3>2 DEF About
    <3> QED
      BY <1>4, <3>3
  <2> QED
    BY <1>4, <2>1 DEF Superseded
<1>8. \A e \in Docs : DocOK(e)'
  <2>1. ASSUME NEW e \in Docs PROVE DocOK(e)'
    <3>1. /\ DocOK(e) /\ Files' = Files /\ present'[e] \subseteq present[e]
          /\ e # d => present'[e] = present[e]
          /\ e = d => present'[e] = present[e] \ gone
      BY <1>1 DEF ProvenanceInv, TypeOK, Files
    <3>2. \A a \in About(e)' : a \in Rows(assertions)'
      BY DEF About
    <3> QED
      BY <1>5, <1>7, <3>1, <3>2 DEF DocOK
  <2> QED
    BY <2>1
<1>9. \A e \in Docs : FileOK(e)'
  BY <1>1 DEF ProvenanceInv, FileOK, Files
<1>10. \A a \in Rows(assertions)' : StateOK(a)'
  BY <1>4, <1>6 DEF StateOK
<1>11. EvidenceChainHolds'
  <2>1. \A r \in Rows(runs)' : runs'[r].source \in sources'
    BY <1>1, <1>3 DEF ProvenanceInv, EvidenceChainHolds
  <2>2. \A a \in Rows(assertions)' :
          LET r == assertions'[a].run
          IN  r \in Rows(runs)' /\ runs'[r].source = assertions'[a].source
                /\ runs'[r].status = "succeeded"
    BY <1>3, <1>4 DEF ProvenanceInv, EvidenceChainHolds
  <2>3. \A s \in spans' : s.run \in Rows(runs)' /\ runs'[s.run].status = "failed"
    BY <1>1, <1>3 DEF ProvenanceInv, EvidenceChainHolds
  <2> QED
    BY <2>1, <2>2, <2>3 DEF EvidenceChainHolds
<1>12. StatesCiteTheFilesOriginal'
  BY <1>1, <1>4 DEF ProvenanceInv, StatesCiteTheFilesOriginal, Files
<1>13. TypeOK'
  <2>1. present' \in [Docs -> SUBSET References]
    BY <1>1 DEF TypeOK
  <2> QED
    BY <1>1, <1>3, <1>4, <2>1 DEF TypeOK
<1>14. PubType' /\ \A q \in Publishers : PubOK(q)'
  BY <1>1 DEF ProvenanceInv, PubType, PubOK
<1>15. (revision < Latest)' => runs' = <<>>
  <2>1. (revision < Latest)' => Len(runs') = 0
    BY <1>1, <1>3 DEF ProvenanceInv
  <2> QED
    BY <1>3, <2>1, NothingInserted
<1> QED
  BY <1>8, <1>9, <1>10, <1>11, <1>12, <1>13, <1>14, <1>15 DEF ProvenanceInv

-----------------------------------------------------------------------------
(* The theorems.                                                           *)

LEMMA ProvenanceStep == ASSUME ProvenanceInv, [Next]_vars PROVE ProvenanceInv'
<1>1. CASE UNCHANGED vars
  <2>1. Rows(runs)' = Rows(runs) /\ Rows(assertions)' = Rows(assertions) /\ Files' = Files
    BY <1>1 DEF vars, Rows, Files
  <2>2. \A d \in Docs : FileOK(d)' /\ DocOK(d)'
    BY <1>1, <2>1, SameStates DEF vars, ProvenanceInv, FileOK, DocOK
  <2>3. EvidenceChainHolds' /\ StatesCiteTheFilesOriginal'
    BY <1>1, <2>1 DEF vars, ProvenanceInv, EvidenceChainHolds, StatesCiteTheFilesOriginal
  <2>4. TypeOK' /\ PubType' /\ \A q \in Publishers : PubOK(q)'
    BY <1>1 DEF vars, ProvenanceInv, TypeOK, PubType, PubOK
  <2> QED
    BY <1>1, <2>1, <2>2, <2>3, <2>4, SameStates DEF vars, ProvenanceInv
<1>2. CASE Next
  <2>1. ASSUME NEW to \in Installed, ApplyMigrations(to) PROVE ProvenanceInv'
    BY <2>1, MigrationKeeps
  <2>2. ASSUME NEW p \in Publishers, NEW d \in Published, NEW content \in Contents,
               ResolvePrimarySource(p, d, content)
        PROVE  ProvenanceInv'
    BY <2>2, ResolveKeeps
  <2>3. ASSUME NEW p \in Publishers, Accept(p) \/ Refuse(p) PROVE ProvenanceInv'
    BY <2>3, AcceptKeeps, RefuseKeeps
  <2>4. ASSUME NEW r \in 1 .. MaxRuns, NEW new \in RunRow, UpdateRun(r, new) PROVE ProvenanceInv'
    BY <2>4, UpdateRunKeeps
  <2>5. ASSUME NEW d \in Docs, NEW gone \in SUBSET References, DeleteRows(d, gone)
        PROVE  ProvenanceInv'
    BY <2>5, DeleteRowsKeeps
  <2>6. ASSUME NEW d \in Docs, DeleteFile(d) PROVE ProvenanceInv'
    BY <2>6, DeleteFileKeeps
  <2>7. ASSUME NEW r \in 1 .. MaxRuns, DeleteRun(r) PROVE ProvenanceInv'
    BY <2>7, DeleteRunKeeps
  <2>8. ASSUME NEW s \in Sources, DeleteSource(s) PROVE ProvenanceInv'
    BY <2>8, DeleteSourceKeeps
  <2> QED
    BY <1>2, <2>1, <2>2, <2>3, <2>4, <2>5, <2>6, <2>7, <2>8, RepairKeeps DEF Next
<1> QED
  BY <1>1, <1>2

LEMMA ProvenanceAlways == Spec => []ProvenanceInv
<1>1. Init => ProvenanceInv
  BY InitOK
<1>2. ProvenanceInv /\ [Next]_vars => ProvenanceInv'
  BY ProvenanceStep
<1> QED
  BY <1>1, <1>2, PTL DEF Spec

LEMMA OriginalsFollow == ASSUME ProvenanceInv PROVE OriginalsInv
<1>1. FilesHaveTheirOwnOriginal
  <2>1. \A d \in Files : d \in Docs /\ FileOK(d)
    BY DEF ProvenanceInv, Files
  <2> QED
    BY <2>1 DEF FilesHaveTheirOwnOriginal, FileOK
<1>2. OneCurrentState
  <2>1. ASSUME NEW d \in Docs, About(d) # {}
        PROVE  Cardinality({a \in About(d) : ~Superseded(a)}) = 1
    <3>1. PICK a \in About(d) : \A b \in About(d) : Superseded(b) <=> b # a
      BY <2>1 DEF ProvenanceInv, DocOK
    <3>2. {b \in About(d) : ~Superseded(b)} = {a}
      BY <3>1
    <3> QED
      BY <3>2, FS_Singleton
  <2> QED
    BY <2>1 DEF OneCurrentState
<1> QED
  BY <1>1, <1>2 DEF ProvenanceInv, OriginalsInv

\* What the upgrade, publications, repairs and deletes preserve together: from
\* the backfill of 0019 on every File has an original of its own, a source state
\* cites the original of the File unless the File was bound behind the back of
\* its publication, and the states of a document have one current member.
THEOREM OriginalsCorrect == Spec => []OriginalsInv
<1>1. ProvenanceInv => OriginalsInv
  BY OriginalsFollow
<1> QED
  BY <1>1, ProvenanceAlways, PTL

\* No delete, update or publication breaks the chain from a source state or a span
\* to its run and on to the original, which the foreign keys of 0018 to 0021 keep.
THEOREM EvidenceChainKept == Spec => []EvidenceChainHolds
<1>1. ProvenanceInv => EvidenceChainHolds
  BY DEF ProvenanceInv
<1> QED
  BY <1>1, ProvenanceAlways, PTL

LEMMA DeletesPermitted == ASSUME ProvenanceInv PROVE DeletesAreNotRefused
<1>1. ASSUME NEW d \in Docs, NEW gone \in SUBSET References,
             NEW r \in Citing(d, gone), NEW ref \in gone
      PROVE  RunTrigger(runs[r], Released(runs[r], {ref}))
  <2>1. runs[r] \in RunRow
    BY RowTypes DEF Citing, ProvenanceInv
  <2> QED
    BY <2>1 DEF RunTrigger, Released, RunRow
<1> QED
  BY <1>1 DEF DeletesAreNotRefused, ReleasePermitted

\* A step leaves each run's record alone but for references it lets go.
LEMMA HistoryStep ==
  ASSUME ProvenanceInv, Next, NEW r \in Rows(runs)
  PROVE  IF runs'[r] = Null THEN \A s \in spans' : s.run # r
         ELSE /\ [runs'[r] EXCEPT !.refs = {}] = [runs[r] EXCEPT !.refs = {}]
              /\ runs'[r].refs \subseteq runs[r].refs
<1>1. /\ runs[r] \in RunRow /\ runs[r] # Null /\ r \in DOMAIN runs
      /\ runs \in Seq(RunRow \cup {Null})
  BY RowTypes, NullIsNoRow DEF ProvenanceInv, Rows, TypeOK
<1> DEFINE Kept == runs'[r] = runs[r]
           Goal == IF runs'[r] = Null THEN \A s \in spans' : s.run # r
                   ELSE /\ [runs'[r] EXCEPT !.refs = {}] = [runs[r] EXCEPT !.refs = {}]
                        /\ runs'[r].refs \subseteq runs[r].refs
<1>2. Kept => Goal
  BY <1>1
<1>3. ASSUME NEW p \in Publishers, Accept(p) \/ Refuse(p) PROVE Kept
  <2>1. Run(p, "succeeded", References) \in RunRow /\ Run(p, "failed", {}) \in RunRow
    <3>1. pub[p].at = "resolved"
      BY <1>3 DEF Accept, Refuse
    <3> QED
      BY <3>1, RunType
  <2>2. \E run \in RunRow \cup {Null} : runs' = Append(runs, run)
    BY <1>3, <2>1 DEF Accept, Refuse
  <2> QED
    BY <1>1, <2>2, Inserted
<1>4. ASSUME NEW q \in 1 .. MaxRuns, NEW new \in RunRow, UpdateRun(q, new) PROVE Goal
  <2>1. CASE q = r
    <3>1. runs'[r] = new /\ RunTrigger(runs[r], new) /\ runs[r].status \in Terminal
      BY <1>1, <1>4, <2>1 DEF UpdateRun, RunRow, Terminal
    <3> QED
      BY <3>1, NullIsNoRow DEF RunTrigger
  <2>2. CASE q # r
    BY <1>1, <1>2, <1>4, <2>2 DEF UpdateRun
  <2> QED
    BY <2>1, <2>2
<1>5. ASSUME NEW d \in Docs, NEW gone \in SUBSET References, DeleteRows(d, gone) PROVE Goal
  <2>1. CASE r \in Citing(d, gone)
    <3>1. runs'[r] = Released(runs[r], gone)
      BY <1>1, <1>5, <2>1 DEF DeleteRows
    <3>2. /\ Released(runs[r], gone) \in RunRow
          /\ [Released(runs[r], gone) EXCEPT !.refs = {}] = [runs[r] EXCEPT !.refs = {}]
          /\ Released(runs[r], gone).refs \subseteq runs[r].refs
      BY <1>1 DEF Released, RunRow
    <3> QED
      BY <3>1, <3>2, NullIsNoRow
  <2>2. CASE r \notin Citing(d, gone)
    BY <1>1, <1>2, <1>5, <2>2 DEF DeleteRows
  <2> QED
    BY <2>1, <2>2
<1>6. ASSUME NEW q \in 1 .. MaxRuns, DeleteRun(q) PROVE Goal
  <2>1. CASE q = r
    <3>1. runs'[r] = Null /\ \A s \in spans' : s.run # r
      BY <1>1, <1>6, <2>1 DEF DeleteRun
    <3> QED
      BY <3>1
  <2>2. CASE q # r
    BY <1>1, <1>2, <1>6, <2>2 DEF DeleteRun
  <2> QED
    BY <2>1, <2>2
<1>7. \/ runs' = runs
      \/ \E p \in Publishers : Accept(p) \/ Refuse(p)
      \/ \E q \in 1 .. MaxRuns, new \in RunRow : UpdateRun(q, new)
      \/ \E d \in Docs, gone \in SUBSET References : DeleteRows(d, gone)
      \/ \E q \in 1 .. MaxRuns : DeleteRun(q)
  BY DEF Next, ApplyMigrations, Repair, ResolvePrimarySource, DeleteFile, DeleteSource
<1> HIDE DEF Goal
<1>8. Goal
  BY <1>2, <1>3, <1>4, <1>5, <1>6, <1>7
<1> QED
  BY <1>8 DEF Goal

\* The bargain of 0021: no trigger refuses the release a delete needs, and what a
\* terminal run recorded survives every update and delete until it goes whole.
THEOREM HistoryKept == Spec => DeletesReleaseHistory
<1>1. ProvenanceInv => DeletesAreNotRefused
  BY DeletesPermitted
<1> DEFINE Step == \A r \in Rows(runs) :
                     IF runs'[r] = Null THEN \A s \in spans' : s.run # r
                     ELSE /\ [runs'[r] EXCEPT !.refs = {}] = [runs[r] EXCEPT !.refs = {}]
                          /\ runs'[r].refs \subseteq runs[r].refs
<1>2. ProvenanceInv /\ [Next]_vars => [Step]_vars
  BY HistoryStep
<1>3. Spec => [][Step]_vars
  <2> HIDE DEF Step
  <2> QED
    BY <1>2, ProvenanceAlways, PTL DEF Spec
<1>4. Spec => TerminalRunsAreHistory
  BY <1>3 DEF TerminalRunsAreHistory
<1> QED
  BY <1>1, <1>4, ProvenanceAlways, PTL DEF DeletesReleaseHistory

=============================================================================
