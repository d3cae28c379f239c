--------------------------- MODULE PublicationProofs ---------------------------
(***************************************************************************)
(* Theorems of Publication for every set of publishers, versions and       *)
(* texts, every width of the chapter index and any number of runs; and of  *)
(* SourceRoundTrip, which has the texts that a publication writes, for     *)
(* every set of sources and answers of any length.                         *)
(***************************************************************************)
EXTENDS Publication, SourceRoundTrip, FiniteSetTheorems, SequenceTheorems, WellFoundedInduction, TLAPS

-----------------------------------------------------------------------------
(* The invariant.                                                          *)

Request ==
  [at : Steps, version : Versions \union {None}, content : Contents \union {None},
   rechunk : BOOLEAN, original : Contents \union {None}, seen : Nat,
   ids : SUBSET Generations, waiting : BOOLEAN, snapshot : SUBSET Generations,
   vectors : SUBSET Generations, cleared : [Tables -> SUBSET Generations], shift : Nat]

RunRecord == [version : Versions, content : Contents, original : Contents,
              outcome : {"succeeded", "failed"}]

Types ==
  /\ TypeOK
  /\ tx \in [Publishers -> Request] /\ runs \in Seq(RunRecord)
  /\ Published \subseteq DOMAIN runs
  /\ Len(runs) + Cardinality(Serving) <= MaxRuns

RequestOK(t) ==
  /\ t.cleared \in [Tables -> SUBSET Published]
  /\ t.at = "idle" => t = Idle
  /\ t.at # "idle" => t.version \in Versions /\ t.content \in Contents
  /\ t.at \notin {"idle", "chunking", "source"} => t.original \in originals
  /\ t.seen <= Len(runs)
  /\ t.waiting => t.at \in Tables

Newest(g) == g \in Published /\ \A h \in Published : h <= g

\* Index 0 belongs to the newest chapter; each publication at most doubles the rest.
OrderOK ==
  /\ \A g \in Published : order[g] = 0 <=> Newest(g)
  /\ \A g \in Published : 2 * (order[g] + 1) <= 2 ^ Cardinality(Published)

\* The newest chapter is the only live one, and what hangs on a live row is live.
RowsOK ==
  /\ rows["chapters"] = {g \in Published : Newest(g)}
  /\ rows["chapters"] \subseteq rows["paragraphs"]
  /\ rows["paragraphs"] \subseteq rows["chunks"]

DocumentOK ==
  /\ Published = {} => document.version = None
  /\ \A g \in Published : Newest(g) => /\ document.version = runs[g].version
                                       /\ document.content = runs[g].content

\* A publication clears below what it has cleared above, among the rows left.
MarksOK(t) ==
  /\ t.at = "paragraphs" /\ t.waiting =>
       t.cleared["chunks"] \intersect rows["paragraphs"] \subseteq t.snapshot
  /\ t.at \in {"chapters", "document", "verdict"} =>
       t.cleared["chunks"] \intersect rows["paragraphs"] \subseteq t.cleared["paragraphs"]
  /\ t.at = "chapters" /\ t.waiting =>
       t.cleared["paragraphs"] \intersect rows["chapters"] \subseteq t.snapshot
  /\ t.at \in {"document", "verdict"} =>
       t.cleared["paragraphs"] \intersect rows["chapters"] \subseteq t.cleared["chapters"]

\* The file's row admits one verdict, and the unique index was free for it.
VerdictOK(p) ==
  tx[p].at = "verdict" =>
    /\ \A q \in Publishers : tx[q].at = "verdict" => q = p
    /\ ShiftFits(p) /\ IndexFree(p) /\ tx[p].shift = Shift

\* As long as no other publication has ended, what a publication read holds.
UndisturbedOK(t) ==
  t.seen = Len(runs) =>
    /\ t.at = "chapters" /\ t.waiting => rows["chapters"] \subseteq t.snapshot
    /\ t.at \in {"document", "verdict"} => rows["chapters"] \subseteq t.cleared["chapters"]
    /\ t.at \notin {"idle", "chunking"} /\ ~t.rechunk => document.version # t.version
    /\ t.at # "idle" /\ t.rechunk /\ NoPartialVersion => t.content = document.content

PublisherOK(p) ==
  RequestOK(tx[p]) /\ MarksOK(tx[p]) /\ UndisturbedOK(tx[p]) /\ VerdictOK(p)

PublishingInv ==
  /\ Types /\ OrderOK /\ RowsOK /\ DocumentOK
  /\ \A p \in Publishers : PublisherOK(p)

-----------------------------------------------------------------------------
(* Numbers.                                                                *)

\* 2^n counts the sets of n elements.
LEMMA PowerType ==
  ASSUME NEW n \in Nat
  PROVE  2^n \in Nat /\ 2^n >= 1
<1>1. IsFiniteSet(1 .. n) /\ Cardinality(1 .. n) = n
  BY FS_Interval
<1>2. IsFiniteSet(SUBSET (1 .. n)) /\ Cardinality(SUBSET (1 .. n)) = 2^n
  BY <1>1, FS_SUBSET
<1>3. 2^n \in Nat
  BY <1>2, FS_CardinalityType
<1>4. 2^n # 0
  BY <1>2, FS_EmptySet
<1> QED
  BY <1>3, <1>4

LEMMA PowerDoubles ==
  ASSUME NEW n \in Nat
  PROVE  2^(n + 1) = 2^n + 2^n
<1> DEFINE S == SUBSET (1 .. n)
           T == {U \in SUBSET (1 .. n + 1) : n + 1 \in U}
           f == [U \in S |-> U \cup {n + 1}]
<1>1. IsFiniteSet(1 .. n) /\ Cardinality(1 .. n) = n
  BY FS_Interval
<1>2. IsFiniteSet(1 .. n + 1) /\ Cardinality(1 .. n + 1) = n + 1
  BY FS_Interval
<1>3. IsFiniteSet(S) /\ Cardinality(S) = 2^n
  BY <1>1, FS_SUBSET
<1>4. Cardinality(SUBSET (1 .. n + 1)) = 2^(n + 1)
  BY <1>2, FS_SUBSET
<1>5. 1 .. n + 1 = (1 .. n) \cup {n + 1} /\ n + 1 \notin 1 .. n
  OBVIOUS
<1>6. f \in Bijection(S, T)
  <2>1. f \in [S -> T]
    BY <1>5
  <2>2. \A a, b \in S : f[a] = f[b] => a = b
    BY <1>5
  <2>3. \A t \in T : \E s \in S : f[s] = t
    <3> TAKE t \in T
    <3>1. t \ {n + 1} \in S /\ (t \ {n + 1}) \cup {n + 1} = t
      BY <1>5
    <3> QED
      BY <3>1
  <2> QED
    BY <2>1, <2>2, <2>3 DEF Bijection, Injection, Surjection, IsInjective
<1>7. IsFiniteSet(T) /\ Cardinality(T) = 2^n
  BY <1>3, <1>6, FS_Bijection DEF ExistsBijection
<1>8. S \cup T = SUBSET (1 .. n + 1) /\ S \cap T = {}
  BY <1>5
<1> HIDE DEF S, T
<1>9. Cardinality(S \cup T) = Cardinality(S) + Cardinality(T) - Cardinality(S \cap T)
  BY <1>3, <1>7, FS_Union
<1>10. Cardinality(S \cap T) = 0
  BY <1>8, FS_EmptySet
<1>11. Cardinality(SUBSET (1 .. n + 1)) = 2^n + 2^n - 0
  BY <1>3, <1>7, <1>8, <1>9, <1>10
<1>12. 2^n \in Nat
  BY PowerType
<1> QED
  BY <1>4, <1>11, <1>12

LEMMA Largest ==
  ASSUME NEW S \in SUBSET Nat, S # {}, NEW n \in Nat, \A x \in S : x <= n
  PROVE  Max(S) \in S /\ \A x \in S : x <= Max(S)
<1> DEFINE R == OpToRel(<, Nat)
           T == {n - x : x \in S}
<1>1. T \subseteq Nat /\ T # {}
  <2>1. \A x \in S : x \in Nat /\ n - x \in Nat
    OBVIOUS
  <2> QED
    BY <2>1
<1>2. PICK m \in T : \A y \in T : <<y, m>> \notin R
  <2> HIDE DEF T, R
  <2>1. IsWellFoundedOn(R, Nat)
    BY NatLessThanWellFounded DEF R
  <2> QED
    BY <1>1, <2>1, WFMin
<1>3. PICK a \in S : m = n - a
  OBVIOUS
<1>4. \A x \in S : x <= a
  <2> TAKE x \in S
  <2>1. n - x \in T /\ n - x \in Nat /\ m \in Nat
    BY <1>1
  <2>2. ~(n - x < m)
    BY <1>2, <2>1 DEF OpToRel
  <2> QED
    BY <1>3, <2>2
<1>5. \E x \in S : \A y \in S : x >= y
  BY <1>4
<1> QED
  BY <1>5 DEF Max

LEMMA PowerGrows ==
  ASSUME NEW m \in Nat, NEW n \in Nat, m <= n
  PROVE  2^m <= 2^n
<1>1. /\ IsFiniteSet(1 .. m) /\ Cardinality(1 .. m) = m
      /\ IsFiniteSet(1 .. n) /\ Cardinality(1 .. n) = n
  BY FS_Interval
<1>2. /\ Cardinality(SUBSET (1 .. m)) = 2^m
      /\ IsFiniteSet(SUBSET (1 .. n)) /\ Cardinality(SUBSET (1 .. n)) = 2^n
  BY <1>1, FS_SUBSET
<1>3. SUBSET (1 .. m) \subseteq SUBSET (1 .. n)
  OBVIOUS
<1>4. Cardinality(SUBSET (1 .. m)) <= Cardinality(SUBSET (1 .. n))
  BY <1>2, <1>3, FS_Subset
<1> QED
  BY <1>2, <1>4

LEMMA OrderLimitType == OrderLimit \in Nat
BY PublicationAssumption, PowerType DEF OrderLimit

\* A finite set of natural numbers grows by a number above it.
LEMMA PublishedFinite ==
  ASSUME Types
  PROVE  /\ IsFiniteSet(Published) /\ Cardinality(Published) \in Nat
         /\ Published \subseteq 1 .. Len(runs) /\ Len(runs) \in Nat
         /\ Len(runs) + 1 \notin Published
         /\ Cardinality(Published \union {Len(runs) + 1}) = Cardinality(Published) + 1
<1>1. Published \subseteq 1 .. Len(runs) /\ Len(runs) \in Nat
  BY DEF Types
<1>2. IsFiniteSet(1 .. Len(runs))
  BY <1>1, FS_Interval
<1>3. IsFiniteSet(Published)
  BY <1>1, <1>2, FS_Subset
<1>4. Len(runs) + 1 \notin Published
  BY <1>1
<1> QED
  BY <1>1, <1>3, <1>4, FS_CardinalityType, FS_AddElement

LEMMA NewestIsMax ==
  ASSUME Types, Published # {}
  PROVE  Newest(Max(Published)) /\ \A g \in Published : Newest(g) => g = Max(Published)
<1>1. Published \subseteq Nat /\ \A g \in Published : g <= Len(runs)
  BY PublishedFinite
<1>2. Max(Published) \in Published /\ \A g \in Published : g <= Max(Published)
  BY <1>1, PublishedFinite, Largest
<1>3. Newest(Max(Published))
  BY <1>2 DEF Newest
<1>4. ASSUME NEW g \in Published, Newest(g) PROVE g = Max(Published)
  <2>1. g <= Max(Published) /\ Max(Published) <= g
    BY <1>2, <1>4 DEF Newest
  <2>2. g \in Nat /\ Max(Published) \in Nat
    BY <1>1, <1>2
  <2> HIDE <1>1, <1>2
  <2> QED
    BY <2>1, <2>2
<1> QED
  BY <1>3, <1>4

LEMMA OrderTypes ==
  ASSUME Types
  PROVE  /\ MaxOrder \in Nat /\ \A g \in Published : order[g] \in Nat /\ order[g] <= MaxOrder
         /\ Published # {} => \E g \in Published : order[g] = MaxOrder
         /\ Shift \in Nat /\ Shift = MaxOrder + 1
<1>1. \A g \in Published : order[g] \in Nat /\ order[g] <= OrderLimit
  BY OrderLimitType DEF Types, TypeOK
<1>2. CASE Published = {}
  BY <1>2 DEF MaxOrder, Shift
<1>3. CASE Published # {}
  <2> DEFINE S == {order[g] : g \in Published}
  <2>1. S \in SUBSET Nat /\ S # {} /\ \A x \in S : x <= OrderLimit
    BY <1>1, <1>3
  <2>2. MaxOrder = Max(S)
    BY <1>3 DEF MaxOrder
  <2> HIDE DEF S
  <2>3. Max(S) \in S /\ \A x \in S : x <= Max(S)
    BY <2>1, OrderLimitType, Largest
  <2>4. MaxOrder \in Nat /\ MaxOrder \in S /\ \A x \in S : x <= MaxOrder
    BY <2>1, <2>2, <2>3
  <2> QED
    BY <1>1, <2>4 DEF S, Shift
<1> QED
  BY <1>2, <1>3


-----------------------------------------------------------------------------
(* Steps of one request that commit nothing.                               *)

Others(p) == Publishers \ {p}
Inactive == {"idle", "chunking"}

LEMMA ServingFinite == IsFiniteSet(Serving) /\ Cardinality(Serving) \in Nat
<1>1. Serving \subseteq Publishers
  BY DEF Serving
<1> QED
  BY <1>1, PublicationAssumption, FS_Subset, FS_CardinalityType

\* A request that starts to publish takes a run of the bound; one that stops frees it.
LEMMA ServingCount ==
  ASSUME Types, NEW p \in Publishers, NEW r \in Request, tx' = [tx EXCEPT ![p] = r]
  PROVE  /\ r.at \notin Inactive /\ p \notin Serving =>
              Cardinality(Serving') = Cardinality(Serving) + 1
         /\ r.at \in Inactive /\ p \in Serving =>
              Cardinality(Serving') = Cardinality(Serving) - 1
         /\ (r.at \notin Inactive <=> p \in Serving) => Serving' = Serving
<1>1. tx \in [Publishers -> Request]
  BY DEF Types
<1>2. Serving' = IF r.at \notin Inactive THEN Serving \union {p} ELSE Serving \ {p}
  BY <1>1 DEF Serving, Inactive
<1>3. /\ p \notin Serving => Cardinality(Serving \union {p}) = Cardinality(Serving) + 1
      /\ p \in Serving => Cardinality(Serving \ {p}) = Cardinality(Serving) - 1
  BY ServingFinite, FS_AddElement, FS_RemoveElement
<1> QED
  BY <1>2, <1>3

\* The record of a request after a step of its own.
Served(p, r) ==
  /\ tx' = [tx EXCEPT ![p] = r]
  /\ UNCHANGED <<rows, order, embedded, document, runs, worker>>
  /\ originals \subseteq originals' /\ originals' \subseteq Contents

\* What such a step has to show.
ServesWell(p, r) ==
  /\ r \in Request /\ r.cleared \in [Tables -> SUBSET Published]
  /\ r.at = "idle" => r = Idle
  /\ r.at # "idle" => r.version \in Versions /\ r.content \in Contents
  /\ r.at \notin {"idle", "chunking", "source"} => r.original \in originals'
  /\ r.seen <= Len(runs)
  /\ r.waiting => r.at \in Tables
  /\ MarksOK(r) /\ UndisturbedOK(r)
  /\ r.at \in Inactive \/ p \in Serving \/ Room
  /\ r.at = "verdict" =>
       /\ \A q \in Others(p) : tx[q].at # "verdict"
       /\ r.cleared = tx[p].cleared /\ r.shift = Shift
       /\ ShiftFits(p) /\ IndexFree(p)

LEMMA RequestStep ==
  ASSUME PublishingInv, NEW p \in Publishers, NEW r, Served(p, r), ServesWell(p, r)
  PROVE  PublishingInv'
<1>1. /\ Types /\ tx \in [Publishers -> Request] /\ r \in Request
      /\ tx' = [tx EXCEPT ![p] = r]
      /\ tx'[p] = r /\ \A q \in Others(p) : tx'[q] = tx[q]
      /\ UNCHANGED <<rows, order, embedded, document, runs, worker>>
      /\ Published' = Published
  BY DEF PublishingInv, Types, Served, ServesWell, Others, Published
<1>2. Len(runs) + Cardinality(Serving') <= MaxRuns
  <2>1. /\ Len(runs) \in Nat /\ MaxRuns \in Nat
        /\ Len(runs) + Cardinality(Serving) <= MaxRuns
        /\ Room => Len(runs) + Cardinality(Serving) < MaxRuns
        /\ Cardinality(Serving) \in Nat
    BY <1>1, ServingFinite, PublicationAssumption DEF Types, Room
  <2>2. r.at \in Inactive \/ p \in Serving \/ Room
    BY DEF ServesWell
  <2>3. \/ Serving' = Serving
        \/ Cardinality(Serving') = Cardinality(Serving) - 1
        \/ Room /\ Cardinality(Serving') = Cardinality(Serving) + 1
    BY <1>1, <2>2, ServingCount
  <2> QED
    BY <2>1, <2>3
<1>3. Types'
  <2>1. \A q \in Publishers : /\ tx'[q].at \in Steps /\ tx'[q].cleared \in [Tables -> SUBSET Published]
                              /\ (tx'[q].at = "idle" => tx'[q] = Idle)
    <3>1. r.at \in Steps
      BY <1>1 DEF Request
    <3>2. \A q \in Others(p) : /\ tx[q].at \in Steps /\ tx[q].cleared \in [Tables -> SUBSET Published]
                               /\ (tx[q].at = "idle" => tx[q] = Idle)
      BY <1>1 DEF Types, TypeOK, Others
    <3> QED
      BY <1>1, <3>1, <3>2 DEF ServesWell, Others
  <2>2. \A i \in DOMAIN runs :
          /\ runs[i] \in [version : Versions, content : Contents,
                          original : originals', outcome : {"succeeded", "failed"}]
          /\ runs[i].outcome = "succeeded" <=> i \in Published
    BY <1>1 DEF Types, TypeOK, Served
  <2>3. TypeOK'
    BY <1>1, <2>1, <2>2 DEF Types, TypeOK, Served, OrderLimit
  <2> QED
    BY <1>1, <1>2, <2>3 DEF Types
<1>4. OrderOK' /\ RowsOK' /\ DocumentOK'
  BY <1>1 DEF PublishingInv, OrderOK, RowsOK, DocumentOK, Newest
<1>5. ASSUME NEW t
      PROVE  (MarksOK(t) => MarksOK(t)') /\ (UndisturbedOK(t) => UndisturbedOK(t)')
             /\ (RequestOK(t) => RequestOK(t)')
  BY <1>1 DEF MarksOK, UndisturbedOK, RequestOK, NoPartialVersion, Served
<1>6. RequestOK(r)' /\ MarksOK(r)' /\ UndisturbedOK(r)'
  BY <1>1, <1>5 DEF ServesWell, RequestOK
<1>7. ASSUME NEW q \in Publishers PROVE PublisherOK(q)'
  <2>1. RequestOK(tx[q])' /\ MarksOK(tx[q])' /\ UndisturbedOK(tx[q])'
    <3>1. CASE q = p
      BY <1>1, <1>6, <3>1 DEF RequestOK, MarksOK, UndisturbedOK
    <3>2. CASE q # p
      BY <1>1, <1>5, <3>2 DEF PublishingInv, PublisherOK, RequestOK, MarksOK, UndisturbedOK, Others
    <3> QED
      BY <3>1, <3>2
  <2>2. VerdictOK(q)'
    <3> SUFFICES ASSUME tx'[q].at = "verdict"
                 PROVE  /\ \A x \in Publishers : tx'[x].at = "verdict" => x = q
                        /\ ShiftFits(q)' /\ IndexFree(q)' /\ tx'[q].shift = Shift'
      BY DEF VerdictOK
    <3>1. /\ ShiftFits(q) /\ IndexFree(q) /\ tx'[q].shift = Shift
          /\ tx'[q].cleared = tx[q].cleared
          /\ \A x \in Publishers : tx'[x].at = "verdict" => x = q
      <4>1. CASE q = p
        BY <1>1, <4>1 DEF ServesWell, Others
      <4>2. CASE q # p
        BY <1>1, <4>2 DEF ServesWell, Others, PublishingInv, PublisherOK, VerdictOK
      <4> QED
        BY <4>1, <4>2
    <3>2. Shift' = Shift /\ DeletedChapters(q)' = DeletedChapters(q)
      BY <1>1, <3>1 DEF Shift, MaxOrder, DeletedChapters
    <3> QED
      BY <1>1, <3>1, <3>2 DEF ShiftFits, IndexFree, OrderLimit
  <2> QED
    BY <2>1, <2>2 DEF PublisherOK
<1> QED
  BY <1>3, <1>4, <1>7 DEF PublishingInv

\* What holds of a request in flight, unfolded once.
LEMMA RequestFacts ==
  ASSUME PublishingInv, NEW p \in Publishers
  PROVE  /\ Types /\ TypeOK /\ tx \in [Publishers -> Request] /\ tx[p] \in Request
         /\ Len(runs) \in Nat /\ tx[p].seen \in Nat /\ tx[p].seen <= Len(runs)
         /\ RequestOK(tx[p]) /\ MarksOK(tx[p]) /\ UndisturbedOK(tx[p]) /\ VerdictOK(p)
         /\ originals \subseteq Contents
         /\ rows \in [Tables -> SUBSET Generations]
         /\ \A t \in Tables : rows[t] \subseteq Published
         /\ Published \subseteq Generations
         /\ (p \in Serving <=> tx[p].at \notin Inactive)
<1>1. /\ Types /\ TypeOK /\ tx \in [Publishers -> Request] /\ Len(runs) \in Nat /\ PublisherOK(p)
  BY DEF PublishingInv, Types
<1>2. /\ tx[p] \in Request /\ RequestOK(tx[p]) /\ MarksOK(tx[p]) /\ UndisturbedOK(tx[p])
      /\ VerdictOK(p)
  BY <1>1 DEF PublisherOK
<1>3. tx[p].seen \in Nat /\ tx[p].seen <= Len(runs)
  BY <1>2 DEF Request, RequestOK
<1>4. /\ originals \subseteq Contents /\ rows \in [Tables -> SUBSET Generations]
      /\ \A t \in Tables : rows[t] \subseteq Published
      /\ Published \subseteq Generations
  BY <1>1 DEF TypeOK
<1> QED
  BY <1>1, <1>2, <1>3, <1>4 DEF Serving, Inactive

LEMMA IdleWell ==
  ASSUME PublishingInv
  PROVE  /\ Idle \in Request /\ Idle.at = "idle" /\ Idle.cleared \in [Tables -> SUBSET Published]
         /\ RequestOK(Idle) /\ MarksOK(Idle) /\ UndisturbedOK(Idle)
<1>1. Idle \in Request /\ Idle.at = "idle" /\ Idle.cleared \in [Tables -> SUBSET Published]
  BY DEF Idle, Request, Steps, Nothing
<1>2. Idle.seen = 0 /\ Idle.waiting = FALSE /\ 0 <= Len(runs)
  <2>1. Len(runs) \in Nat
    BY DEF PublishingInv, Types
  <2> QED
    BY <2>1 DEF Idle
<1> QED
  BY <1>1, <1>2 DEF RequestOK, MarksOK, UndisturbedOK, Inactive, Tables

\* Replay, a full bound, a refused write, a failure: the request is over.
LEMMA StopKeeps ==
  ASSUME PublishingInv, NEW p \in Publishers, tx' = [tx EXCEPT ![p] = Idle],
         UNCHANGED <<rows, order, embedded, document, originals, runs, worker>>
  PROVE  PublishingInv'
<1>1. Served(p, Idle)
  BY DEF Served, PublishingInv, Types, TypeOK
<1>2. ServesWell(p, Idle)
  BY IdleWell DEF ServesWell, RequestOK, Inactive
<1> QED
  BY <1>1, <1>2, RequestStep

LEMMA UploadKeeps ==
  ASSUME PublishingInv, NEW p \in Publishers, NEW upload \in Uploads, Upload(p, upload)
  PROVE  PublishingInv'
<1> DEFINE r == [tx[p] EXCEPT !.at = "chunking", !.version = upload[1], !.content = upload[2]]
<1>1. tx[p] = Idle /\ upload[1] \in Versions /\ upload[2] \in Contents
  BY RequestFacts, PublicationAssumption DEF Upload, RequestOK
<1>2. /\ r \in Request /\ r.at = "chunking" /\ r.version = upload[1] /\ r.content = upload[2]
      /\ r.cleared \in [Tables -> SUBSET Published] /\ r.seen = 0 /\ ~r.waiting /\ ~r.rechunk
  <2>1. /\ Idle \in Request /\ Idle.cleared \in [Tables -> SUBSET Published]
        /\ Idle.seen = 0 /\ ~Idle.waiting /\ ~Idle.rechunk
    BY IdleWell DEF Idle
  <2> HIDE DEF Idle
  <2> QED
    BY <1>1, <2>1, ZenonT(30) DEF Request, Steps
<1>3. Served(p, r)
  BY RequestFacts DEF Upload, Served
<1> HIDE DEF r
<1>4. ServesWell(p, r)
  BY <1>1, <1>2, RequestFacts DEF ServesWell, MarksOK, UndisturbedOK, Inactive
<1> QED
  BY <1>3, <1>4, RequestStep

\* The text that a rechunk reads is a stored one, the document's if no version is partial.
LEMMA StoredTextType ==
  ASSUME PublishingInv
  PROVE  /\ StoredText \in Contents
         /\ NoPartialVersion /\ document.version # None => StoredText = document.content
<1>1. \A g \in rows["paragraphs"] : g \in Published /\ runs[g].content \in Contents
  BY DEF PublishingInv, Types, TypeOK, Tables, RunRecord
<1>2. StoredText \in Contents
  <2>1. CASE Cardinality(rows["paragraphs"]) = 1
    <3>1. IsFiniteSet(rows["paragraphs"])
      BY PublishedFinite, FS_Subset DEF PublishingInv, Types, TypeOK, Tables
    <3>2. PICK g : rows["paragraphs"] = {g}
      BY <2>1, <3>1, FS_Singleton
    <3> QED
      BY <1>1, <2>1, <3>2 DEF StoredText
  <2>2. CASE Cardinality(rows["paragraphs"]) # 1
    BY <2>2, PublicationAssumption DEF StoredText
  <2> QED
    BY <2>1, <2>2
<1>3. ASSUME NoPartialVersion, document.version # None PROVE StoredText = document.content
  <2> DEFINE g == Max(Published)
  <2>1. Published # {}
    BY <1>3 DEF PublishingInv, DocumentOK
  <2>2. Newest(g) /\ \A h \in Published : Newest(h) => h = g
    BY <2>1, NewestIsMax DEF PublishingInv
  <2> HIDE DEF g
  <2>3. rows["chapters"] = {g}
    BY <2>2 DEF PublishingInv, RowsOK, Newest
  <2>4. rows["paragraphs"] = {g}
    BY <1>3, <2>3 DEF PublishingInv, RowsOK, NoPartialVersion
  <2>5. StoredText = runs[g].content
    BY <2>4, FS_Singleton DEF StoredText
  <2> QED
    BY <2>2, <2>5 DEF PublishingInv, DocumentOK, Newest
<1> QED
  BY <1>2, <1>3

LEMMA RechunkKeeps ==
  ASSUME PublishingInv, NEW p \in Publishers, NEW version \in RechunkVersions,
         Rechunk(p, version)
  PROVE  PublishingInv'
<1> DEFINE r == [tx[p] EXCEPT !.at = "chunking", !.rechunk = TRUE, !.version = version,
                              !.content = StoredText, !.seen = Len(runs)]
<1>1. tx[p] = Idle /\ version \in Versions /\ StoredText \in Contents
  BY RequestFacts, StoredTextType, PublicationAssumption DEF Rechunk, RequestOK
<1>2. /\ r \in Request /\ r.at = "chunking" /\ r.version = version /\ r.content = StoredText
      /\ r.cleared \in [Tables -> SUBSET Published] /\ r.seen = Len(runs) /\ ~r.waiting
  <2>1. Len(runs) \in Nat
    BY RequestFacts
  <2> QED
    BY <1>1, <2>1, IdleWell DEF Request, Idle, Steps
<1>3. Served(p, r)
  BY RequestFacts DEF Rechunk, Served
<1>4. NoPartialVersion => StoredText = document.content
  BY StoredTextType DEF Rechunk
<1> HIDE DEF r
<1>5. ServesWell(p, r)
  BY <1>1, <1>2, <1>4, RequestFacts DEF ServesWell, MarksOK, UndisturbedOK, Inactive
<1> QED
  BY <1>3, <1>5, RequestStep

LEMMA LookupKeeps ==
  ASSUME PublishingInv, NEW p \in Publishers, Lookup(p)
  PROVE  PublishingInv'
<1> DEFINE r == [tx[p] EXCEPT !.at = "source",
                              !.seen = IF tx[p].rechunk THEN @ ELSE Len(runs)]
<1>1. /\ r \in Request /\ r.at = "source" /\ r.version = tx[p].version
      /\ r.content = tx[p].content /\ r.cleared = tx[p].cleared /\ r.rechunk = tx[p].rechunk
      /\ r.waiting = tx[p].waiting
      /\ r.seen = IF tx[p].rechunk THEN tx[p].seen ELSE Len(runs)
  BY RequestFacts, ZenonT(30) DEF Request, Steps
<1>2. Served(p, r)
  BY RequestFacts DEF Lookup, Served
<1> HIDE DEF r
<1>3. tx[p].at = "chunking" /\ Room /\ (~tx[p].rechunk => document.version # tx[p].version)
  BY DEF Lookup, SameVersion
<1>4. ServesWell(p, r)
  <2>1. /\ RequestOK(tx[p]) /\ UndisturbedOK(tx[p])
        /\ tx[p].seen \in Nat /\ Len(runs) \in Nat /\ tx[p].seen <= Len(runs)
    BY RequestFacts
  <2>2. ~tx[p].waiting
    BY <1>3, <2>1 DEF RequestOK, Tables
  <2>3. UndisturbedOK(r)
    BY <1>1, <1>3, <2>1, <2>2 DEF UndisturbedOK
  <2> QED
    BY <1>1, <1>3, <2>1, <2>2, <2>3 DEF ServesWell, MarksOK, RequestOK
<1> QED
  BY <1>2, <1>4, RequestStep

LEMMA ResolveKeeps ==
  ASSUME PublishingInv, NEW p \in Publishers, ResolvePrimarySource(p)
  PROVE  PublishingInv'
<1>1. PICK original : original = IF document.original # None THEN document.original
                                 ELSE tx[p].content
  OBVIOUS
<1> DEFINE r == [tx[p] EXCEPT !.at = "ids", !.original = original]
<1>2. /\ tx[p].at = "source" /\ originals' = originals \union {original}
      /\ tx' = [tx EXCEPT ![p] = r]
  BY <1>1, RequestFacts DEF ResolvePrimarySource
<1>3. original \in Contents
  BY <1>1, <1>2, RequestFacts DEF RequestOK, TypeOK
<1>4. /\ r \in Request /\ r.at = "ids" /\ r.version = tx[p].version /\ r.original = original
      /\ r.content = tx[p].content /\ r.cleared = tx[p].cleared /\ r.rechunk = tx[p].rechunk
      /\ r.waiting = tx[p].waiting /\ r.seen = tx[p].seen
  BY <1>3, RequestFacts, ZenonT(30) DEF Request, Steps
<1>5. Served(p, r)
  BY <1>2, <1>3, RequestFacts DEF ResolvePrimarySource, Served
<1> HIDE DEF r
<1>6. ServesWell(p, r)
  <2>1. /\ RequestOK(tx[p]) /\ UndisturbedOK(tx[p]) /\ tx[p].seen <= Len(runs) /\ p \in Serving
    BY <1>2, RequestFacts DEF Inactive
  <2>2. ~tx[p].waiting
    BY <1>2, <2>1 DEF RequestOK, Tables
  <2>3. UndisturbedOK(r)
    BY <1>2, <1>4, <2>1, <2>2 DEF UndisturbedOK
  <2> QED
    BY <1>2, <1>4, <2>1, <2>2, <2>3 DEF ServesWell, MarksOK, RequestOK
<1> QED
  BY <1>5, <1>6, RequestStep

LEMMA SelectKeeps ==
  ASSUME PublishingInv, NEW p \in Publishers,
         SelectChunkIds(p) \/ DeactivateEmbeddings(p)
  PROVE  PublishingInv'
<1>1. PICK at \in {"chunks", "embeddings"}, ids \in SUBSET Generations,
           vectors \in SUBSET Generations :
        tx' = [tx EXCEPT ![p] = [tx[p] EXCEPT !.at = at, !.ids = ids, !.vectors = vectors]]
  <2>1. CASE SelectChunkIds(p)
    <3> DEFINE at == IF rows["chunks"] = {} THEN "chunks" ELSE "embeddings"
    <3>1. /\ rows["chunks"] \subseteq Generations /\ tx[p].vectors \in SUBSET Generations
          /\ tx[p] = [tx[p] EXCEPT !.vectors = tx[p].vectors]
      BY RequestFacts DEF Request, Tables
    <3>2. tx' = [tx EXCEPT ![p] = [tx[p] EXCEPT !.at = at, !.ids = rows["chunks"],
                                                !.vectors = tx[p].vectors]]
      BY <2>1, RequestFacts DEF SelectChunkIds, Request
    <3> QED
      BY <3>1, <3>2
  <2>2. CASE DeactivateEmbeddings(p)
    <3>1. tx[p].ids \in SUBSET Generations /\ tx[p].ids \intersect embedded \in SUBSET Generations
      BY RequestFacts DEF Request
    <3>2. tx' = [tx EXCEPT ![p] = [tx[p] EXCEPT !.at = "chunks", !.ids = tx[p].ids,
                                                !.vectors = tx[p].ids \intersect embedded]]
      BY <2>2, RequestFacts DEF DeactivateEmbeddings, Request
    <3> QED
      BY <3>1, <3>2
  <2> QED
    BY <2>1, <2>2
<1> DEFINE r == [tx[p] EXCEPT !.at = at, !.ids = ids, !.vectors = vectors]
<1>2. /\ r \in Request /\ r.at = at /\ r.version = tx[p].version /\ r.original = tx[p].original
      /\ r.content = tx[p].content /\ r.cleared = tx[p].cleared /\ r.rechunk = tx[p].rechunk
      /\ r.waiting = tx[p].waiting /\ r.seen = tx[p].seen
  BY RequestFacts, ZenonT(30) DEF Request, Steps
<1>3. Served(p, r)
  BY <1>1, RequestFacts DEF SelectChunkIds, DeactivateEmbeddings, Served
<1> HIDE DEF r
<1>4. ServesWell(p, r)
  <2>1. tx[p].at \in {"ids", "embeddings"}
    BY DEF SelectChunkIds, DeactivateEmbeddings
  <2>2. /\ RequestOK(tx[p]) /\ UndisturbedOK(tx[p]) /\ tx[p].seen <= Len(runs) /\ p \in Serving
    BY <2>1, RequestFacts DEF Inactive
  <2>3. ~tx[p].waiting
    BY <2>1, <2>2 DEF RequestOK, Tables
  <2>4. UndisturbedOK(r)
    BY <1>2, <2>1, <2>2, <2>3 DEF UndisturbedOK
  <2> QED
    BY <1>1, <1>2, <1>3, <2>1, <2>2, <2>3, <2>4 DEF ServesWell, Served, MarksOK, RequestOK
<1> QED
  BY <1>3, <1>4, RequestStep

LEMMA WaitKeeps ==
  ASSUME PublishingInv, NEW p \in Publishers, WaitToMark(p)
  PROVE  PublishingInv'
<1>1. PICK s : s = rows[tx[p].at]
  OBVIOUS
<1> DEFINE r == [tx[p] EXCEPT !.waiting = TRUE, !.snapshot = s]
<1>2. /\ tx[p].at \in Tables /\ ~tx[p].waiting /\ s \subseteq Generations
      /\ tx' = [tx EXCEPT ![p] = r]
  BY <1>1, RequestFacts DEF WaitToMark
<1>3. /\ r \in Request /\ r.at = tx[p].at /\ r.version = tx[p].version
      /\ r.original = tx[p].original /\ r.snapshot = s
      /\ r.content = tx[p].content /\ r.cleared = tx[p].cleared /\ r.rechunk = tx[p].rechunk
      /\ r.seen = tx[p].seen
  BY <1>2, RequestFacts DEF Request
<1>4. Served(p, r)
  BY <1>2, RequestFacts DEF WaitToMark, Served
<1> HIDE DEF r
<1>5. ServesWell(p, r)
  <2>1. /\ RequestOK(tx[p]) /\ MarksOK(tx[p]) /\ UndisturbedOK(tx[p])
        /\ tx[p].seen <= Len(runs) /\ p \in Serving
    BY <1>2, RequestFacts DEF Inactive, Tables
  <2>2. MarksOK(r)
    BY <1>1, <1>2, <1>3, <2>1 DEF MarksOK, Tables
  <2>3. UndisturbedOK(r)
    BY <1>1, <1>2, <1>3, <2>1 DEF UndisturbedOK, Tables
  <2> QED
    BY <1>2, <1>3, <1>4, <2>1, <2>2, <2>3 DEF ServesWell, Served, RequestOK, Tables
<1> QED
  BY <1>4, <1>5, RequestStep

\* A table is marked: at once, or after a wait, what is left of the snapshot.
LEMMA MarkKeeps ==
  ASSUME PublishingInv, NEW p \in Publishers, MarkDeleted(p) \/ MarkAfterWait(p)
  PROVE  PublishingInv'
<1>1. PICK table, gone, s :
        /\ table = tx[p].at
        /\ gone = IF tx[p].waiting THEN tx[p].snapshot \intersect rows[table] ELSE rows[table]
        /\ s = IF tx[p].waiting THEN {} ELSE tx[p].snapshot
  OBVIOUS
<1> DEFINE r == [tx[p] EXCEPT !.at = After(table), !.waiting = FALSE, !.snapshot = s,
                              !.cleared = [@ EXCEPT ![table] = gone]]
<1>2. /\ table \in Tables /\ gone \subseteq rows[table] /\ gone \subseteq Published
      /\ s \subseteq Generations
      /\ RequestOK(tx[p]) /\ MarksOK(tx[p]) /\ UndisturbedOK(tx[p])
      /\ tx[p] \in Request /\ tx \in [Publishers -> Request]
      /\ tx[p].seen <= Len(runs) /\ p \in Serving
  <2>1. /\ RequestOK(tx[p]) /\ MarksOK(tx[p]) /\ UndisturbedOK(tx[p])
        /\ tx[p] \in Request /\ tx \in [Publishers -> Request]
        /\ tx[p].seen <= Len(runs)
        /\ \A t \in Tables : rows[t] \subseteq Published
        /\ (p \in Serving <=> tx[p].at \notin Inactive)
    BY RequestFacts
  <2>2. table \in Tables
    BY <1>1, <2>1 DEF MarkDeleted, MarkAfterWait, RequestOK
  <2>3. s \subseteq Generations
    BY <1>1, <2>1 DEF Request
  <2> QED
    BY <1>1, <2>1, <2>2, <2>3 DEF Inactive, Tables
<1>3. tx' = [tx EXCEPT ![p] = r]
  <2>1. CASE MarkDeleted(p)
    <3>1. ~tx[p].waiting /\ gone = rows[table] /\ s = tx[p].snapshot
      BY <1>1, <2>1 DEF MarkDeleted
    <3>2. r = [tx[p] EXCEPT !.at = After(table), !.cleared = [@ EXCEPT ![table] = gone]]
      BY <1>2, <3>1 DEF Request
    <3>3. tx' = [tx EXCEPT ![p].at = After(table), ![p].cleared[table] = gone]
      BY <1>1, <2>1, <3>1 DEF MarkDeleted
    <3> QED
      BY <1>2, <3>2, <3>3, ZenonT(30)
  <2>2. CASE MarkAfterWait(p)
    <3>1. tx' = [tx EXCEPT ![p].at = After(table), ![p].waiting = FALSE,
                           ![p].snapshot = s, ![p].cleared[table] = gone]
      BY <1>1, <2>2 DEF MarkAfterWait, StillLive
    <3> QED
      BY <1>2, <3>1
  <2> QED
    BY <2>1, <2>2
<1>4. /\ r \in Request /\ r.at = After(table) /\ r.version = tx[p].version
      /\ r.original = tx[p].original /\ r.waiting = FALSE
      /\ r.content = tx[p].content /\ r.cleared = [tx[p].cleared EXCEPT ![table] = gone]
      /\ r.rechunk = tx[p].rechunk /\ r.seen = tx[p].seen
  <2>1. After(table) \in Steps
    BY <1>2 DEF After, Tables, Steps
  <2>2. gone \in SUBSET Generations
    BY <1>2, RequestFacts
  <2>3. [tx[p].cleared EXCEPT ![table] = gone] \in [Tables -> SUBSET Generations]
    BY <1>2, <2>2 DEF Request
  <2> QED
    BY <1>2, <2>1, <2>3 DEF Request
<1>5. r.cleared \in [Tables -> SUBSET Published]
  BY <1>2, <1>4 DEF RequestOK
<1>6. Served(p, r)
  BY <1>3, RequestFacts DEF MarkDeleted, MarkAfterWait, Served
<1> HIDE DEF r
<1>7. \/ table = "chunks" /\ r.at = "paragraphs"
      \/ table = "paragraphs" /\ r.at = "chapters"
      \/ table = "chapters" /\ r.at = "document"
  BY <1>2, <1>4 DEF After, Tables
<1>8. /\ r.cleared[table] = gone
      /\ \A t \in Tables \ {table} : r.cleared[t] = tx[p].cleared[t]
  BY <1>2, <1>4 DEF Request
<1>9. MarksOK(r)
  <2>1. CASE table = "chunks"
    BY <1>4, <1>7, <2>1 DEF MarksOK
  <2>2. CASE table = "paragraphs"
    <3>1. r.cleared["chunks"] \intersect rows["paragraphs"] \subseteq gone
      BY <1>1, <1>2, <1>8, <2>2 DEF MarksOK, Tables
    <3> QED
      BY <1>4, <1>7, <1>8, <2>2, <3>1 DEF MarksOK
  <2>3. CASE table = "chapters"
    <3>1. r.cleared["paragraphs"] \intersect rows["chapters"] \subseteq gone
      BY <1>1, <1>2, <1>8, <2>3 DEF MarksOK, Tables
    <3>2. r.cleared["chunks"] \intersect rows["paragraphs"] \subseteq r.cleared["paragraphs"]
      BY <1>1, <1>2, <1>8, <2>3 DEF MarksOK, Tables
    <3> QED
      BY <1>4, <1>7, <1>8, <2>3, <3>1, <3>2 DEF MarksOK
  <2> QED
    BY <1>7, <2>1, <2>2, <2>3
<1>10. UndisturbedOK(r)
  <2>1. CASE table = "chapters"
    BY <1>1, <1>2, <1>4, <1>7, <1>8, <2>1 DEF UndisturbedOK
  <2>2. CASE table # "chapters"
    BY <1>1, <1>2, <1>4, <1>7, <2>2 DEF UndisturbedOK
  <2> QED
    BY <2>1, <2>2
<1>11. ServesWell(p, r)
  BY <1>1, <1>2, <1>4, <1>5, <1>6, <1>7, <1>9, <1>10 DEF ServesWell, Served, RequestOK
<1> QED
  BY <1>6, <1>11, RequestStep

LEMMA WriteKeeps ==
  ASSUME PublishingInv, NEW p \in Publishers, WriteHierarchy(p)
  PROVE  PublishingInv'
<1>1. PICK s : s = Shift
  OBVIOUS
<1> DEFINE r == [tx[p] EXCEPT !.at = "verdict", !.shift = s]
<1>2. tx[p].at = "document" /\ tx' = [tx EXCEPT ![p] = r] /\ s \in Nat
  BY <1>1, RequestFacts, OrderTypes DEF WriteHierarchy
<1>3. /\ r \in Request /\ r.at = "verdict" /\ r.version = tx[p].version
      /\ r.original = tx[p].original /\ r.waiting = tx[p].waiting /\ r.shift = s
      /\ r.content = tx[p].content /\ r.cleared = tx[p].cleared
      /\ r.rechunk = tx[p].rechunk /\ r.seen = tx[p].seen
  BY <1>2, RequestFacts, ZenonT(30) DEF Request, Steps
<1>4. Served(p, r)
  BY <1>2, RequestFacts DEF WriteHierarchy, Served
<1> HIDE DEF r
<1>5. \A q \in Others(p) : tx[q].at # "verdict"
  BY DEF WriteHierarchy, FileIsHeld, Others
<1>6. ServesWell(p, r)
  <2>1. /\ RequestOK(tx[p]) /\ MarksOK(tx[p]) /\ UndisturbedOK(tx[p])
        /\ tx[p].seen <= Len(runs) /\ p \in Serving
    BY <1>2, RequestFacts DEF Inactive
  <2>2. ~tx[p].waiting
    BY <1>2, <2>1 DEF RequestOK, Tables
  <2>3. MarksOK(r) /\ UndisturbedOK(r)
    BY <1>2, <1>3, <2>1, <2>2 DEF MarksOK, UndisturbedOK
  <2>4. ShiftFits(p) /\ IndexFree(p)
    BY DEF WriteHierarchy
  <2> QED
    BY <1>1, <1>2, <1>3, <1>4, <1>5, <2>1, <2>2, <2>3, <2>4 DEF ServesWell, Served, RequestOK
<1> QED
  BY <1>4, <1>6, RequestStep

-----------------------------------------------------------------------------
(* Verdicts.                                                               *)

\* What a verdict stands on: the unique index was free, so the publication has
\* cleared the newest chapter, and it was the only one left.
LEMMA VerdictClears ==
  ASSUME PublishingInv, NEW p \in Publishers, tx[p].at = "verdict"
  PROVE  /\ rows["chapters"] \subseteq tx[p].cleared["chapters"]
         /\ DeletedChapters(p) = Published /\ ComparedScope(p) = {0}
         /\ \A g \in Published : order[g] + Shift <= OrderLimit
         /\ \A q \in Others(p) : tx[q].at # "verdict"
         /\ tx[p].shift = Shift
<1>1. /\ ShiftFits(p) /\ IndexFree(p) /\ tx[p].shift = Shift
      /\ \A q \in Publishers : tx[q].at = "verdict" => q = p
      /\ tx[p].cleared \in [Tables -> SUBSET Published]
      /\ \A t \in Tables : rows[t] \subseteq Published
      /\ Published \subseteq Generations
  BY RequestFacts DEF VerdictOK, RequestOK
<1>2. \A g \in rows["chapters"] : g \in Published /\ order[g] = 0
  BY DEF PublishingInv, RowsOK, OrderOK
<1>3. rows["chapters"] \subseteq tx[p].cleared["chapters"]
  BY <1>1, <1>2 DEF IndexFree, DeletedChapters
<1>4. DeletedChapters(p) = Published
  BY <1>1, <1>3 DEF DeletedChapters, Tables
<1>5. ComparedScope(p) = {0}
  <2>1. \A t \in Tables : 0 \in Visible(p, t)
    BY DEF Visible
  <2>2. Visible(p, "chapters") = {0}
    BY <1>3 DEF Visible
  <2> QED
    BY <2>1, <2>2 DEF ComparedScope, Tables
<1> QED
  BY <1>1, <1>3, <1>4, <1>5 DEF ShiftFits, Others

\* Either verdict appends a run and frees its place in the bound.
LEMMA VerdictTypes ==
  ASSUME PublishingInv, NEW p \in Publishers, tx[p].at = "verdict",
         NEW outcome \in {"succeeded", "failed"},
         runs' = Append(runs, Run(tx[p], outcome)), tx' = [tx EXCEPT ![p] = Idle]
  PROVE  /\ runs' \in Seq(RunRecord) /\ Len(runs') = Len(runs) + 1
         /\ DOMAIN runs = 1 .. Len(runs) /\ DOMAIN runs' = 1 .. Len(runs) + 1
         /\ \A i \in 1 .. Len(runs) : runs'[i] = runs[i]
         /\ runs'[Len(runs) + 1] = Run(tx[p], outcome)
         /\ Run(tx[p], outcome) \in [version : Versions, content : Contents,
                                     original : originals, outcome : {"succeeded", "failed"}]
         /\ Len(runs) + 1 \in Generations
         /\ Len(runs') + Cardinality(Serving') <= MaxRuns
         /\ tx' \in [Publishers -> Request] /\ tx'[p] = Idle
         /\ \A q \in Others(p) : tx'[q] = tx[q]
<1>1. /\ Types /\ tx \in [Publishers -> Request] /\ Len(runs) \in Nat /\ RequestOK(tx[p])
      /\ p \in Serving /\ originals \subseteq Contents /\ runs \in Seq(RunRecord)
  BY RequestFacts DEF Types, Inactive
<1>2. Run(tx[p], outcome) \in [version : Versions, content : Contents,
                               original : originals, outcome : {"succeeded", "failed"}]
  BY <1>1 DEF RequestOK, Run
<1>3. Run(tx[p], outcome) \in RunRecord
  BY <1>1, <1>2 DEF RunRecord
<1> DEFINE run == Run(tx[p], outcome)
<1>4. /\ runs' \in Seq(RunRecord) /\ Len(runs') = Len(runs) + 1
      /\ DOMAIN runs = 1 .. Len(runs) /\ DOMAIN runs' = 1 .. Len(runs) + 1
      /\ \A i \in 1 .. Len(runs) : runs'[i] = runs[i]
      /\ runs'[Len(runs) + 1] = run
  <2>1. run \in RunRecord /\ runs' = Append(runs, run)
    BY <1>3
  <2> HIDE DEF run
  <2> QED
    BY <1>1, <2>1
<1>5. Idle \in Request /\ Idle.at \in Inactive
  BY IdleWell DEF Inactive
<1>6. Cardinality(Serving') = Cardinality(Serving) - 1
  BY <1>1, <1>5, ServingCount
<1>7. Cardinality(Serving) \in Nat /\ Cardinality(Serving) # 0
  BY <1>1, ServingFinite, FS_EmptySet
<1>8. Len(runs) + Cardinality(Serving) <= MaxRuns /\ MaxRuns \in Nat
  BY PublicationAssumption DEF PublishingInv, Types
<1>9. Len(runs) + 1 \in Generations /\ Len(runs') + Cardinality(Serving') <= MaxRuns
  BY <1>1, <1>4, <1>6, <1>7, <1>8 DEF Generations
<1>10. tx' \in [Publishers -> Request] /\ tx'[p] = Idle /\ \A q \in Others(p) : tx'[q] = tx[q]
  BY <1>1, <1>5 DEF Others
<1> QED
  BY <1>2, <1>4, <1>9, <1>10

\* An ending leaves the requests of the others as they are, and disturbs them.
LEMMA OthersKept ==
  ASSUME PublishingInv, NEW p \in Publishers, tx[p].at = "verdict",
         tx'[p] = Idle, \A q \in Others(p) : tx'[q] = tx[q],
         Len(runs') = Len(runs) + 1, originals' = originals,
         Published \subseteq Published',
         \A t \in Tables : rows'[t] \subseteq rows[t] \union {Len(runs) + 1}
  PROVE  \A q \in Publishers : PublisherOK(q)'
<1>1. Len(runs) \in Nat /\ Len(runs) + 1 \notin Published
  BY PublishedFinite DEF PublishingInv
<1>2. ASSUME NEW q \in Publishers PROVE PublisherOK(q)'
  <2>1. CASE q = p
    <3>1. /\ Idle.at = "idle" /\ Idle.seen = 0 /\ ~Idle.waiting
          /\ Idle.cleared \in [Tables -> SUBSET Published']
      BY IdleWell DEF Idle, Nothing
    <3>2. tx'[q] = Idle
      BY <2>1
    <3>3. RequestOK(tx[q])' /\ MarksOK(tx[q])'
      <4> HIDE DEF Idle
      <4> QED
        BY <1>1, <3>1, <3>2 DEF RequestOK, MarksOK, Tables
    <3>4. UndisturbedOK(tx[q])' /\ VerdictOK(q)'
      BY <1>1, <3>1, <3>2 DEF UndisturbedOK, VerdictOK
    <3> QED
      BY <3>3, <3>4 DEF PublisherOK
  <2>2. CASE q # p
    <3>1. /\ tx'[q] = tx[q] /\ tx[q].at # "verdict"
          /\ RequestOK(tx[q]) /\ MarksOK(tx[q]) /\ tx[q].seen \in Nat
      BY <2>2, RequestFacts, VerdictClears DEF Others
    <3>2. tx[q].cleared \in [Tables -> SUBSET Published]
      BY <3>1 DEF RequestOK
    <3>3. RequestOK(tx[q])'
      BY <1>1, <3>1 DEF RequestOK
    <3>4. \A t, u \in Tables : tx[q].cleared[t] \intersect rows'[u] \subseteq rows[u]
      BY <1>1, <3>2
    <3>5. MarksOK(tx[q])'
      BY <3>1, <3>4 DEF MarksOK, Tables
    <3>6. UndisturbedOK(tx[q])' /\ VerdictOK(q)'
      BY <1>1, <3>1 DEF RequestOK, UndisturbedOK, VerdictOK
    <3> QED
      BY <3>3, <3>5, <3>6 DEF PublisherOK
  <2> QED
    BY <2>1, <2>2
<1> QED
  BY <1>2

LEMMA RefuseKeeps ==
  ASSUME PublishingInv, NEW p \in Publishers, Refuse(p)
  PROVE  PublishingInv'
<1> DEFINE run == Run(tx[p], "failed")
<1>1. /\ tx[p].at = "verdict" /\ runs' = Append(runs, run) /\ tx' = [tx EXCEPT ![p] = Idle]
      /\ UNCHANGED <<rows, order, embedded, document, originals, worker>>
      /\ Published' = Published
  BY DEF Refuse, Published
<1>2. /\ runs' \in Seq(RunRecord) /\ Len(runs') = Len(runs) + 1
      /\ DOMAIN runs = 1 .. Len(runs) /\ DOMAIN runs' = 1 .. Len(runs) + 1
      /\ \A i \in 1 .. Len(runs) : runs'[i] = runs[i]
      /\ runs'[Len(runs) + 1] = run
      /\ run \in [version : Versions, content : Contents,
                  original : originals, outcome : {"succeeded", "failed"}]
      /\ Len(runs') + Cardinality(Serving') <= MaxRuns
      /\ tx' \in [Publishers -> Request] /\ tx'[p] = Idle
      /\ \A q \in Others(p) : tx'[q] = tx[q]
  BY <1>1, VerdictTypes
<1>3. /\ Types /\ TypeOK /\ Len(runs) \in Nat /\ Published \subseteq 1 .. Len(runs)
      /\ Len(runs) + 1 \notin Published
  BY PublishedFinite DEF PublishingInv, Types
<1>4. run.outcome = "failed"
  BY DEF Run
<1> HIDE DEF run
<1>5. Types'
  <2>1. \A i \in DOMAIN runs' :
          /\ runs'[i] \in [version : Versions, content : Contents,
                           original : originals', outcome : {"succeeded", "failed"}]
          /\ runs'[i].outcome = "succeeded" <=> i \in Published'
    <3>1. \A i \in 1 .. Len(runs) :
            /\ runs[i] \in [version : Versions, content : Contents,
                            original : originals, outcome : {"succeeded", "failed"}]
            /\ runs[i].outcome = "succeeded" <=> i \in Published
      BY <1>2, <1>3 DEF TypeOK
    <3>2. \A i \in DOMAIN runs' : i \in 1 .. Len(runs) \/ i = Len(runs) + 1
      BY <1>2, <1>3
    <3> QED
      BY <1>1, <1>2, <1>3, <1>4, <3>1, <3>2
  <2>2. \A q \in Publishers : /\ tx'[q].at \in Steps /\ tx'[q].cleared \in [Tables -> SUBSET Published]
                              /\ (tx'[q].at = "idle" => tx'[q] = Idle)
    BY <1>2, <1>3, IdleWell, ZenonT(30) DEF TypeOK, Others, Request
  <2>3. TypeOK'
    BY <1>1, <1>3, <2>1, <2>2 DEF TypeOK, OrderLimit
  <2>4. Published \subseteq DOMAIN runs'
    BY <1>2, <1>3
  <2> QED
    BY <1>1, <1>2, <2>3, <2>4 DEF Types
<1>6. OrderOK' /\ RowsOK' /\ DocumentOK'
  <2>1. \A g \in Published : runs'[g] = runs[g]
    BY <1>2, <1>3
  <2> QED
    BY <1>1, <2>1 DEF PublishingInv, OrderOK, RowsOK, DocumentOK, Newest
<1>7. \A q \in Publishers : PublisherOK(q)'
  BY <1>1, <1>2, OthersKept
<1> QED
  BY <1>5, <1>6, <1>7 DEF PublishingInv

\* A step of the rebuild: what it has read was published, and it writes no row of
\* the hierarchy.
LEMMA RebuildKeeps == ASSUME PublishingInv, Rebuild PROVE PublishingInv'
<1>1. /\ UNCHANGED <<rows, order, originals, runs, tx>> /\ Published' = Published
      /\ embedded' \in {embedded, embedded \union worker.read}
      /\ document' = document \/ document' = [document EXCEPT !.needs_revectorize = FALSE]
      /\ worker' = IdleWorker \/ worker' = [at |-> "embedding", read |-> rows["chunks"]]
      /\ Types /\ TypeOK
  BY DEF Rebuild, ReadChunks, EmbeddingFails, Persist, Published, PublishingInv, Types
<1>2. /\ document'.version = document.version /\ document'.content = document.content
      /\ document'.original = document.original
      /\ document' \in [version : Versions \union {None},
                        content : Contents \union {None},
                        original : Contents \union {None}, needs_revectorize : BOOLEAN]
  <2>1. document \in [version : Versions \union {None}, content : Contents \union {None},
                      original : Contents \union {None}, needs_revectorize : BOOLEAN]
    BY <1>1 DEF TypeOK
  <2> QED
    BY <1>1, <2>1
<1>3. Types'
  <2>1. (UNION {rows[t] : t \in Tables}) \union embedded' \subseteq Published
    <3>1. worker.read \subseteq Published
      BY <1>1 DEF TypeOK
    <3> QED
      BY <1>1, <3>1 DEF TypeOK
  <2>2. worker' \in [at : {"idle", "embedding"}, read : SUBSET Published]
    <3>1. rows["chunks"] \in SUBSET Published
      BY <1>1 DEF TypeOK, Tables
    <3> QED
      BY <1>1, <3>1 DEF IdleWorker
  <2>3. TypeOK'
    <3>1. /\ rows' \in [Tables -> SUBSET Generations] /\ Published' \subseteq Generations
          /\ order' \in [Published' -> 0..OrderLimit'] /\ originals' \subseteq Contents
      BY <1>1 DEF TypeOK, OrderLimit
    <3>2. \A i \in DOMAIN runs' :
            /\ runs'[i] \in [version : Versions, content : Contents,
                             original : originals', outcome : {"succeeded", "failed"}]
            /\ runs'[i].outcome = "succeeded" <=> i \in Published'
      BY <1>1 DEF TypeOK
    <3>3. \A p \in Publishers :
            /\ tx'[p].at \in Steps /\ tx'[p].cleared \in [Tables -> SUBSET Published']
            /\ tx'[p].at = "idle" => tx'[p] = Idle
      BY <1>1 DEF TypeOK
    <3>4. /\ (UNION {rows'[t] : t \in Tables}) \union embedded' \subseteq Published'
          /\ worker' \in [at : {"idle", "embedding"}, read : SUBSET Published']
      BY <1>1, <2>1, <2>2
    <3> QED
      BY <1>2, <3>1, <3>2, <3>3, <3>4 DEF TypeOK
  <2> QED
    BY <1>1, <2>3 DEF Types, Serving
<1>4. OrderOK' /\ RowsOK' /\ DocumentOK'
  BY <1>1, <1>2 DEF PublishingInv, OrderOK, RowsOK, DocumentOK, Newest
<1>5. ASSUME NEW q \in Publishers PROVE PublisherOK(q)'
  <2>1. /\ RequestOK(tx[q]) /\ MarksOK(tx[q]) /\ UndisturbedOK(tx[q])
        /\ tx[q].at = "verdict" => ShiftFits(q) /\ IndexFree(q) /\ tx[q].shift = Shift
        /\ tx[q].at = "verdict" => \A r \in Publishers : tx[r].at = "verdict" => r = q
    BY <1>5 DEF PublishingInv, PublisherOK, VerdictOK
  <2>2. RequestOK(tx[q])'
    BY <1>1, <2>1 DEF RequestOK
  <2>3. MarksOK(tx[q])'
    BY <1>1, <2>1 DEF MarksOK
  <2>4. UndisturbedOK(tx[q])'
    BY <1>1, <1>2, <2>1 DEF UndisturbedOK, NoPartialVersion
  <2>5. /\ ShiftFits(q) => ShiftFits(q)'
        /\ IndexFree(q) => IndexFree(q)'
        /\ Shift' = Shift
    <3>1. MaxOrder' = MaxOrder
      BY <1>1 DEF MaxOrder
    <3>2. Shift' = Shift /\ DeletedChapters(q)' = DeletedChapters(q) /\ OrderLimit' = OrderLimit
      BY <1>1, <3>1 DEF Shift, DeletedChapters, OrderLimit
    <3> QED
      BY <1>1, <3>2 DEF ShiftFits, IndexFree
  <2>6. VerdictOK(q)'
    BY <1>1, <2>1, <2>5 DEF VerdictOK
  <2> QED
    BY <2>2, <2>3, <2>4, <2>6 DEF PublisherOK
<1> QED
  BY <1>3, <1>4, <1>5 DEF PublishingInv

\* What a commit writes.
LEMMA CommitWrites ==
  ASSUME PublishingInv, NEW p \in Publishers, Commit(p)
  PROVE  LET new == Len(runs) + 1
         IN  /\ tx[p].at = "verdict"
             /\ rows' = [t \in Tables |-> (rows[t] \ tx[p].cleared[t]) \union {new}]
             /\ rows'["chapters"] = {new}
             /\ Published' = Published \union {new}
             /\ DOMAIN order' = Published' /\ order'[new] = 0
             /\ order' = [g \in Published' |-> order'[g]]
             /\ \A g \in Published : order'[g] = order[g] + Shift
             /\ document'.version = tx[p].version /\ document'.content = tx[p].content
             /\ runs' = Append(runs, Run(tx[p], "succeeded"))
             /\ tx' = [tx EXCEPT ![p] = Idle]
             /\ UNCHANGED <<embedded, originals, worker>>
<1> DEFINE new == Len(runs) + 1
<1>1. /\ tx[p].at = "verdict"
      /\ rows' = [t \in Tables |-> (rows[t] \ tx[p].cleared[t]) \union {new}]
      /\ order' = [g \in Published \union {new} |->
                     IF g = new THEN 0
                     ELSE IF g \in DeletedChapters(p) THEN order[g] + tx[p].shift
                     ELSE order[g]]
      /\ document'.version = tx[p].version /\ document'.content = tx[p].content
      /\ runs' = Append(runs, Run(tx[p], "succeeded"))
      /\ tx' = [tx EXCEPT ![p] = Idle]
      /\ UNCHANGED <<embedded, originals, worker>>
  BY DEF Commit
<1>2. /\ rows["chapters"] \subseteq tx[p].cleared["chapters"]
      /\ DeletedChapters(p) = Published /\ tx[p].shift = Shift
  BY <1>1, VerdictClears
<1>3. new \notin Published
  BY PublishedFinite DEF PublishingInv
<1>4. rows'["chapters"] = {new}
  BY <1>1, <1>2 DEF Tables
<1> HIDE DEF new
<1>5. Published' = Published \union {new}
  BY <1>1 DEF Published
<1>6. order'[new] = 0 /\ \A g \in Published : order'[g] = order[g] + Shift
  BY <1>1, <1>2, <1>3
<1>7. DOMAIN order' = Published' /\ order' = [g \in Published' |-> order'[g]]
  BY <1>1, <1>5
<1> QED
  BY <1>1, <1>4, <1>5, <1>6, <1>7 DEF new

\* The order of the chapters after a commit.
LEMMA CommitOrders ==
  ASSUME PublishingInv, NEW p \in Publishers, Commit(p)
  PROVE  /\ OrderOK' /\ order' \in [Published' -> 0 .. OrderLimit]
         /\ \A g \in Published' : Newest(g)' <=> g = Len(runs) + 1
<1> DEFINE new == Len(runs) + 1
           n == Cardinality(Published)
<1>1. /\ Published' = Published \union {new} /\ order'[new] = 0
      /\ order' = [g \in Published' |-> order'[g]]
      /\ \A g \in Published : order'[g] = order[g] + Shift
      /\ tx[p].at = "verdict"
  BY CommitWrites
<1>2. /\ n \in Nat /\ Published \subseteq 1 .. Len(runs) /\ Len(runs) \in Nat
      /\ new \notin Published /\ Cardinality(Published') = n + 1
  BY <1>1, PublishedFinite DEF PublishingInv
<1>3. /\ MaxOrder \in Nat /\ \A g \in Published : order[g] \in Nat /\ order[g] <= MaxOrder
      /\ Published # {} => \E g \in Published : order[g] = MaxOrder
      /\ Shift = MaxOrder + 1
  BY OrderTypes DEF PublishingInv
<1>4. \A g \in Published' : Newest(g)' <=> g = new
  <2>1. \A g \in Published : g < new /\ g \in Nat
    BY <1>2
  <2>2. new \in Nat
    BY <1>2
  <2> HIDE DEF new
  <2> QED
    BY <1>1, <2>1, <2>2 DEF Newest
<1>5. ASSUME NEW g \in Published' PROVE 2 * (order'[g] + 1) <= 2 ^ Cardinality(Published')
  <2>1. 2 ^ (n + 1) = 2 ^ n + 2 ^ n /\ 2 ^ n \in Nat /\ 2 ^ n >= 1
    BY <1>2, PowerDoubles, PowerType
  <2>2. CASE g = new
    <3>1. 2 * (0 + 1) <= 2 ^ n + 2 ^ n
      BY <2>1
    <3> QED
      BY <1>1, <1>2, <2>1, <2>2, <3>1
  <2>3. CASE g # new
    <3>1. g \in Published
      BY <1>1, <2>3
    <3>2. PICK h \in Published : order[h] = MaxOrder
      BY <1>3, <3>1
    <3>3. 2 * (order[g] + 1) <= 2 ^ n /\ 2 * (MaxOrder + 1) <= 2 ^ n
      BY <3>1, <3>2 DEF PublishingInv, OrderOK
    <3>4. PICK a \in Nat, b \in Nat, m \in Nat : a = order[g] /\ b = MaxOrder /\ m = 2 ^ n
      BY <1>3, <2>1, <3>1
    <3>5. 2 * (a + (b + 1) + 1) <= m + m
      BY <3>3, <3>4
    <3>6. order'[g] = a + (b + 1)
      BY <1>1, <1>3, <3>1, <3>4
    <3> QED
      BY <1>2, <2>1, <3>4, <3>5, <3>6
  <2> QED
    BY <2>2, <2>3
<1>6. \A g \in Published' : order'[g] = 0 <=> g = new
  <2>1. \A g \in Published : order'[g] # 0 /\ g # new
    BY <1>1, <1>2, <1>3
  <2> HIDE DEF new
  <2> QED
    BY <1>1, <2>1
<1>7. \A g \in Published' : order'[g] \in 0 .. OrderLimit
  <2>1. \A g \in Published : order[g] + Shift <= OrderLimit
    BY <1>1, VerdictClears
  <2>2. \A g \in Published : order'[g] \in 0 .. OrderLimit
    BY <1>1, <1>3, <2>1, OrderLimitType
  <2>3. order'[new] \in 0 .. OrderLimit
    BY <1>1, OrderLimitType
  <2> HIDE DEF new
  <2> QED
    BY <1>1, <2>2, <2>3
<1>8. order' \in [Published' -> 0 .. OrderLimit]
  BY <1>1, <1>7
<1>9. OrderOK'
  BY <1>4, <1>5, <1>6 DEF OrderOK
<1> QED
  BY <1>4, <1>8, <1>9

LEMMA CommitKeeps ==
  ASSUME PublishingInv, NEW p \in Publishers, Commit(p)
  PROVE  PublishingInv'
<1> DEFINE new == Len(runs) + 1
           run == Run(tx[p], "succeeded")
<1>1. /\ tx[p].at = "verdict" /\ runs' = Append(runs, run) /\ tx' = [tx EXCEPT ![p] = Idle]
      /\ rows' = [t \in Tables |-> (rows[t] \ tx[p].cleared[t]) \union {new}]
      /\ rows'["chapters"] = {new} /\ Published' = Published \union {new}
      /\ document'.version = tx[p].version /\ document'.content = tx[p].content
      /\ UNCHANGED <<embedded, originals, worker>>
  BY CommitWrites
<1>2. /\ runs' \in Seq(RunRecord) /\ Len(runs') = Len(runs) + 1
      /\ DOMAIN runs = 1 .. Len(runs) /\ DOMAIN runs' = 1 .. Len(runs) + 1
      /\ \A i \in 1 .. Len(runs) : runs'[i] = runs[i]
      /\ runs'[new] = run
      /\ run \in [version : Versions, content : Contents,
                  original : originals, outcome : {"succeeded", "failed"}]
      /\ new \in Generations
      /\ Len(runs') + Cardinality(Serving') <= MaxRuns
      /\ tx' \in [Publishers -> Request] /\ tx'[p] = Idle
      /\ \A q \in Others(p) : tx'[q] = tx[q]
  BY <1>1, VerdictTypes
<1>3. /\ Types /\ TypeOK /\ Len(runs) \in Nat /\ Published \subseteq 1 .. Len(runs)
      /\ new \notin Published /\ Published \subseteq Generations
      /\ rows \in [Tables -> SUBSET Generations]
      /\ \A t \in Tables : rows[t] \subseteq Published
      /\ RequestOK(tx[p]) /\ MarksOK(tx[p])
  BY PublishedFinite, RequestFacts
<1>4. run.outcome = "succeeded" /\ run.version = tx[p].version /\ run.content = tx[p].content
  BY DEF Run
<1>5. /\ OrderOK' /\ order' \in [Published' -> 0 .. OrderLimit]
      /\ \A g \in Published' : Newest(g)' <=> g = new
  BY CommitOrders
<1> HIDE DEF run
<1>6. \A i \in DOMAIN runs' :
        /\ runs'[i] \in [version : Versions, content : Contents,
                         original : originals, outcome : {"succeeded", "failed"}]
        /\ runs'[i].outcome = "succeeded" <=> i \in Published'
  <2>1. \A i \in 1 .. Len(runs) :
          /\ runs[i] \in [version : Versions, content : Contents,
                          original : originals, outcome : {"succeeded", "failed"}]
          /\ runs[i].outcome = "succeeded" <=> i \in Published
          /\ i # new
    BY <1>2, <1>3 DEF TypeOK
  <2>2. \A i \in DOMAIN runs' : i \in 1 .. Len(runs) \/ i = new
    BY <1>2, <1>3
  <2> HIDE DEF new
  <2>3. ASSUME NEW i \in 1 .. Len(runs)
        PROVE  /\ runs'[i] \in [version : Versions, content : Contents,
                                original : originals, outcome : {"succeeded", "failed"}]
               /\ runs'[i].outcome = "succeeded" <=> i \in Published'
    BY <1>1, <1>2, <2>1
  <2>4. /\ runs'[new] \in [version : Versions, content : Contents,
                           original : originals, outcome : {"succeeded", "failed"}]
        /\ runs'[new].outcome = "succeeded" <=> new \in Published'
    BY <1>1, <1>2, <1>4
  <2> QED
    BY <2>2, <2>3, <2>4
<1>7. /\ \A t \in Tables : rows'[t] \subseteq Published'
      /\ rows' \in [Tables -> SUBSET Generations] /\ Published' \subseteq Generations
  BY <1>1, <1>2, <1>3
<1>8. TypeOK'
  <2>1. (UNION {rows'[t] : t \in Tables}) \union embedded' \subseteq Published'
    <3>1. embedded' \subseteq Published'
      BY <1>1, <1>3 DEF TypeOK
    <3> QED
      BY <1>7, <3>1
  <2>2. document' \in [version : Versions \union {None},
                       content : Contents \union {None},
                       original : Contents \union {None}, needs_revectorize : BOOLEAN]
    <3>1. /\ tx[p].version \in Versions /\ tx[p].content \in Contents
          /\ tx[p].original \in Contents
          /\ document.original \in Contents \union {None}
      BY <1>1, <1>3 DEF RequestOK, TypeOK
    <3> QED
      BY <3>1 DEF Commit
  <2>3. \A q \in Publishers : /\ tx'[q].at \in Steps /\ tx'[q].cleared \in [Tables -> SUBSET Published']
                              /\ (tx'[q].at = "idle" => tx'[q] = Idle)
    <3>1. \A q \in Publishers : tx'[q] = Idle \/ tx'[q] = tx[q]
      BY <1>2 DEF Others
    <3>2. \A q \in Publishers : /\ tx[q].at \in Steps /\ tx[q].cleared \in [Tables -> SUBSET Published]
                                /\ (tx[q].at = "idle" => tx[q] = Idle)
      BY <1>3 DEF TypeOK
    <3>3. Idle.at \in Steps /\ Idle.cleared \in [Tables -> SUBSET Published]
      BY IdleWell DEF Request
    <3>4. Published \subseteq Published'
      BY <1>1
    <3> HIDE DEF Idle
    <3> QED
      BY <3>1, <3>2, <3>3, <3>4
  <2> QED
    BY <1>1, <1>3, <1>5, <1>6, <1>7, <2>1, <2>2, <2>3 DEF TypeOK, OrderLimit
<1>9. Types'
  <2>1. Published' \subseteq DOMAIN runs'
    <3>1. \A g \in 1 .. Len(runs) : g \in 1 .. Len(runs) + 1
      BY <1>3
    <3>2. new \in 1 .. Len(runs) + 1
      BY <1>3
    <3> HIDE DEF new
    <3> QED
      BY <1>1, <1>2, <1>3, <3>1, <3>2
  <2> QED
    BY <1>2, <1>8, <2>1 DEF Types
<1>10. RowsOK'
  <2>1. rows'["chapters"] = {g \in Published' : Newest(g)'}
    BY <1>1, <1>5
  <2>2. \A t \in Tables : new \in rows'[t]
    BY <1>1
  <2>3. rows'["paragraphs"] \subseteq rows'["chunks"]
    <3>1. rows["paragraphs"] \subseteq rows["chunks"]
      BY DEF PublishingInv, RowsOK
    <3>2. tx[p].cleared["chunks"] \intersect rows["paragraphs"] \subseteq tx[p].cleared["paragraphs"]
      BY <1>1, <1>3 DEF MarksOK
    <3> QED
      BY <1>1, <3>1, <3>2 DEF Tables
  <2> QED
    BY <1>1, <2>1, <2>2, <2>3 DEF RowsOK, Tables
<1>11. DocumentOK'
  BY <1>1, <1>2, <1>4, <1>5 DEF DocumentOK
<1>12. \A q \in Publishers : PublisherOK(q)'
  <2>1. \A t \in Tables : rows'[t] \subseteq rows[t] \union {Len(runs) + 1}
    BY <1>1
  <2> QED
    BY <1>1, <1>2, <2>1, OthersKept
<1> QED
  BY <1>5, <1>9, <1>10, <1>11, <1>12 DEF PublishingInv

-----------------------------------------------------------------------------
(* The invariant of the specification.                                     *)

LEMMA PublishingInit == ASSUME Init PROVE PublishingInv
<1>1. /\ Published = {} /\ DOMAIN runs = {} /\ Len(runs) = 0 /\ runs \in Seq(RunRecord)
      /\ \A t \in Tables : rows[t] = {}
      /\ \A p \in Publishers : tx[p] = Idle
      /\ embedded = {} /\ originals = {}
  BY DEF Init, Published, Nothing
<1>2. Idle \in Request /\ Idle.at = "idle" /\ Idle.cleared \in [Tables -> SUBSET Published]
  BY DEF Idle, Request, Steps, Nothing
<1>3. Serving = {}
  BY <1>1, <1>2 DEF Serving
<1>4. TypeOK
  <2>1. rows \in [Tables -> SUBSET Generations] /\ order \in [Published -> 0 .. OrderLimit]
    BY <1>1 DEF Init, Nothing, Published
  <2>2. document \in [version : Versions \union {None}, content : Contents \union {None},
                      original : Contents \union {None}, needs_revectorize : BOOLEAN]
    BY DEF Init
  <2>3. \A p \in Publishers : /\ tx[p].at \in Steps /\ tx[p].cleared \in [Tables -> SUBSET Published]
                              /\ (tx[p].at = "idle" => tx[p] = Idle)
    BY <1>1, <1>2 DEF Steps
  <2>4. worker \in [at : {"idle", "embedding"}, read : SUBSET Published]
    BY DEF Init, IdleWorker
  <2> HIDE DEF Idle
  <2> QED
    BY <1>1, <2>1, <2>2, <2>3, <2>4 DEF TypeOK
<1>5. Types
  <2>1. tx \in [Publishers -> Request]
    BY <1>2 DEF Init
  <2>2. Len(runs) + Cardinality(Serving) <= MaxRuns
    BY <1>1, <1>3, FS_EmptySet, PublicationAssumption
  <2> QED
    BY <1>1, <1>4, <2>1, <2>2 DEF Types
<1>6. OrderOK /\ RowsOK /\ DocumentOK
  BY <1>1 DEF OrderOK, RowsOK, DocumentOK, Init, Tables
<1>7. ASSUME NEW p \in Publishers PROVE PublisherOK(p)
  <2>1. Idle.seen = 0 /\ ~Idle.waiting
    BY DEF Idle
  <2>2. tx[p] = Idle
    BY <1>1
  <2> HIDE DEF Idle
  <2> QED
    BY <1>1, <1>2, <2>1, <2>2
       DEF PublisherOK, RequestOK, MarksOK, UndisturbedOK, VerdictOK, Tables
<1> QED
  BY <1>5, <1>6, <1>7 DEF PublishingInv

LEMMA PublishingStep ==
  ASSUME PublishingInv, [Next]_vars
  PROVE  PublishingInv'
<1>1. CASE UNCHANGED vars
  <2>1. /\ UNCHANGED <<rows, order, embedded, document, originals, runs, tx, worker>>
        /\ Published' = Published
    BY <1>1 DEF vars, Published
  <2>2. Types'
    BY <2>1 DEF PublishingInv, Types, TypeOK, Serving
  <2>3. OrderOK' /\ RowsOK' /\ DocumentOK'
    BY <2>1 DEF PublishingInv, OrderOK, RowsOK, DocumentOK, Newest
  <2>4. ASSUME NEW q \in Publishers PROVE PublisherOK(q)'
    <3>1. PublisherOK(q)
      BY DEF PublishingInv
    <3>2. Shift' = Shift /\ DeletedChapters(q)' = DeletedChapters(q)
      BY <2>1 DEF Shift, MaxOrder, DeletedChapters
    <3> QED
      BY <2>1, <3>1, <3>2
         DEF PublisherOK, RequestOK, MarksOK, UndisturbedOK, VerdictOK, NoPartialVersion,
             ShiftFits, IndexFree
  <2> QED
    BY <2>2, <2>3, <2>4 DEF PublishingInv
<1>2. CASE Rebuild
  BY <1>2, RebuildKeeps
<1>3. ASSUME NEW p \in Publishers,
             \/ \E upload \in Uploads : Upload(p, upload)
             \/ \E version \in RechunkVersions : Rechunk(p, version)
             \/ Serve(p)
             \/ Fail(p)
      PROVE  PublishingInv'
  <2>1. CASE \E upload \in Uploads : Upload(p, upload)
    BY <2>1, UploadKeeps
  <2>2. CASE \E version \in RechunkVersions : Rechunk(p, version)
    BY <2>2, RechunkKeeps
  <2>3. CASE Replay(p) \/ OutOfRoom(p) \/ WriteRefusedByDatabase(p) \/ Fail(p)
    BY <2>3, StopKeeps DEF Replay, OutOfRoom, WriteRefusedByDatabase, Fail
  <2>4. CASE Lookup(p)
    BY <2>4, LookupKeeps
  <2>5. CASE ResolvePrimarySource(p)
    BY <2>5, ResolveKeeps
  <2>6. CASE SelectChunkIds(p) \/ DeactivateEmbeddings(p)
    BY <2>6, SelectKeeps
  <2>7. CASE MarkDeleted(p) \/ MarkAfterWait(p)
    BY <2>7, MarkKeeps
  <2>8. CASE WaitToMark(p)
    BY <2>8, WaitKeeps
  <2>9. CASE WriteHierarchy(p)
    BY <2>9, WriteKeeps
  <2>10. CASE Commit(p)
    BY <2>10, CommitKeeps
  <2>11. CASE Refuse(p)
    BY <2>11, RefuseKeeps
  <2> QED
    BY <1>3, <2>1, <2>2, <2>3, <2>4, <2>5, <2>6, <2>7, <2>8, <2>9, <2>10, <2>11 DEF Serve
<1> QED
  BY <1>1, <1>2, <1>3 DEF Next

LEMMA PublishingAlways == Spec => []PublishingInv
<1>1. Init => PublishingInv
  BY PublishingInit
<1>2. PublishingInv /\ [Next]_vars => PublishingInv'
  BY PublishingStep
<1> QED
  BY <1>1, <1>2, PTL DEF Spec

-----------------------------------------------------------------------------
(* Theorems.                                                               *)

\* While no other publication ends, the hierarchy that one has marked is the
\* whole of it, and the doubling index has room for OrderWidth of them.
LEMMA UndisturbedFits ==
  ASSUME PublishingInv
  PROVE  UndisturbedPublicationFits
<1> SUFFICES ASSUME NEW p \in Publishers, tx[p].at = "document", Undisturbed(p),
                    Cardinality(Published) <= OrderWidth
             PROVE  ShiftFits(p) /\ IndexFree(p)
  BY DEF UndisturbedPublicationFits
<1>1. /\ MaxOrder \in Nat /\ \A g \in Published : order[g] \in Nat /\ order[g] <= MaxOrder
      /\ Published # {} => \E g \in Published : order[g] = MaxOrder
      /\ Shift = MaxOrder + 1
  BY OrderTypes DEF PublishingInv
<1>2. /\ tx[p].cleared \in [Tables -> SUBSET Published]
      /\ rows["chapters"] \subseteq tx[p].cleared["chapters"]
      /\ \A t \in Tables : rows[t] \subseteq Published
  BY RequestFacts DEF UndisturbedOK, Undisturbed, RequestOK
<1>3. DeletedChapters(p) = Published
  BY <1>2 DEF DeletedChapters, Tables
<1>4. IndexFree(p)
  BY <1>1, <1>3 DEF IndexFree
<1>5. ASSUME NEW g \in Published PROVE order[g] + Shift <= OrderLimit
  <2>1. PICK h \in Published : order[h] = MaxOrder
    BY <1>1, <1>5
  <2>2. 2 * (order[g] + 1) <= 2 ^ Cardinality(Published)
        /\ 2 * (MaxOrder + 1) <= 2 ^ Cardinality(Published)
    BY <2>1 DEF PublishingInv, OrderOK
  <2>3. 2 ^ Cardinality(Published) <= 2 ^ OrderWidth
    BY PublishedFinite, PublicationAssumption, PowerGrows DEF PublishingInv
  <2>4. 2 ^ Cardinality(Published) \in Nat /\ 2 ^ OrderWidth \in Nat
    BY PublishedFinite, PowerType, PublicationAssumption DEF PublishingInv
  <2>5. PICK a \in Nat, b \in Nat, m \in Nat, w \in Nat :
          a = order[g] /\ b = MaxOrder /\ m = 2 ^ Cardinality(Published) /\ w = 2 ^ OrderWidth
    BY <1>1, <2>4
  <2>6. a + (b + 1) <= w - 1
    BY <2>2, <2>3, <2>5
  <2> QED
    BY <1>1, <2>5, <2>6 DEF OrderLimit
<1> QED
  BY <1>3, <1>4, <1>5 DEF ShiftFits

\* For any number of publishers in any interleaving of statements, waits,
\* refusals and failures: states are typed, a verdict is measured on the rows of
\* its own publication alone, and an undisturbed one meets a free chapter index.
THEOREM PublicationCorrect == Spec => []PublicationInv
<1>1. PublishingInv => PublicationInv
  <2>1. PublishingInv => TypeOK
    BY DEF PublishingInv, Types
  <2>2. PublishingInv => ComparedScopeIsOwn
    BY VerdictClears DEF ComparedScopeIsOwn
  <2> QED
    BY <2>1, <2>2, UndisturbedFits DEF PublicationInv
<1> QED
  BY <1>1, PublishingAlways, PTL

\* Reading the document back under this module's tables.
Scope == rows["chunks"] \intersect rows["paragraphs"] \intersect rows["chapters"]
Evidence == [i \in DOMAIN runs |-> runs[i].outcome]

\* The two endings extend the evidence; only a commit changes the scope.
LEMMA EvidenceGrows ==
  ASSUME NEW R \in Seq(RunRecord), NEW r \in RunRecord
  PROVE  [i \in DOMAIN Append(R, r) |-> Append(R, r)[i].outcome]
           = Append([i \in DOMAIN R |-> R[i].outcome], r.outcome)
<1> DEFINE O == {"succeeded", "failed"}
           e == [i \in DOMAIN R |-> R[i].outcome]
           s == [i \in DOMAIN Append(R, r) |-> Append(R, r)[i].outcome]
           t == Append(e, r.outcome)
<1>1. /\ Len(R) \in Nat /\ DOMAIN R = 1 .. Len(R) /\ DOMAIN Append(R, r) = 1 .. Len(R) + 1
      /\ \A i \in 1 .. Len(R) : Append(R, r)[i] = R[i] /\ R[i] \in RunRecord
      /\ Append(R, r)[Len(R) + 1] = r
  OBVIOUS
<1>2. r.outcome \in O /\ \A i \in 1 .. Len(R) : R[i].outcome \in O
  BY <1>1 DEF RunRecord
<1>3. e \in Seq(O) /\ Len(e) = Len(R) /\ \A i \in 1 .. Len(R) : e[i] = R[i].outcome
  BY <1>1, <1>2
<1>4. s = [i \in 1 .. Len(R) + 1 |-> Append(R, r)[i].outcome]
  BY <1>1
<1>5. \A i \in 1 .. Len(R) + 1 : i \in 1 .. Len(R) \/ i = Len(R) + 1
  BY <1>1
<1>6. /\ s \in Seq(O) /\ Len(s) = Len(R) + 1 /\ s[Len(R) + 1] = r.outcome
      /\ \A i \in 1 .. Len(R) : s[i] = R[i].outcome
  BY <1>1, <1>2, <1>4, <1>5
<1> HIDE DEF e, s, O
<1>7. /\ t \in Seq(O) /\ Len(t) = Len(R) + 1 /\ t[Len(R) + 1] = r.outcome
      /\ \A i \in 1 .. Len(R) : t[i] = e[i]
  BY <1>1, <1>2, <1>3
<1> HIDE DEF t
<1>8. \A i \in 1 .. Len(s) : s[i] = t[i]
  <2>1. ASSUME NEW i \in 1 .. Len(R) PROVE s[i] = t[i]
    BY <1>3, <1>6, <1>7
  <2>2. s[Len(R) + 1] = t[Len(R) + 1]
    BY <1>6, <1>7
  <2>3. \A i \in 1 .. Len(s) : i \in 1 .. Len(R) \/ i = Len(R) + 1
    BY <1>5, <1>6
  <2> QED
    BY <2>1, <2>2, <2>3
<1>9. s = t
  BY <1>6, <1>7, <1>8, SeqEqual
<1> QED
  BY <1>9 DEF s, t, e

LEMMA CommitPublishes ==
  ASSUME PublishingInv, NEW p \in Publishers, Commit(p)
  PROVE  /\ Evidence' = Append(Evidence, "succeeded")
         /\ Scope' = {Len(Evidence')}
<1> DEFINE run == Run(tx[p], "succeeded")
<1>1. /\ tx[p].at = "verdict" /\ runs' = Append(runs, run) /\ tx' = [tx EXCEPT ![p] = Idle]
      /\ rows' = [t \in Tables |-> (rows[t] \ tx[p].cleared[t]) \union {Len(runs) + 1}]
      /\ rows'["chapters"] = {Len(runs) + 1}
  BY CommitWrites
<1>2. runs \in Seq(RunRecord) /\ runs' \in Seq(RunRecord) /\ Len(runs') = Len(runs) + 1
      /\ run \in RunRecord
  <2>1. /\ run \in [version : Versions, content : Contents,
                    original : originals, outcome : {"succeeded", "failed"}]
        /\ runs' \in Seq(RunRecord) /\ Len(runs') = Len(runs) + 1
    BY <1>1, VerdictTypes
  <2>2. originals \subseteq Contents /\ runs \in Seq(RunRecord)
    BY RequestFacts DEF PublishingInv, Types
  <2> HIDE DEF run
  <2> QED
    BY <2>1, <2>2 DEF RunRecord
<1>3. run.outcome = "succeeded"
  BY DEF Run
<1> HIDE DEF run
<1>4. Evidence' = Append(Evidence, "succeeded")
  BY <1>1, <1>2, <1>3, EvidenceGrows DEF Evidence
<1>5. Len(Evidence') = Len(runs')
  <2>1. DOMAIN Evidence' = 1 .. Len(runs') /\ Len(runs') \in Nat
    BY <1>2 DEF Evidence
  <2> QED
    BY <1>2, <2>1 DEF Evidence, RunRecord
<1>6. Scope' = {Len(runs) + 1}
  BY <1>1 DEF Scope, Tables
<1> QED
  BY <1>2, <1>4, <1>5, <1>6

LEMMA RefusalRecords ==
  ASSUME PublishingInv, NEW p \in Publishers, Refuse(p)
  PROVE  Evidence' = Append(Evidence, "failed") /\ UNCHANGED Scope
<1> DEFINE run == Run(tx[p], "failed")
<1>1. /\ tx[p].at = "verdict" /\ runs' = Append(runs, run) /\ tx' = [tx EXCEPT ![p] = Idle]
      /\ UNCHANGED rows
  BY DEF Refuse
<1>2. runs \in Seq(RunRecord) /\ run \in RunRecord
  <2>1. run \in [version : Versions, content : Contents,
                 original : originals, outcome : {"succeeded", "failed"}]
    BY <1>1, VerdictTypes
  <2>2. originals \subseteq Contents /\ runs \in Seq(RunRecord)
    BY RequestFacts DEF PublishingInv, Types
  <2> HIDE DEF run
  <2> QED
    BY <2>1, <2>2 DEF RunRecord
<1>3. run.outcome = "failed"
  BY DEF Run
<1> HIDE DEF run
<1> QED
  BY <1>1, <1>2, <1>3, EvidenceGrows DEF Evidence, Scope

\* Every statement but the two endings leaves the tables and the runs alone.
LEMMA EndingsOnly ==
  ASSUME [Next]_vars
  PROVE  \/ \E p \in Publishers : Commit(p)
         \/ \E p \in Publishers : Refuse(p)
         \/ UNCHANGED <<rows, runs>>
<1>1. CASE UNCHANGED vars
  BY <1>1 DEF vars
<1>2. CASE Rebuild
  BY <1>2 DEF Rebuild, ReadChunks, EmbeddingFails, Persist
<1>3. ASSUME NEW p \in Publishers,
             \/ \E upload \in Uploads : Upload(p, upload)
             \/ \E version \in RechunkVersions : Rechunk(p, version)
             \/ Fail(p) \/ Replay(p) \/ Lookup(p) \/ OutOfRoom(p) \/ ResolvePrimarySource(p)
             \/ SelectChunkIds(p) \/ DeactivateEmbeddings(p) \/ MarkDeleted(p)
             \/ WaitToMark(p) \/ MarkAfterWait(p) \/ WriteHierarchy(p)
             \/ WriteRefusedByDatabase(p)
      PROVE  UNCHANGED <<rows, runs>>
  BY <1>3
     DEF Upload, Rechunk, Fail, Replay, Lookup, OutOfRoom, ResolvePrimarySource,
         SelectChunkIds, DeactivateEmbeddings, MarkDeleted, WaitToMark, MarkAfterWait,
         WriteHierarchy, WriteRefusedByDatabase
<1> QED
  BY <1>1, <1>2, <1>3 DEF Next, Serve

\* Whoever reads the document back sees one whole generation at all times: the
\* statements of any number of overlapping publications, their waits, refusals
\* and failures are the two atomic steps of AtomicPublication or invisible.
THEOREM PublicationIsAtomic == Spec => ImplementsAtomic
<1>1. Init => Abstract!Init
  BY DEF Init, Abstract!Init, Nothing, Tables
<1>2. PublishingInv /\ [Next]_vars => [Abstract!Next]_<<Scope, Evidence>>
  <2> SUFFICES ASSUME PublishingInv, [Next]_vars
               PROVE  [Abstract!Next]_<<Scope, Evidence>>
    OBVIOUS
  <2>1. ASSUME NEW p \in Publishers, Commit(p) PROVE Abstract!Publish
    BY <2>1, CommitPublishes DEF Abstract!Publish, Scope, Evidence
  <2>2. ASSUME NEW p \in Publishers, Refuse(p) PROVE Abstract!Refuse
    BY <2>2, RefusalRecords DEF Abstract!Refuse, Scope, Evidence
  <2>3. CASE UNCHANGED <<rows, runs>>
    BY <2>3 DEF Scope, Evidence
  <2> QED
    BY <2>1, <2>2, <2>3, EndingsOnly DEF Abstract!Next
<1>3. [Abstract!Next]_<<Scope, Evidence>>
        <=> [Abstract!Next]_<<rows["chunks"] \intersect rows["paragraphs"]
                                \intersect rows["chapters"],
                              [i \in DOMAIN runs |-> runs[i].outcome]>>
  BY DEF Scope, Evidence
<1> QED
  BY <1>1, <1>2, <1>3, PublishingAlways, PTL DEF Spec, ImplementsAtomic, Abstract!Spec

\* A client that repeats an upload of the last version, its answer lost or its
\* vectors pending, is answered by _replay_reference and publishes nothing.
THEOREM RetriesAreReplayed == Spec => RetryIsReplayed
<1> DEFINE Step == \A p \in Publishers :
                     /\ Commit(p) /\ Undisturbed(p) /\ ~tx[p].rechunk /\ Published # {}
                     => LastPublished.version # tx[p].version
<1>1. PublishingInv /\ [Next]_vars => Step
  <2> SUFFICES ASSUME PublishingInv, NEW p \in Publishers, Commit(p), Undisturbed(p),
                      ~tx[p].rechunk, Published # {}
               PROVE  LastPublished.version # tx[p].version
    OBVIOUS
  <2>1. tx[p].at = "verdict"
    BY DEF Commit
  <2>2. document.version # tx[p].version
    BY <2>1, RequestFacts DEF UndisturbedOK, Undisturbed
  <2>3. Newest(Max(Published))
    BY NewestIsMax DEF PublishingInv
  <2> QED
    BY <2>2, <2>3 DEF PublishingInv, DocumentOK, Newest, LastPublished
<1>2. Spec => [][Step]_vars
  <2> HIDE DEF Step
  <2> QED
    BY <1>1, PublishingAlways, PTL DEF Spec
<1> QED
  BY <1>2 DEF RetryIsReplayed

\* document_chunk commits the text it read, which is the document's own, unless
\* another publication ended in between or left a partial version behind.
THEOREM RechunksKeepText == Spec => RechunkKeepsText
<1> DEFINE Step == \A p \in Publishers :
                     /\ Commit(p) /\ Undisturbed(p) /\ tx[p].rechunk /\ NoPartialVersion
                     => document'.content = document.content
<1>1. PublishingInv /\ [Next]_vars => Step
  <2> SUFFICES ASSUME PublishingInv, NEW p \in Publishers, Commit(p), Undisturbed(p),
                      tx[p].rechunk, NoPartialVersion
               PROVE  document'.content = document.content
    OBVIOUS
  <2>1. tx[p].at = "verdict" /\ document'.content = tx[p].content
    BY CommitWrites
  <2> QED
    BY <2>1, RequestFacts DEF UndisturbedOK, Undisturbed
<1>2. Spec => [][Step]_vars
  <2> HIDE DEF Step
  <2> QED
    BY <1>1, PublishingAlways, PTL DEF Spec
<1> QED
  BY <1>2 DEF RechunkKeepsText

-----------------------------------------------------------------------------
(* Least numbers: what stands for induction.                               *)

LEMMA LeastNumber ==
  ASSUME NEW B \in SUBSET Nat, B # {}
  PROVE  \E n \in B : \A k \in B : n <= k
<1>1. PICK n \in B : \A k \in B : <<k, n>> \notin OpToRel(<, Nat)
  BY NatLessThanWellFounded, WFMin
<1>2. \A k \in B : ~(k < n)
  BY <1>1 DEF OpToRel
<1> QED
  BY <1>2

\* A set of numbers that has a member has one whose predecessor it lacks.
LEMMA FirstBad ==
  ASSUME NEW B \in SUBSET Nat, B # {}
  PROVE  \E n \in B : n = 0 \/ (n - 1 \in Nat /\ n - 1 \notin B)
<1>1. PICK n \in B : \A k \in B : n <= k
  BY LeastNumber
<1>2. CASE n # 0
  <2>1. n - 1 \in Nat /\ ~(n <= n - 1)
    BY <1>2
  <2> QED
    BY <1>1, <2>1
<1> QED
  BY <1>2

LEMMA MinOfTwo ==
  ASSUME NEW a \in Int, NEW b \in Int
  PROVE  Min({a, b}) = IF a <= b THEN a ELSE b
<1> DEFINE m == IF a <= b THEN a ELSE b
<1>1. m \in {a, b} /\ \A y \in {a, b} : m <= y
  OBVIOUS
<1>2. \A x \in {a, b} : (\A y \in {a, b} : x <= y) => x = m
  OBVIOUS
<1> QED
  BY <1>1, <1>2 DEF Min

LEMMA MaxOfTwo ==
  ASSUME NEW a \in Int, NEW b \in Int
  PROVE  Max({a, b}) = IF a <= b THEN b ELSE a
<1> DEFINE m == IF a <= b THEN b ELSE a
<1>1. m \in {a, b} /\ \A y \in {a, b} : m >= y
  OBVIOUS
<1>2. \A x \in {a, b} : (\A y \in {a, b} : x >= y) => x = m
  OBVIOUS
<1> QED
  BY <1>1, <1>2 DEF Max

LEMMA MinOfSome ==
  ASSUME NEW S \in SUBSET Nat, S # {}
  PROVE  Min(S) \in S /\ \A y \in S : Min(S) <= y
<1>1. \E x \in S : \A y \in S : x <= y
  BY LeastNumber
<1> QED
  BY <1>1 DEF Min

LEMMA MaxOfSome ==
  ASSUME NEW n \in Nat, NEW S \in SUBSET (0 .. n), S # {}
  PROVE  Max(S) \in S /\ \A y \in S : y <= Max(S)
<1> DEFINE B == {n - y : y \in S}
<1>1. B \in SUBSET Nat /\ B # {}
  <2>1. \A y \in S : n - y \in Nat
    OBVIOUS
  <2> QED
    BY <2>1
<1>2. PICK b \in B : \A c \in B : b <= c
  <2> HIDE DEF B
  <2> QED
    BY <1>1, LeastNumber
<1>3. PICK x \in S : b = n - x
  BY <1>2
<1>4. \A y \in S : n - x <= n - y
  BY <1>2, <1>3
<1>5. \A y \in S : x >= y
  <2>1. \A y \in S : y \in Int /\ x \in Int
    OBVIOUS
  <2> QED
    BY <1>4, <2>1
<1>6. Max(S) \in S /\ \A y \in S : Max(S) >= y
  BY <1>5 DEF Max
<1> QED
  BY <1>6

-----------------------------------------------------------------------------
(* Picking elements by position.                                           *)

\* q lists the numbers of S in increasing order.
Lists(q, S) ==
  /\ q \in Seq(S)
  /\ \A i, j \in DOMAIN q : i < j => q[i] < q[j]
  /\ \A x \in S : \E i \in DOMAIN q : q[i] = x

LEMMA ListFacts ==
  ASSUME NEW S \in SUBSET Nat, NEW q, Lists(q, S)
  PROVE  /\ Len(q) \in Nat /\ DOMAIN q = 1 .. Len(q)
         /\ \A i \in 1 .. Len(q) : q[i] \in S /\ q[i] \in Nat
         /\ \A i, j \in 1 .. Len(q) : i < j <=> q[i] < q[j]
         /\ \A i, j \in 1 .. Len(q) : i = j <=> q[i] = q[j]
         /\ \A x \in S : \E i \in 1 .. Len(q) : q[i] = x
<1>1. Len(q) \in Nat /\ DOMAIN q = 1 .. Len(q) /\ \A i \in 1 .. Len(q) : q[i] \in S
  BY LenProperties, ElementOfSeq DEF Lists
<1>2. \A i \in 1 .. Len(q) : q[i] \in Nat /\ i \in Nat
  <2>1. \A x \in S : x \in Nat
    OBVIOUS
  <2>2. \A i \in 1 .. Len(q) : i \in Nat
    BY <1>1
  <2> QED
    BY <1>1, <2>1, <2>2
<1>3. \A i, j \in 1 .. Len(q) : i < j => q[i] < q[j]
  BY <1>1 DEF Lists
<1>4. \A i, j \in 1 .. Len(q) : i < j <=> q[i] < q[j]
  BY <1>2, <1>3
<1>5. \A i, j \in 1 .. Len(q) : i = j <=> q[i] = q[j]
  BY <1>2, <1>3
<1>6. \A x \in S : \E i \in 1 .. Len(q) : q[i] = x
  BY <1>1 DEF Lists
<1> QED
  BY <1>1, <1>2, <1>4, <1>5, <1>6

LEMMA ListExists ==
  ASSUME NEW n \in Nat, NEW S \in SUBSET (1 .. n)
  PROVE  \E q : Lists(q, S)
<1> DEFINE Up(m) == {x \in S : x <= m}
           B == {m \in Nat : ~\E q : Lists(q, Up(m))}
<1>0. \A x \in S : x \in Nat /\ 1 <= x /\ x <= n
  OBVIOUS
<1>1. B = {}
  <2> SUFFICES ASSUME B # {} PROVE FALSE
    OBVIOUS
  <2>1. PICK m \in B : m = 0 \/ (m - 1 \in Nat /\ m - 1 \notin B)
    <3> HIDE DEF B
    <3>1. B \in SUBSET Nat
      BY DEF B
    <3> QED
      BY <3>1, FirstBad
  <2>2. m \in Nat /\ ~\E q : Lists(q, Up(m))
    OBVIOUS
  <2>3. CASE m = 0
    <3>1. Up(m) = {}
      <4>1. \A x \in S : ~(x <= m)
        BY <1>0, <2>3
      <4> QED
        BY <4>1
    <3>2. Lists(<<>>, {})
      BY DEF Lists
    <3> QED
      BY <2>2, <3>1, <3>2
  <2>4. CASE m # 0
    <3>1. m - 1 \in Nat /\ \E q : Lists(q, Up(m - 1))
      BY <2>1, <2>4
    <3>2. PICK q : Lists(q, Up(m - 1))
      BY <3>1
    <3>3. CASE m \notin S
      <4>1. Up(m) = Up(m - 1)
        <5>1. \A x \in S : x <= m <=> x <= m - 1
          BY <1>0, <2>2, <3>3
        <5> QED
          BY <5>1
      <4> QED
        BY <2>2, <3>2, <4>1
    <3>4. CASE m \in S
      <4> DEFINE L == Up(m - 1)
                 r == Append(q, m)
      <4>1. L \in SUBSET Nat /\ Up(m) = L \cup {m} /\ \A x \in L : x < m
        <5>1. \A x \in S : /\ x <= m <=> (x <= m - 1 \/ x = m)
                           /\ x <= m - 1 => x < m /\ x \in Nat
          BY <1>0, <2>2
        <5> QED
          BY <3>4, <5>1
      <4>2. /\ Len(q) \in Nat /\ DOMAIN q = 1 .. Len(q) /\ q \in Seq(L)
            /\ \A i \in 1 .. Len(q) : q[i] \in L
            /\ \A i, j \in 1 .. Len(q) : i < j => q[i] < q[j]
            /\ \A x \in L : \E i \in 1 .. Len(q) : q[i] = x
        <5>1. L \in SUBSET Nat /\ Lists(q, L)
          BY <3>2, <4>1
        <5> HIDE DEF L
        <5> QED
          BY <5>1, ListFacts DEF Lists
      <4> HIDE DEF L
      <4>3. q \in Seq(L \cup {m}) /\ m \in L \cup {m}
        BY <4>2, SeqMonotonic
      <4>4. /\ r \in Seq(L \cup {m}) /\ Len(r) = Len(q) + 1
            /\ \A i \in 1 .. Len(q) : r[i] = q[i]
            /\ r[Len(q) + 1] = m
        BY <4>3, AppendProperties
      <4>5. DOMAIN r = 1 .. Len(q) + 1
        BY <4>4, LenProperties
      <4> HIDE DEF r
      <4>6. \A i, j \in DOMAIN r : i < j => r[i] < r[j]
        <5> SUFFICES ASSUME NEW i \in DOMAIN r, NEW j \in DOMAIN r, i < j PROVE r[i] < r[j]
          OBVIOUS
        <5>1. i \in 1 .. Len(q)
          BY <4>2, <4>5
        <5>2. CASE j = Len(q) + 1
          BY <4>1, <4>2, <4>4, <5>1, <5>2
        <5>3. CASE j # Len(q) + 1
          <6>1. j \in 1 .. Len(q)
            BY <4>2, <4>5, <5>3
          <6> QED
            BY <4>2, <4>4, <5>1, <6>1
        <5> QED
          BY <5>2, <5>3
      <4>7. \A x \in L \cup {m} : \E i \in DOMAIN r : r[i] = x
        <5> SUFFICES ASSUME NEW x \in L \cup {m} PROVE \E i \in DOMAIN r : r[i] = x
          OBVIOUS
        <5>1. CASE x = m
          <6>1. Len(q) + 1 \in DOMAIN r
            BY <4>2, <4>5
          <6> QED
            BY <4>4, <5>1, <6>1
        <5>2. CASE x \in L
          <6>1. PICK i \in 1 .. Len(q) : q[i] = x
            BY <4>2, <5>2
          <6>2. i \in DOMAIN r
            BY <4>2, <4>5
          <6> QED
            BY <4>4, <6>1, <6>2
        <5> QED
          BY <5>1, <5>2
      <4>8. Lists(r, Up(m))
        <5>1. Lists(r, L \cup {m})
          BY <4>4, <4>6, <4>7 DEF Lists
        <5> QED
          BY <4>1, <5>1
      <4> QED
        BY <2>2, <4>8
    <3> QED
      BY <3>3, <3>4
  <2> QED
    BY <2>3, <2>4
<1>2. Up(n) = S
  BY <1>0
<1>3. n \notin B
  BY <1>1
<1> QED
  BY <1>2, <1>3

LEMMA ListUnique ==
  ASSUME NEW S \in SUBSET Nat, NEW q, Lists(q, S), NEW r, Lists(r, S)
  PROVE  q = r
<1>1. /\ Len(q) \in Nat /\ DOMAIN q = 1 .. Len(q) /\ q \in Seq(S)
      /\ \A i \in 1 .. Len(q) : q[i] \in S /\ q[i] \in Nat
      /\ \A i, j \in 1 .. Len(q) : i < j <=> q[i] < q[j]
      /\ \A i, j \in 1 .. Len(q) : i = j <=> q[i] = q[j]
      /\ \A x \in S : \E i \in 1 .. Len(q) : q[i] = x
  BY ListFacts DEF Lists
<1>2. /\ Len(r) \in Nat /\ DOMAIN r = 1 .. Len(r) /\ r \in Seq(S)
      /\ \A i \in 1 .. Len(r) : r[i] \in S /\ r[i] \in Nat
      /\ \A i, j \in 1 .. Len(r) : i < j <=> r[i] < r[j]
      /\ \A i, j \in 1 .. Len(r) : i = j <=> r[i] = r[j]
      /\ \A x \in S : \E i \in 1 .. Len(r) : r[i] = x
  BY ListFacts DEF Lists
<1> DEFINE B == {i \in Nat : i \in 1 .. Len(q) /\ i \in 1 .. Len(r) /\ q[i] # r[i]}
<1>3. B = {}
  <2> SUFFICES ASSUME B # {} PROVE FALSE
    OBVIOUS
  <2>1. PICK i \in B : \A k \in B : i <= k
    <3> HIDE DEF B
    <3>1. B \in SUBSET Nat
      BY DEF B
    <3> QED
      BY <3>1, LeastNumber
  <2>2. /\ i \in 1 .. Len(q) /\ i \in 1 .. Len(r) /\ q[i] # r[i] /\ i \in Nat
        /\ \A k \in 1 .. i - 1 : q[k] = r[k]
    <3>1. \A k \in 1 .. i - 1 : k \in 1 .. Len(q) /\ k \in 1 .. Len(r) /\ k \in Nat /\ ~(i <= k)
      BY <1>1, <1>2
    <3> QED
      BY <2>1, <3>1
  <2>3. CASE q[i] < r[i]
    <3>1. PICK j \in 1 .. Len(r) : r[j] = q[i]
      BY <1>1, <1>2, <2>2
    <3>2. j < i
      BY <1>2, <2>2, <2>3, <3>1
    <3>3. q[j] = q[i] /\ j \in 1 .. Len(q)
      BY <1>1, <2>2, <3>1, <3>2
    <3> QED
      BY <1>1, <2>2, <3>2, <3>3
  <2>4. CASE r[i] < q[i]
    <3>1. PICK j \in 1 .. Len(q) : q[j] = r[i]
      BY <1>1, <1>2, <2>2
    <3>2. j < i
      BY <1>1, <2>2, <2>4, <3>1
    <3>3. r[j] = r[i] /\ j \in 1 .. Len(r)
      BY <1>2, <2>2, <3>1, <3>2
    <3> QED
      BY <1>2, <2>2, <3>2, <3>3
  <2>5. q[i] \in Nat /\ r[i] \in Nat
    BY <1>1, <1>2, <2>2
  <2> QED
    BY <2>2, <2>3, <2>4, <2>5
<1>4. \A i : i \in 1 .. Len(q) /\ i \in 1 .. Len(r) => q[i] = r[i]
  BY <1>1, <1>3
<1>5. Len(q) = Len(r)
  <2>1. ASSUME Len(q) < Len(r) PROVE FALSE
    <3>1. Len(r) \in 1 .. Len(r) /\ r[Len(r)] \in S
      BY <1>1, <1>2, <2>1
    <3>2. PICK j \in 1 .. Len(q) : q[j] = r[Len(r)]
      BY <1>1, <3>1
    <3>3. j \in 1 .. Len(r) /\ j < Len(r) /\ r[j] = r[Len(r)]
      BY <1>1, <1>2, <1>4, <2>1, <3>2
    <3> QED
      BY <1>2, <3>1, <3>3
  <2>2. ASSUME Len(r) < Len(q) PROVE FALSE
    <3>1. Len(q) \in 1 .. Len(q) /\ q[Len(q)] \in S
      BY <1>1, <1>2, <2>2
    <3>2. PICK j \in 1 .. Len(r) : r[j] = q[Len(q)]
      BY <1>2, <3>1
    <3>3. j \in 1 .. Len(q) /\ j < Len(q) /\ q[j] = q[Len(q)]
      BY <1>1, <1>2, <1>4, <2>2, <3>2
    <3> QED
      BY <1>1, <3>1, <3>3
  <2>3. Len(q) \in Nat /\ Len(r) \in Nat
    BY <1>1, <1>2
  <2> QED
    BY <2>1, <2>2, <2>3
<1>6. \A i \in 1 .. Len(q) : q[i] = r[i]
  BY <1>4, <1>5
<1>7. q \in Seq(S) /\ r \in Seq(S)
  BY <1>1, <1>2
<1> HIDE DEF B
<1> QED
  BY <1>5, <1>6, <1>7, SeqEqual

Members(q, n) == {q[i] : i \in 1 .. n}

\* The first n members of a list are as many as they are.
LEMMA ListCount ==
  ASSUME NEW S \in SUBSET Nat, NEW q, Lists(q, S), NEW n \in 0 .. Len(q)
  PROVE  IsFiniteSet(Members(q, n)) /\ Cardinality(Members(q, n)) = n
<1> DEFINE D == 1 .. n
           T == {q[i] : i \in D}
           f == [i \in D |-> q[i]]
<1>1. /\ Len(q) \in Nat
      /\ \A i, j \in 1 .. Len(q) : i = j <=> q[i] = q[j]
  BY ListFacts
<1>2. IsFiniteSet(D) /\ Cardinality(D) = n
  BY <1>1, FS_Interval
<1>3. \A i \in D : i \in 1 .. Len(q)
  BY <1>1
<1>4. f \in [D -> T] /\ (\A i, j \in D : f[i] = f[j] => i = j) /\ \A t \in T : \E i \in D : f[i] = t
  BY <1>1, <1>3
<1> HIDE DEF D, T, f
<1>5. f \in Injection(D, T) /\ f \in Surjection(D, T)
  BY <1>4 DEF Injection, IsInjective, Surjection
<1>6. IsFiniteSet(T) /\ Cardinality(T) = n
  BY <1>2, <1>5, FS_Surjection
<1> QED
  BY <1>6 DEF T, D, Members

\* Elements are picked in the order of their positions.
LEMMA PickedLists ==
  ASSUME NEW s, NEW S \in SUBSET Nat, NEW q, Lists(q, S)
  PROVE  /\ Picked(s, S) = [n \in 1 .. Len(q) |-> s[q[n]]]
         /\ IsFiniteSet(S) /\ Cardinality(S) = Len(q)
<1> DEFINE rank(k) == Cardinality({l \in S : l <= k})
           position(n) == CHOOSE k \in S : rank(k) = n
<1>1. /\ Len(q) \in Nat
      /\ \A i \in 1 .. Len(q) : q[i] \in S /\ q[i] \in Nat
      /\ \A i, j \in 1 .. Len(q) : i < j <=> q[i] < q[j]
      /\ \A i, j \in 1 .. Len(q) : i = j <=> q[i] = q[j]
      /\ \A x \in S : \E i \in 1 .. Len(q) : q[i] = x
  BY ListFacts
<1>2. IsFiniteSet(S) /\ Cardinality(S) = Len(q)
  <2>1. Members(q, Len(q)) = S
    <3>1. \A x : x \in Members(q, Len(q)) => x \in S
      BY <1>1 DEF Members
    <3>2. \A x : x \in S => x \in Members(q, Len(q))
      BY <1>1 DEF Members
    <3> QED
      BY <3>1, <3>2
  <2>2. Len(q) \in 0 .. Len(q)
    BY <1>1
  <2> QED
    BY <2>1, <2>2, ListCount
<1>3. ASSUME NEW n \in 1 .. Len(q) PROVE rank(q[n]) = n
  <2>1. {l \in S : l <= q[n]} = Members(q, n)
    <3>1. ASSUME NEW l \in S, l <= q[n] PROVE \E i \in 1 .. n : l = q[i]
      <4>1. PICK i \in 1 .. Len(q) : q[i] = l
        BY <1>1
      <4>2. i <= n
        <5>1. ~(q[n] < q[i])
          BY <1>1, <3>1, <4>1
        <5>2. ~(n < i)
          BY <1>1, <5>1
        <5> QED
          BY <1>1, <5>2
      <4> QED
        BY <1>1, <4>1, <4>2
    <3>2. ASSUME NEW i \in 1 .. n PROVE q[i] \in S /\ q[i] <= q[n]
      <4>1. i \in 1 .. Len(q) /\ (i = n \/ i < n)
        BY <1>1
      <4>2. q[i] = q[n] \/ q[i] < q[n]
        BY <1>1, <4>1
      <4> QED
        BY <1>1, <4>1, <4>2
    <3> QED
      BY <3>1, <3>2 DEF Members
  <2>2. n \in 0 .. Len(q)
    BY <1>1
  <2>3. Cardinality(Members(q, n)) = n
    BY <2>2, ListCount
  <2> QED
    BY <2>1, <2>3
<1>4. ASSUME NEW n \in 1 .. Len(q) PROVE position(n) = q[n]
  <2>1. q[n] \in S /\ rank(q[n]) = n
    BY <1>1, <1>3
  <2>2. ASSUME NEW k \in S, rank(k) = n PROVE k = q[n]
    <3>1. PICK i \in 1 .. Len(q) : q[i] = k
      BY <1>1
    <3>2. rank(k) = i
      BY <1>3, <3>1
    <3> QED
      BY <2>2, <3>1, <3>2
  <2> HIDE DEF rank
  <2> QED
    BY <2>1, <2>2
<1>5. Picked(s, S) = [n \in 1 .. Cardinality(S) |-> s[position(n)]]
  BY DEF Picked
<1>6. Picked(s, S) = [n \in 1 .. Len(q) |-> s[q[n]]]
  <2> HIDE DEF position
  <2> QED
    BY <1>2, <1>4, <1>5
<1> QED
  BY <1>2, <1>6

LEMMA PickedType ==
  ASSUME NEW T, NEW s \in Seq(T), NEW S \in SUBSET DOMAIN s
  PROVE  \E q : /\ Lists(q, S) /\ S \in SUBSET Nat /\ Len(q) \in Nat
                /\ Picked(s, S) \in Seq(T) /\ Len(Picked(s, S)) = Len(q)
                /\ \A n \in 1 .. Len(q) : /\ Picked(s, S)[n] = s[q[n]]
                                          /\ q[n] \in S /\ s[q[n]] \in T
<1>1. Len(s) \in Nat /\ DOMAIN s = 1 .. Len(s) /\ S \in SUBSET (1 .. Len(s)) /\ S \in SUBSET Nat
  BY LenProperties
<1>2. PICK q : Lists(q, S)
  BY <1>1, ListExists
<1>3. Len(q) \in Nat /\ \A i \in 1 .. Len(q) : q[i] \in S
  BY <1>1, <1>2, ListFacts
<1>4. Picked(s, S) = [n \in 1 .. Len(q) |-> s[q[n]]]
  BY <1>1, <1>2, PickedLists
<1>5. \A n \in 1 .. Len(q) : s[q[n]] \in T
  BY <1>1, <1>3, ElementOfSeq
<1>6. Picked(s, S) \in Seq(T)
  BY <1>3, <1>4, <1>5, IsASeq
<1>7. DOMAIN Picked(s, S) = 1 .. Len(q)
  BY <1>4
<1>8. Len(Picked(s, S)) = Len(q)
  BY <1>3, <1>6, <1>7, LenProperties
<1> QED
  BY <1>1, <1>2, <1>3, <1>4, <1>5, <1>6, <1>8

\* One element is picked exactly when there is one to pick.
LEMMA PickedSome ==
  ASSUME NEW T, NEW s \in Seq(T), NEW S \in SUBSET DOMAIN s
  PROVE  Picked(s, S) # <<>> <=> S # {}
<1>1. PICK q : /\ Lists(q, S) /\ S \in SUBSET Nat /\ Len(q) \in Nat
               /\ Picked(s, S) \in Seq(T) /\ Len(Picked(s, S)) = Len(q)
               /\ \A n \in 1 .. Len(q) : q[n] \in S
  BY PickedType
<1>2. Len(q) # 0 <=> S # {}
  <2>1. \A x \in S : \E i \in 1 .. Len(q) : q[i] = x
    BY <1>1, ListFacts, ZenonT(60)
  <2>2. CASE Len(q) # 0
    <3>1. 1 \in 1 .. Len(q)
      BY <1>1, <2>2
    <3> QED
      BY <1>1, <2>2, <3>1
  <2>3. CASE S # {}
    <3>1. PICK i \in 1 .. Len(q) : TRUE
      BY <2>1, <2>3
    <3> QED
      BY <1>1, <2>3, <3>1
  <2> QED
    BY <2>2, <2>3
<1>3. Picked(s, S) # <<>> <=> Len(Picked(s, S)) # 0
  BY <1>1, EmptySeq
<1> QED
  BY <1>1, <1>2, <1>3

\* Two sequences whose picked elements correspond in order give the same.
LEMMA PickedAlike ==
  ASSUME NEW T, NEW s \in Seq(T), NEW t \in Seq(T),
         NEW S \in SUBSET DOMAIN s, NEW R \in SUBSET DOMAIN t,
         NEW g \in [S -> R], \A y \in R : \E x \in S : g[x] = y,
         \A x, y \in S : x < y => g[x] < g[y],
         \A x \in S : t[g[x]] = s[x]
  PROVE  Picked(t, R) = Picked(s, S)
<1>1. PICK q : /\ Lists(q, S) /\ S \in SUBSET Nat /\ Len(q) \in Nat
               /\ \A n \in 1 .. Len(q) : q[n] \in S
  BY PickedType, ZenonT(60)
<1>2. R \in SUBSET Nat
  BY LenProperties
<1>0. /\ Picked(s, S) = [n \in 1 .. Len(q) |-> s[q[n]]]
      /\ \A i, j \in 1 .. Len(q) : i < j <=> q[i] < q[j]
      /\ \A x \in S : \E i \in 1 .. Len(q) : q[i] = x
  <2>1. Lists(q, S) /\ S \in SUBSET Nat
    BY <1>1
  <2>2. Picked(s, S) = [n \in 1 .. Len(q) |-> s[q[n]]]
    BY ONLY <2>1, PickedLists
  <2>3. /\ \A i, j \in 1 .. Len(q) : i < j <=> q[i] < q[j]
        /\ \A x \in S : \E i \in 1 .. Len(q) : q[i] = x
    BY ONLY <2>1, ListFacts, ZenonT(60)
  <2> QED
    BY <2>2, <2>3
<1> DEFINE r == [n \in 1 .. Len(q) |-> g[q[n]]]
<1>3. \A n \in 1 .. Len(q) : g[q[n]] \in R
  BY <1>1
<1>4. r \in Seq(R)
  BY <1>1, <1>3, IsASeq
<1>5. DOMAIN r = 1 .. Len(q) /\ \A n \in 1 .. Len(q) : r[n] = g[q[n]]
  OBVIOUS
<1>6. Len(r) = Len(q)
  <2> HIDE DEF r
  <2> QED
    BY <1>1, <1>4, <1>5, LenProperties
<1>7. Lists(r, R)
  <2> HIDE DEF r
  <2>1. \A i, j \in DOMAIN r : i < j => r[i] < r[j]
    <3> SUFFICES ASSUME NEW i \in 1 .. Len(q), NEW j \in 1 .. Len(q), i < j PROVE r[i] < r[j]
      BY <1>5
    <3>1. q[i] < q[j] /\ q[i] \in S /\ q[j] \in S
      BY <1>0, <1>1
    <3>2. g[q[i]] < g[q[j]]
      BY <3>1
    <3> QED
      BY <1>5, <3>2
  <2>2. ASSUME NEW y \in R PROVE \E i \in DOMAIN r : r[i] = y
    <3>1. PICK x \in S : g[x] = y
      OBVIOUS
    <3>2. PICK i \in 1 .. Len(q) : q[i] = x
      BY <1>0
    <3> QED
      BY <1>5, <3>1, <3>2
  <2> QED
    BY <1>4, <2>1, <2>2 DEF Lists
<1>8. Picked(t, R) = [n \in 1 .. Len(q) |-> t[r[n]]]
  <2> HIDE DEF r
  <2>1. Picked(t, R) = [n \in 1 .. Len(r) |-> t[r[n]]]
    BY <1>2, <1>7, PickedLists
  <2> QED
    BY <1>6, <2>1
<1>10. \A n \in 1 .. Len(q) : t[r[n]] = s[q[n]]
  BY <1>1, <1>5
<1> HIDE DEF r
<1> QED
  BY <1>0, <1>8, <1>10

\* To pick everything is to pick nothing out.
LEMMA PickedAll ==
  ASSUME NEW T, NEW s \in Seq(T)
  PROVE  Picked(s, DOMAIN s) = s
<1> DEFINE q == [i \in 1 .. Len(s) |-> i]
<1>1. Len(s) \in Nat /\ DOMAIN s = 1 .. Len(s) /\ s \in [1 .. Len(s) -> T]
  BY LenProperties
<1>2. q \in Seq(1 .. Len(s)) /\ DOMAIN q = 1 .. Len(s)
  BY <1>1, IsASeq
<1>3. Len(q) = Len(s)
  <2> HIDE DEF q
  <2> QED
    BY <1>1, <1>2, LenProperties
<1>4. Lists(q, 1 .. Len(s))
  BY <1>2 DEF Lists
<1>5. Picked(s, 1 .. Len(s)) = [n \in 1 .. Len(q) |-> s[q[n]]]
  <2> HIDE DEF q
  <2>1. 1 .. Len(s) \in SUBSET Nat
    BY <1>1
  <2> QED
    BY <1>4, <2>1, PickedLists
<1>6. [n \in 1 .. Len(q) |-> s[q[n]]] = s
  BY <1>1, <1>3
<1> QED
  BY <1>1, <1>5, <1>6

-----------------------------------------------------------------------------
(* Slices.                                                                 *)

LEMMA SubSeqType ==
  ASSUME NEW T, NEW s \in Seq(T), NEW i \in 1 .. Len(s) + 1, NEW j \in i - 1 .. Len(s)
  PROVE  /\ SubSeq(s, i, j) \in Seq(T) /\ Len(SubSeq(s, i, j)) = j - i + 1
         /\ \A n \in 1 .. j - i + 1 : SubSeq(s, i, j)[n] = s[i + n - 1]
<1>1. Len(s) \in Nat
  BY LenProperties
<1>2. \A k \in i .. j : s[k] \in T
  BY <1>1, ElementOfSeq
<1>3. i \in Int /\ j \in Int
  BY <1>1
<1>4. /\ SubSeq(s, i, j) \in Seq(T)
      /\ Len(SubSeq(s, i, j)) = IF i <= j THEN j - i + 1 ELSE 0
      /\ \A n \in 1 .. j - i + 1 : SubSeq(s, i, j)[n] = s[i + n - 1]
  BY <1>2, <1>3, SubSeqProperties
<1>5. i <= j \/ j - i + 1 = 0
  BY <1>1
<1> QED
  BY <1>4, <1>5

\* A slice inside of a text.
LEMMA SliceInside ==
  ASSUME NEW T, NEW s \in Seq(T), NEW j \in 0 .. Len(s), NEW i \in 0 .. j
  PROVE  /\ Slice(s, i, j) = SubSeq(s, i + 1, j)
         /\ Slice(s, i, j) \in Seq(T) /\ Len(Slice(s, i, j)) = j - i
         /\ \A n \in 1 .. j - i : Slice(s, i, j)[n] = s[i + n]
<1>1. Len(s) \in Nat
  BY LenProperties
<1>2. Min({j, Len(s)}) = j
  BY <1>1, MinOfTwo
<1>3. Slice(s, i, j) = SubSeq(s, i + 1, j)
  BY <1>2 DEF Slice
<1>4. i + 1 \in 1 .. Len(s) + 1 /\ j \in (i + 1) - 1 .. Len(s) /\ i \in Int /\ j \in Int
  BY <1>1
<1>5. /\ SubSeq(s, i + 1, j) \in Seq(T) /\ Len(SubSeq(s, i + 1, j)) = j - (i + 1) + 1
      /\ \A n \in 1 .. j - (i + 1) + 1 : SubSeq(s, i + 1, j)[n] = s[(i + 1) + n - 1]
  BY <1>4, SubSeqType
<1>6. j - (i + 1) + 1 = j - i /\ \A n \in 1 .. j - i : (i + 1) + n - 1 = i + n
  BY <1>4
<1> QED
  BY <1>3, <1>5, <1>6

\* Any slice is a text.
LEMMA SliceType ==
  ASSUME NEW T, NEW s \in Seq(T), NEW i \in Nat, NEW j \in Nat
  PROVE  Slice(s, i, j) \in Seq(T)
<1> DEFINE e == IF j <= Len(s) THEN j ELSE Len(s)
<1>1. Len(s) \in Nat
  BY LenProperties
<1>2. Slice(s, i, j) = SubSeq(s, i + 1, e)
  BY <1>1, MinOfTwo DEF Slice
<1>3. i + 1 \in Int /\ e \in Int /\ e <= Len(s)
  BY <1>1
<1>4. \A k \in i + 1 .. e : s[k] \in T
  BY <1>1, <1>3, ElementOfSeq
<1> HIDE DEF e
<1> QED
  BY <1>2, <1>3, <1>4, SubSeqProperties

\* Adjacent slices.
LEMMA SliceJoin ==
  ASSUME NEW T, NEW s \in Seq(T), NEW k \in 0 .. Len(s), NEW j \in 0 .. k, NEW i \in 0 .. j
  PROVE  Slice(s, i, j) \o Slice(s, j, k) = Slice(s, i, k)
<1>1. Len(s) \in Nat
  BY LenProperties
<1>2. i + 1 \in 1 .. Len(s) + 1 /\ j \in (i + 1) - 1 .. Len(s) /\ k \in j .. Len(s)
  BY <1>1
<1>3. SubSeq(s, i + 1, j) \o SubSeq(s, j + 1, k) = SubSeq(s, i + 1, k)
  BY <1>2, ConcatAdjacentSubSeq
<1>4. j \in 0 .. Len(s) /\ i \in 0 .. k
  BY <1>1
<1>5. /\ Slice(s, i, j) = SubSeq(s, i + 1, j)
      /\ Slice(s, j, k) = SubSeq(s, j + 1, k)
      /\ Slice(s, i, k) = SubSeq(s, i + 1, k)
  BY <1>4, SliceInside
<1> QED
  BY <1>3, <1>5

LEMMA SliceWhole ==
  ASSUME NEW T, NEW s \in Seq(T)
  PROVE  Slice(s, 0, Len(s)) = s
<1>1. Len(s) \in Nat
  BY LenProperties
<1>2. Slice(s, 0, Len(s)) = SubSeq(s, 1, Len(s))
  <2>1. Min({Len(s), Len(s)}) = Len(s)
    BY <1>1, MinOfTwo
  <2>2. Slice(s, 0, Len(s)) = SubSeq(s, 0 + 1, Min({Len(s), Len(s)}))
    BY DEF Slice
  <2>3. 0 + 1 = 1
    OBVIOUS
  <2> QED
    BY <2>1, <2>2, <2>3
<1> QED
  BY <1>2, SubSeqFull

-----------------------------------------------------------------------------
(* White space.                                                            *)

\* The positions that Collapsed keeps.
Kept(s) ==
  {k \in DOMAIN s : \/ s[k] # Blank
                    \/ /\ k > 1 /\ s[k - 1] # Blank
                       /\ \E l \in k .. Len(s) : s[l] # Blank}

Solid(s) == {k \in DOMAIN s : s[k] # Blank}

LEMMA CollapsedIs ==
  ASSUME NEW s
  PROVE  Collapsed(s) = Picked(s, Kept(s)) /\ NonBlank(s) = Picked(s, Solid(s))
BY DEF Collapsed, Kept, NonBlank, Solid

\* Collapsed text, by a list of the positions that are kept.
LEMMA CollapsedList ==
  ASSUME NEW T, NEW s \in Seq(T)
  PROVE  \E q : /\ Lists(q, Kept(s)) /\ Kept(s) \in SUBSET Nat /\ Len(q) \in Nat
                /\ Collapsed(s) \in Seq(T) /\ Len(Collapsed(s)) = Len(q)
                /\ DOMAIN Collapsed(s) = 1 .. Len(q)
                /\ \A n \in 1 .. Len(q) : /\ Collapsed(s)[n] = s[q[n]]
                                          /\ q[n] \in Kept(s) /\ q[n] \in 1 .. Len(s)
<1>1. Kept(s) \in SUBSET DOMAIN s /\ DOMAIN s = 1 .. Len(s)
  BY LenProperties DEF Kept
<1>2. PICK q : /\ Lists(q, Kept(s)) /\ Kept(s) \in SUBSET Nat /\ Len(q) \in Nat
               /\ Picked(s, Kept(s)) \in Seq(T) /\ Len(Picked(s, Kept(s))) = Len(q)
               /\ \A n \in 1 .. Len(q) : /\ Picked(s, Kept(s))[n] = s[q[n]]
                                         /\ q[n] \in Kept(s)
  <2> DEFINE S == Kept(s)
  <2>1. S \in SUBSET DOMAIN s
    BY <1>1
  <2> HIDE DEF S
  <2>2. \E q : /\ Lists(q, S) /\ S \in SUBSET Nat /\ Len(q) \in Nat
               /\ Picked(s, S) \in Seq(T) /\ Len(Picked(s, S)) = Len(q)
               /\ \A n \in 1 .. Len(q) : /\ Picked(s, S)[n] = s[q[n]]
                                         /\ q[n] \in S /\ s[q[n]] \in T
    BY <2>1, PickedType
  <2> QED
    BY <2>2 DEF S
<1>3. DOMAIN Picked(s, Kept(s)) = 1 .. Len(q)
  BY <1>2, LenProperties
<1> QED
  BY <1>1, <1>2, <1>3, CollapsedIs

LEMMA NonBlankType ==
  ASSUME NEW T, NEW s \in Seq(T)
  PROVE  NonBlank(s) \in Seq(T)
<1>1. Solid(s) \in SUBSET DOMAIN s
  BY DEF Solid
<1>2. Picked(s, Solid(s)) \in Seq(T)
  BY <1>1, PickedType
<1> QED
  BY <1>2, CollapsedIs

\* Collapsed text has nothing left to collapse.
LEMMA CollapsedTwice ==
  ASSUME NEW T, NEW s \in Seq(T)
  PROVE  Collapsed(Collapsed(s)) = Collapsed(s)
<1> DEFINE t == Collapsed(s)
<1>1. PICK q : /\ Lists(q, Kept(s)) /\ Kept(s) \in SUBSET Nat /\ Len(q) \in Nat
               /\ t \in Seq(T) /\ Len(t) = Len(q)
               /\ DOMAIN t = 1 .. Len(q)
               /\ \A n \in 1 .. Len(q) : /\ t[n] = s[q[n]]
                                         /\ q[n] \in Kept(s) /\ q[n] \in 1 .. Len(s)
  BY CollapsedList
<1>2. /\ \A i, j \in 1 .. Len(q) : i < j <=> q[i] < q[j]
      /\ \A x \in Kept(s) : \E i \in 1 .. Len(q) : q[i] = x
  <2>1. Lists(q, Kept(s)) /\ Kept(s) \in SUBSET Nat
    BY <1>1
  <2> QED
    BY ONLY <2>1, ListFacts, ZenonT(60)
<1>3. Len(s) \in Nat /\ DOMAIN s = 1 .. Len(s)
  BY LenProperties
<1> HIDE DEF t
<1>4. ASSUME NEW n \in 1 .. Len(q) PROVE n \in Kept(t)
  <2>1. CASE s[q[n]] # Blank
    BY <1>1, <2>1 DEF Kept
  <2>2. CASE s[q[n]] = Blank
    <3>1. /\ q[n] \in Kept(s) /\ q[n] \in 1 .. Len(s) /\ q[n] > 1 /\ s[q[n] - 1] # Blank
          /\ \E l \in q[n] .. Len(s) : s[l] # Blank
      BY <1>1, <2>2 DEF Kept
    <3>2. q[n] - 1 \in Kept(s) /\ q[n] - 1 \in Nat
      BY <1>3, <3>1 DEF Kept
    <3>3. PICK m \in 1 .. Len(q) : q[m] = q[n] - 1
      BY <1>2, <3>2
    <3>4. m < n
      <4>1. q[m] < q[n]
        BY <3>1, <3>3
      <4> QED
        BY <1>2, <4>1
    <3>5. m = n - 1
      <4> SUFFICES ASSUME m # n - 1 PROVE FALSE
        OBVIOUS
      <4>1. m + 1 \in 1 .. Len(q) /\ m < m + 1 /\ m + 1 < n
        BY <1>1, <3>4
      <4>2. q[m] < q[m + 1] /\ q[m + 1] < q[n] /\ q[m + 1] \in 1 .. Len(s)
        BY <1>1, <1>2, <4>1
      <4> QED
        BY <1>3, <3>1, <3>3, <4>2
    <3>6. n > 1 /\ t[n - 1] # Blank
      <4>1. n - 1 \in 1 .. Len(q) /\ n > 1
        BY <3>5, <1>1
      <4> QED
        BY <1>1, <3>1, <3>3, <3>5, <4>1
    <3>7. \E l \in n .. Len(t) : t[l] # Blank
      <4>1. PICK l \in q[n] .. Len(s) : s[l] # Blank
        BY <3>1
      <4>2. l \in Kept(s) /\ q[n] <= l
        BY <1>3, <3>1, <4>1 DEF Kept
      <4>3. PICK i \in 1 .. Len(q) : q[i] = l
        BY <1>2, <4>2
      <4>4. ~(i < n)
        <5>1. ~(q[i] < q[n])
          BY <3>1, <4>2, <4>3
        <5> QED
          BY <1>2, <5>1
      <4>5. i \in n .. Len(t) /\ t[i] # Blank
        BY <1>1, <4>1, <4>3, <4>4
      <4> QED
        BY <4>5
    <3> QED
      BY <1>1, <3>6, <3>7 DEF Kept
  <2> QED
    BY <2>1, <2>2
<1>5. Kept(t) = DOMAIN t
  <2>1. Kept(t) \subseteq DOMAIN t
    BY DEF Kept
  <2> QED
    BY <1>1, <1>4, <2>1
<1>6. Picked(t, Kept(t)) = t
  BY <1>1, <1>5, PickedAll
<1>7. Collapsed(t) = t
  BY <1>6, CollapsedIs
<1> QED
  BY <1>7 DEF t

LEMMA NothingCollapsed ==
  ASSUME NEW T, NEW s \in Seq(T), Solid(s) = {}
  PROVE  Collapsed(s) = <<>> /\ NonBlank(s) = <<>>
<1>1. Kept(s) = {}
  BY DEF Kept, Solid
<1>2. Picked(s, {}) = <<>>
  BY PickedSome
<1> QED
  BY <1>1, <1>2, CollapsedIs

\* White space at the ends does not count.
LEMMA CollapsedStripped ==
  ASSUME NEW T, NEW s \in Seq(T)
  PROVE  Stripped(s) \in Seq(T) /\ Collapsed(Stripped(s)) = Collapsed(s)
<1>1. Len(s) \in Nat /\ DOMAIN s = 1 .. Len(s)
  BY LenProperties
<1>2. CASE Solid(s) = {}
  <2>1. Stripped(s) = <<>>
    BY <1>2 DEF Stripped, Solid
  <2>2. <<>> \in Seq(T) /\ DOMAIN <<>> = {}
    OBVIOUS
  <2>3. Solid(<<>>) = {}
    BY <2>2 DEF Solid
  <2>4. Collapsed(<<>>) = <<>> /\ Collapsed(s) = <<>>
    BY <1>2, <2>2, <2>3, NothingCollapsed
  <2> QED
    BY <2>1, <2>2, <2>4
<1>3. CASE Solid(s) # {}
  <2> DEFINE m == Min(Solid(s))
             e == Max(Solid(s))
             t == SubSeq(s, m, e)
             g == [x \in Kept(s) |-> (x - m) + 1]
  <2>1. Solid(s) \in SUBSET Nat /\ Solid(s) \in SUBSET (0 .. Len(s))
    BY <1>1 DEF Solid
  <2>2. m \in Solid(s) /\ (\A y \in Solid(s) : m <= y) /\ e \in Solid(s) /\ \A y \in Solid(s) : y <= e
    BY <1>1, <1>3, <2>1, MinOfSome, MaxOfSome
  <2>3. Stripped(s) = t
    BY <1>3 DEF Stripped, Solid
  <2> HIDE DEF m, e
  <2>4. /\ m \in 1 .. Len(s) /\ e \in m .. Len(s) /\ s[m] # Blank /\ s[e] # Blank
        /\ \A y \in 1 .. Len(s) : s[y] # Blank => m <= y /\ y <= e
    BY <1>1, <2>2 DEF Solid
  <2>5. t \in Seq(T) /\ Len(t) = e - m + 1 /\ \A n \in 1 .. e - m + 1 : t[n] = s[m + n - 1]
    <3>1. m \in 1 .. Len(s) + 1 /\ e \in m - 1 .. Len(s)
      BY <1>1, <2>4
    <3> QED
      BY <3>1, SubSeqType
  <2>6. DOMAIN t = 1 .. e - m + 1
    BY <2>5, LenProperties
  <2> HIDE DEF t
  <2>7. ASSUME NEW x \in Kept(s) PROVE x \in m .. e /\ (x - m) + 1 \in Kept(t)
    <3>1. x \in 1 .. Len(s)
      BY <1>1 DEF Kept
    <3>2. CASE s[x] # Blank
      <4>1. x \in m .. e
        BY <1>1, <2>4, <3>1, <3>2
      <4>2. (x - m) + 1 \in 1 .. e - m + 1 /\ m + ((x - m) + 1) - 1 = x
        BY <1>1, <2>4, <3>1, <4>1
      <4>3. t[(x - m) + 1] # Blank
        BY <2>5, <3>2, <4>2
      <4> QED
        BY <2>6, <4>1, <4>2, <4>3 DEF Kept
    <3>3. CASE s[x] = Blank
      <4>1. x > 1 /\ s[x - 1] # Blank /\ \E l \in x .. Len(s) : s[l] # Blank
        BY <3>3 DEF Kept
      <4>2. PICK l \in x .. Len(s) : s[l] # Blank
        BY <4>1
      <4>3. m <= x - 1 /\ x <= l /\ l <= e /\ l \in 1 .. Len(s)
        <5>1. x - 1 \in 1 .. Len(s) /\ l \in 1 .. Len(s) /\ x <= l
          BY <1>1, <3>1, <4>1, <4>2
        <5>2. m <= x - 1 /\ l <= e
          BY <2>4, <4>1, <4>2, <5>1
        <5> QED
          BY <5>1, <5>2
      <4>4. /\ (x - m) + 1 \in 1 .. e - m + 1 /\ (x - m) + 1 > 1
            /\ ((x - m) + 1) - 1 \in 1 .. e - m + 1 /\ m + (((x - m) + 1) - 1) - 1 = x - 1
            /\ (l - m) + 1 \in (x - m) + 1 .. e - m + 1 /\ m + ((l - m) + 1) - 1 = l
            /\ (l - m) + 1 \in 1 .. e - m + 1
        BY <1>1, <2>4, <3>1, <4>3
      <4>5. t[((x - m) + 1) - 1] # Blank /\ t[(l - m) + 1] # Blank
        BY <2>5, <4>1, <4>2, <4>4
      <4>6. x \in m .. e
        BY <1>1, <2>4, <3>1, <4>3
      <4> QED
        BY <2>5, <2>6, <4>4, <4>5, <4>6 DEF Kept
    <3> QED
      BY <3>2, <3>3
  <2>8. ASSUME NEW y \in Kept(t) PROVE \E x \in Kept(s) : (x - m) + 1 = y
    <3>1. y \in 1 .. e - m + 1
      BY <2>6 DEF Kept
    <3>2. m + y - 1 \in 1 .. Len(s) /\ ((m + y - 1) - m) + 1 = y /\ t[y] = s[m + y - 1]
      BY <1>1, <2>4, <2>5, <3>1
    <3>3. CASE t[y] # Blank
      <4>1. m + y - 1 \in Kept(s)
        BY <1>1, <3>2, <3>3 DEF Kept
      <4> QED
        BY <3>2, <4>1
    <3>4. CASE t[y] = Blank
      <4>1. y > 1 /\ t[y - 1] # Blank /\ \E l \in y .. Len(t) : t[l] # Blank
        BY <3>4 DEF Kept
      <4>2. PICK l \in y .. Len(t) : t[l] # Blank
        BY <4>1
      <4>3. /\ l \in 1 .. e - m + 1 /\ m + l - 1 \in m + y - 1 .. Len(s)
            /\ y - 1 \in 1 .. e - m + 1 /\ m + (y - 1) - 1 = (m + y - 1) - 1 /\ m + y - 1 > 1
        BY <1>1, <2>4, <2>5, <3>1, <4>1, <4>2
      <4>4. s[(m + y - 1) - 1] # Blank /\ s[m + l - 1] # Blank
        BY <2>5, <4>1, <4>2, <4>3
      <4>5. m + y - 1 \in Kept(s)
        BY <1>1, <3>2, <4>3, <4>4 DEF Kept
      <4> QED
        BY <3>2, <4>5
    <3> QED
      BY <3>3, <3>4
  <2>9. g \in [Kept(s) -> Kept(t)] /\ \A y \in Kept(t) : \E x \in Kept(s) : g[x] = y
    BY <2>7, <2>8
  <2>10. \A x, y \in Kept(s) : x < y => g[x] < g[y]
    <3>1. \A x \in Kept(s) : x \in Int /\ m \in Int
      BY <1>1, <2>4 DEF Kept
    <3> QED
      BY <3>1
  <2>11. \A x \in Kept(s) : t[g[x]] = s[x]
    <3> SUFFICES ASSUME NEW x \in Kept(s) PROVE t[(x - m) + 1] = s[x]
      OBVIOUS
    <3>1. x \in m .. e
      BY <2>7
    <3>2. (x - m) + 1 \in 1 .. e - m + 1 /\ m + ((x - m) + 1) - 1 = x
      BY <1>1, <2>4, <3>1
    <3> QED
      BY <2>5, <3>2
  <2>12. Kept(s) \in SUBSET DOMAIN s /\ Kept(t) \in SUBSET DOMAIN t
    BY DEF Kept
  <2> HIDE DEF g
  <2>13. Picked(t, Kept(t)) = Picked(s, Kept(s))
    BY <2>5, <2>9, <2>10, <2>11, <2>12, PickedAlike, SMTT(30)
  <2>14. Collapsed(t) = Collapsed(s)
    BY <2>13, CollapsedIs
  <2> QED
    BY <2>3, <2>5, <2>14
<1> QED
  BY <1>2, <1>3

\* The words of a text stay when white space collapses.
LEMMA NonBlankCollapsed ==
  ASSUME NEW T, NEW s \in Seq(T)
  PROVE  NonBlank(Collapsed(s)) = NonBlank(s)
<1> DEFINE t == Collapsed(s)
<1>1. PICK q : /\ Lists(q, Kept(s)) /\ Kept(s) \in SUBSET Nat /\ Len(q) \in Nat
               /\ t \in Seq(T) /\ Len(t) = Len(q)
               /\ DOMAIN t = 1 .. Len(q)
               /\ \A n \in 1 .. Len(q) : /\ t[n] = s[q[n]]
                                         /\ q[n] \in Kept(s) /\ q[n] \in 1 .. Len(s)
  BY CollapsedList
<1>2. /\ \A i, j \in 1 .. Len(q) : i < j <=> q[i] < q[j]
      /\ \A i, j \in 1 .. Len(q) : i = j <=> q[i] = q[j]
      /\ \A x \in Kept(s) : \E i \in 1 .. Len(q) : q[i] = x
  <2>1. Lists(q, Kept(s)) /\ Kept(s) \in SUBSET Nat
    BY <1>1
  <2> QED
    BY ONLY <2>1, ListFacts, ZenonT(60)
<1>3. Len(s) \in Nat /\ DOMAIN s = 1 .. Len(s)
  BY LenProperties
<1> HIDE DEF t
<1> DEFINE g == [x \in Solid(s) |-> CHOOSE i \in 1 .. Len(q) : q[i] = x]
<1>4. \A x \in Solid(s) : g[x] \in 1 .. Len(q) /\ q[g[x]] = x
  <2>1. Solid(s) \subseteq Kept(s)
    BY DEF Solid, Kept
  <2> QED
    BY <1>2, <2>1
<1> HIDE DEF g
<1>5. \A x \in Solid(s) : t[g[x]] = s[x] /\ g[x] \in Solid(t)
  BY <1>1, <1>4 DEF Solid
<1>6. ASSUME NEW y \in Solid(t) PROVE \E x \in Solid(s) : g[x] = y
  <2>1. y \in 1 .. Len(q) /\ s[q[y]] # Blank
    BY <1>1 DEF Solid
  <2>2. q[y] \in Solid(s)
    BY <1>1, <1>3, <2>1 DEF Solid
  <2> QED
    BY <1>2, <1>4, <2>1, <2>2
<1>7. \A x, y \in Solid(s) : x < y => g[x] < g[y]
  BY <1>2, <1>4
<1>8. g \in [Solid(s) -> Solid(t)]
  BY <1>5 DEF g
<1>9. Solid(s) \in SUBSET DOMAIN s /\ Solid(t) \in SUBSET DOMAIN t
  BY DEF Solid
<1>10. Picked(t, Solid(t)) = Picked(s, Solid(s))
  <2>1. s \in Seq(T) /\ t \in Seq(T)
    BY <1>1
  <2>2. \A x \in Solid(s) : t[g[x]] = s[x]
    BY <1>5
  <2>3. \A y \in Solid(t) : \E x \in Solid(s) : g[x] = y
    BY <1>6
  <2> QED
    BY ONLY <2>1, <2>2, <2>3, <1>7, <1>8, <1>9, PickedAlike
<1> QED
  BY <1>10, CollapsedIs DEF t

\* The words of two texts in turn.
LEMMA NonBlankConcat ==
  ASSUME NEW T, NEW a \in Seq(T), NEW b \in Seq(T)
  PROVE  NonBlank(a \o b) = NonBlank(a) \o NonBlank(b)
<1> DEFINE c == a \o b
<1>1. /\ Len(a) \in Nat /\ DOMAIN a = 1 .. Len(a) /\ Len(b) \in Nat /\ DOMAIN b = 1 .. Len(b)
      /\ Solid(a) \in SUBSET DOMAIN a /\ Solid(b) \in SUBSET DOMAIN b
  BY LenProperties DEF Solid
<1>2. /\ c \in Seq(T) /\ Len(c) = Len(a) + Len(b)
      /\ \A i \in 1 .. Len(a) + Len(b) : c[i] = IF i <= Len(a) THEN a[i] ELSE b[i - Len(a)]
  BY ConcatProperties
<1>3. DOMAIN c = 1 .. Len(a) + Len(b) /\ Solid(c) \in SUBSET DOMAIN c
  <2> HIDE DEF c
  <2> QED
    BY <1>2, LenProperties DEF Solid
<1> HIDE DEF c
<1>4. PICK p : /\ Lists(p, Solid(a)) /\ Solid(a) \in SUBSET Nat /\ Len(p) \in Nat
               /\ Picked(a, Solid(a)) \in Seq(T) /\ Len(Picked(a, Solid(a))) = Len(p)
               /\ \A n \in 1 .. Len(p) : /\ Picked(a, Solid(a))[n] = a[p[n]]
                                         /\ p[n] \in Solid(a)
  BY <1>1, PickedType, SMTT(60)
<1>5. PICK q : /\ Lists(q, Solid(b)) /\ Solid(b) \in SUBSET Nat /\ Len(q) \in Nat
               /\ Picked(b, Solid(b)) \in Seq(T) /\ Len(Picked(b, Solid(b))) = Len(q)
               /\ \A n \in 1 .. Len(q) : /\ Picked(b, Solid(b))[n] = b[q[n]]
                                         /\ q[n] \in Solid(b)
  BY <1>1, PickedType, SMTT(60)
<1>6. /\ \A i, j \in 1 .. Len(p) : i < j <=> p[i] < p[j]
      /\ \A x \in Solid(a) : \E i \in 1 .. Len(p) : p[i] = x
  <2>1. Lists(p, Solid(a)) /\ Solid(a) \in SUBSET Nat
    BY <1>4
  <2> QED
    BY ONLY <2>1, ListFacts, ZenonT(60)
<1>7. /\ \A i, j \in 1 .. Len(q) : i < j <=> q[i] < q[j]
      /\ \A x \in Solid(b) : \E i \in 1 .. Len(q) : q[i] = x
  <2>1. Lists(q, Solid(b)) /\ Solid(b) \in SUBSET Nat
    BY <1>5
  <2> QED
    BY ONLY <2>1, ListFacts, ZenonT(60)
<1> DEFINE n == Len(p) + Len(q)
           r == [i \in 1 .. n |-> IF i <= Len(p) THEN p[i] ELSE q[i - Len(p)] + Len(a)]
<1>8. \A i \in 1 .. Len(p) : /\ p[i] \in Solid(a) /\ p[i] \in 1 .. Len(a) /\ p[i] \in Solid(c)
                             /\ c[p[i]] = a[p[i]]
  <2> SUFFICES ASSUME NEW i \in 1 .. Len(p)
               PROVE  p[i] \in Solid(a) /\ p[i] \in 1 .. Len(a) /\ p[i] \in Solid(c) /\ c[p[i]] = a[p[i]]
    OBVIOUS
  <2>1. p[i] \in Solid(a) /\ p[i] \in 1 .. Len(a)
    BY <1>1, <1>4
  <2>2. p[i] \in 1 .. Len(a) + Len(b) /\ c[p[i]] = a[p[i]] /\ a[p[i]] # Blank
    BY <1>1, <1>2, <2>1 DEF Solid
  <2> QED
    BY <1>3, <2>1, <2>2 DEF Solid
<1>9. \A i \in 1 .. Len(q) : /\ q[i] \in Solid(b) /\ q[i] \in 1 .. Len(b) /\ q[i] + Len(a) \in Solid(c)
                             /\ c[q[i] + Len(a)] = b[q[i]]
  <2> SUFFICES ASSUME NEW i \in 1 .. Len(q)
               PROVE  /\ q[i] \in Solid(b) /\ q[i] \in 1 .. Len(b) /\ q[i] + Len(a) \in Solid(c)
                      /\ c[q[i] + Len(a)] = b[q[i]]
    OBVIOUS
  <2>1. q[i] \in Solid(b) /\ q[i] \in 1 .. Len(b)
    BY <1>1, <1>5
  <2>2. /\ q[i] + Len(a) \in 1 .. Len(a) + Len(b) /\ ~(q[i] + Len(a) <= Len(a))
        /\ (q[i] + Len(a)) - Len(a) = q[i]
    BY <1>1, <2>1
  <2>3. c[q[i] + Len(a)] = b[q[i]] /\ b[q[i]] # Blank
    BY <1>2, <2>1, <2>2 DEF Solid
  <2> QED
    BY <1>3, <2>1, <2>2, <2>3 DEF Solid
<1>10. /\ n \in Nat /\ DOMAIN r = 1 .. n
       /\ \A i \in 1 .. Len(p) : i \in 1 .. n /\ r[i] = p[i]
       /\ \A i \in 1 .. Len(q) : i + Len(p) \in 1 .. n /\ r[i + Len(p)] = q[i] + Len(a)
       /\ \A i \in 1 .. n : i \in 1 .. Len(p) \/ (i - Len(p) \in 1 .. Len(q) /\ i = (i - Len(p)) + Len(p))
  <2>1. /\ n \in Nat /\ DOMAIN r = 1 .. n
        /\ \A i \in 1 .. Len(p) : i \in 1 .. n /\ r[i] = p[i]
    BY <1>4, <1>5
  <2>2. \A i \in 1 .. Len(q) : /\ i + Len(p) \in 1 .. n /\ ~(i + Len(p) <= Len(p))
                               /\ (i + Len(p)) - Len(p) = i
    BY <1>4, <1>5
  <2>3. \A i \in 1 .. Len(q) : r[i + Len(p)] = q[i] + Len(a)
    BY <2>2
  <2>4. \A i \in 1 .. n : i \in 1 .. Len(p) \/ (i - Len(p) \in 1 .. Len(q) /\ i = (i - Len(p)) + Len(p))
    BY <1>4, <1>5
  <2> QED
    BY <2>1, <2>2, <2>3, <2>4
<1> HIDE DEF r
<1>11. r \in Seq(Solid(c)) /\ Len(r) = n
  <2>1. \A i \in 1 .. n : r[i] \in Solid(c)
    <3> SUFFICES ASSUME NEW i \in 1 .. n PROVE r[i] \in Solid(c)
      OBVIOUS
    <3>1. CASE i \in 1 .. Len(p)
      BY <1>8, <1>10, <3>1
    <3>2. CASE i - Len(p) \in 1 .. Len(q) /\ i = (i - Len(p)) + Len(p)
      <4>1. r[i] = q[i - Len(p)] + Len(a)
        BY <1>10, <3>2
      <4> QED
        BY <1>9, <3>2, <4>1
    <3> QED
      BY <1>10, <3>1, <3>2
  <2>2. r = [i \in 1 .. n |-> r[i]]
    BY <1>10 DEF r
  <2>3. r \in [1 .. n -> Solid(c)]
    BY <2>1, <2>2
  <2>4. r \in Seq(Solid(c))
    <3> HIDE DEF n
    <3> QED
      BY <1>10, <2>3, SeqDef
  <2> QED
    BY <1>10, <2>4, LenProperties
<1>12. \A i, j \in 1 .. n : i < j => r[i] < r[j]
  <2> SUFFICES ASSUME NEW i \in 1 .. n, NEW j \in 1 .. n, i < j PROVE r[i] < r[j]
    OBVIOUS
  <2>1. CASE j \in 1 .. Len(p)
    <3>1. i \in 1 .. Len(p)
      BY <2>1, <1>4, <1>10
    <3> QED
      BY <1>6, <1>10, <2>1, <3>1
  <2>2. CASE j - Len(p) \in 1 .. Len(q) /\ i \in 1 .. Len(p)
    <3>1. r[i] = p[i] /\ p[i] \in 1 .. Len(a)
      BY <1>8, <1>10, <2>2
    <3>2. r[j] = q[j - Len(p)] + Len(a) /\ q[j - Len(p)] \in 1 .. Len(b)
      <4>1. j = (j - Len(p)) + Len(p)
        BY <1>4, <1>5
      <4> QED
        BY <1>9, <1>10, <2>2, <4>1
    <3> QED
      BY <1>1, <3>1, <3>2
  <2>3. CASE j - Len(p) \in 1 .. Len(q) /\ i - Len(p) \in 1 .. Len(q)
    <3>1. j = (j - Len(p)) + Len(p) /\ i = (i - Len(p)) + Len(p) /\ i - Len(p) < j - Len(p)
      BY <1>4, <1>5
    <3>2. r[j] = q[j - Len(p)] + Len(a) /\ r[i] = q[i - Len(p)] + Len(a)
      BY <1>10, <2>3, <3>1
    <3>3. q[i - Len(p)] < q[j - Len(p)] /\ q[i - Len(p)] \in Nat /\ q[j - Len(p)] \in Nat
      BY <1>7, <1>9, <2>3, <3>1, SMTT(30)
    <3> QED
      BY <1>1, <3>2, <3>3
  <2> QED
    BY <1>10, <2>1, <2>2, <2>3
<1>13. ASSUME NEW x \in Solid(c) PROVE \E i \in 1 .. n : r[i] = x
  <2>1. x \in 1 .. Len(a) + Len(b) /\ c[x] # Blank
    BY <1>3 DEF Solid
  <2>2. CASE x <= Len(a)
    <3>1. x \in Solid(a)
      BY <1>1, <1>2, <2>1, <2>2 DEF Solid
    <3> QED
      BY <1>6, <1>10, <3>1
  <2>3. CASE ~(x <= Len(a))
    <3>1. x - Len(a) \in 1 .. Len(b) /\ (x - Len(a)) + Len(a) = x
      BY <1>1, <2>1, <2>3
    <3>2. x - Len(a) \in Solid(b)
      BY <1>1, <1>2, <2>1, <2>3, <3>1 DEF Solid
    <3>3. PICK i \in 1 .. Len(q) : q[i] = x - Len(a)
      BY <1>7, <3>2
    <3>4. i + Len(p) \in 1 .. n /\ r[i + Len(p)] = x
      BY <1>10, <3>1, <3>3
    <3> QED
      BY <3>4
  <2> QED
    BY <2>2, <2>3
<1>14. Picked(c, Solid(c)) = [i \in 1 .. n |-> c[r[i]]]
  <2>1. Lists(r, Solid(c))
    <3>1. DOMAIN r = 1 .. n
      BY <1>10
    <3> HIDE DEF n
    <3> QED
      BY <1>11, <1>12, <1>13, <3>1 DEF Lists
  <2>2. Solid(c) \in SUBSET Nat
    BY <1>1, <1>3
  <2>3. Picked(c, Solid(c)) = [i \in 1 .. Len(r) |-> c[r[i]]]
    BY ONLY <2>1, <2>2, PickedLists
  <2> QED
    BY <1>11, <2>3
<1> DEFINE u == Picked(a, Solid(a))
           v == Picked(b, Solid(b))
           w == Picked(c, Solid(c))
<1>15. /\ u \o v \in Seq(T) /\ Len(u \o v) = n
       /\ \A i \in 1 .. n : (u \o v)[i] = IF i <= Len(p) THEN u[i] ELSE v[i - Len(p)]
  <2>1. u \in Seq(T) /\ Len(u) = Len(p) /\ v \in Seq(T) /\ Len(v) = Len(q)
    BY <1>4, <1>5
  <2> HIDE DEF u, v
  <2>2. /\ u \o v \in Seq(T) /\ Len(u \o v) = Len(u) + Len(v)
        /\ \A i \in 1 .. Len(u) + Len(v) : (u \o v)[i] = IF i <= Len(u) THEN u[i] ELSE v[i - Len(u)]
    BY ONLY <2>1, ConcatProperties
  <2> QED
    BY <2>1, <2>2
<1>16. w \in Seq(T) /\ Len(w) = n
  <2>1. w \in Seq(T)
    BY <1>2, <1>3, PickedType
  <2>2. DOMAIN w = 1 .. n
    BY <1>14
  <2> HIDE DEF w, n
  <2> QED
    BY <1>10, <2>1, <2>2, LenProperties
<1>17. \A i \in 1 .. n : (u \o v)[i] = w[i]
  <2> SUFFICES ASSUME NEW i \in 1 .. n PROVE (u \o v)[i] = c[r[i]]
    BY <1>14
  <2>1. CASE i \in 1 .. Len(p)
    <3>1. (u \o v)[i] = u[i]
      BY <1>4, <1>15, <2>1
    <3> QED
      BY <1>4, <1>8, <1>10, <2>1, <3>1
  <2>2. CASE i - Len(p) \in 1 .. Len(q) /\ i = (i - Len(p)) + Len(p)
    <3>1. (u \o v)[i] = v[i - Len(p)]
      BY <1>4, <1>15, <2>2
    <3>2. v[i - Len(p)] = b[q[i - Len(p)]]
      BY <1>5, <2>2
    <3>3. r[i] = q[i - Len(p)] + Len(a)
      BY <1>10, <2>2
    <3> QED
      BY <1>9, <2>2, <3>1, <3>2, <3>3
  <2> QED
    BY <1>10, <2>1, <2>2
<1>18. u \o v = w
  <2> HIDE DEF u, v, w, n
  <2> QED
    BY <1>15, <1>16, <1>17, SeqEqual
<1> QED
  BY <1>18, CollapsedIs DEF c

-----------------------------------------------------------------------------
(* Sequences of sequences.                                                 *)

\* The recursion of FlattenSeq has a solution for the first m members.
LEMMA FlattenExists ==
  ASSUME NEW s, NEW m \in Nat
  PROVE  \E f : f = [i \in 1 .. m |-> IF i = 1 THEN s[i] ELSE f[i - 1] \o s[i]]
<1> DEFINE Step(f, i) == IF i = 1 THEN s[i] ELSE f[i - 1] \o s[i]
           B == {n \in Nat : ~\E f : f = [i \in 1 .. n |-> Step(f, i)]}
<1>1. B = {}
  <2> SUFFICES ASSUME B # {} PROVE FALSE
    OBVIOUS
  <2>1. PICK n \in B : n = 0 \/ (n - 1 \in Nat /\ n - 1 \notin B)
    <3> HIDE DEF B
    <3>1. B \in SUBSET Nat
      BY DEF B
    <3> QED
      BY <3>1, FirstBad
  <2>2. n \in Nat /\ ~\E f : f = [i \in 1 .. n |-> Step(f, i)]
    OBVIOUS
  <2>3. CASE n = 0
    <3> DEFINE g == [i \in 1 .. n |-> Step(<<>>, i)]
    <3>1. \A i \in 1 .. n : Step(<<>>, i) = Step(g, i)
      BY <2>3
    <3>2. g = [i \in 1 .. n |-> Step(g, i)]
      BY <2>3
    <3> HIDE DEF g
    <3> QED
      BY <2>2, <3>2
  <2>4. CASE n # 0
    <3>1. PICK f : f = [i \in 1 .. n - 1 |-> Step(f, i)]
      BY <2>1, <2>4
    <3> DEFINE g == [i \in 1 .. n |-> IF i = n THEN Step(f, n) ELSE f[i]]
    <3>2. ASSUME NEW i \in 1 .. n PROVE g[i] = Step(g, i)
      <4>1. CASE i = 1
        <5>1. CASE n = 1
          BY <4>1, <5>1
        <5>2. CASE n # 1
          <6>1. i \in 1 .. n - 1 /\ i # n
            BY <2>2, <4>1, <5>2
          <6>2. f[i] = Step(f, i)
            BY <3>1, <6>1
          <6> QED
            BY <4>1, <6>1, <6>2
        <5> QED
          BY <5>1, <5>2
      <4>2. CASE i # 1
        <5>1. i - 1 \in 1 .. n /\ i - 1 # n
          BY <2>2, <4>2
        <5>2. g[i - 1] = f[i - 1]
          BY <5>1
        <5>3. g[i] = Step(f, i)
          <6>1. CASE i = n
            BY <6>1
          <6>2. CASE i # n
            <7>1. i \in 1 .. n - 1
              BY <2>2, <6>2
            <7>2. f[i] = Step(f, i)
              BY <3>1, <7>1
            <7> QED
              BY <6>2, <7>2
          <6> QED
            BY <6>1, <6>2
        <5> HIDE DEF g
        <5> QED
          BY <4>2, <5>2, <5>3
      <4> QED
        BY <4>1, <4>2
    <3>3. DOMAIN g = 1 .. n /\ g = [i \in 1 .. n |-> g[i]]
      OBVIOUS
    <3>4. g = [i \in 1 .. n |-> Step(g, i)]
      <4> HIDE DEF g, Step
      <4> QED
        BY <3>2, <3>3
    <3> HIDE DEF g
    <3> QED
      BY <2>2, <3>4
  <2> QED
    BY <2>3, <2>4
<1>2. m \notin B
  BY <1>1
<1> QED
  BY <1>2

LEMMA Flattened ==
  ASSUME NEW s, NEW n \in Nat \ {0}, Len(s) = n
  PROVE  \E f : /\ f[1] = s[1] /\ \A i \in 2 .. n : f[i] = f[i - 1] \o s[i]
                /\ FlattenSeq(s) = f[n]
<1> DEFINE F == CHOOSE f : f = [i \in 1 .. Len(s) |-> IF i = 1 THEN s[i] ELSE f[i - 1] \o s[i]]
<1>1. \E f : f = [i \in 1 .. Len(s) |-> IF i = 1 THEN s[i] ELSE f[i - 1] \o s[i]]
  BY FlattenExists
<1>2. F = [i \in 1 .. Len(s) |-> IF i = 1 THEN s[i] ELSE F[i - 1] \o s[i]]
  BY <1>1
<1>3. FlattenSeq(s) = F[Len(s)]
  BY DEF FlattenSeq
<1> HIDE DEF F
<1>4. F[1] = s[1] /\ \A i \in 2 .. n : F[i] = F[i - 1] \o s[i]
  <2>1. 1 \in 1 .. n /\ \A i \in 2 .. n : i \in 1 .. n /\ i # 1
    OBVIOUS
  <2> QED
    BY <1>2, <2>1
<1> QED
  BY <1>3, <1>4

\* Sequences of sequences flatten to a sequence, which is empty only if they are.
LEMMA FlattenType ==
  ASSUME NEW T, NEW s \in Seq(Seq(T))
  PROVE  /\ FlattenSeq(s) \in Seq(T)
         /\ (\E i \in DOMAIN s : s[i] # <<>>) => FlattenSeq(s) # <<>>
<1>1. Len(s) \in Nat /\ DOMAIN s = 1 .. Len(s) /\ \A i \in 1 .. Len(s) : s[i] \in Seq(T)
  BY LenProperties, ElementOfSeq
<1>2. CASE Len(s) = 0
  <2>1. FlattenSeq(s) = s /\ s = <<>>
    BY <1>2, EmptySeq DEF FlattenSeq
  <2> QED
    BY <1>1, <1>2, <2>1
<1>3. CASE Len(s) # 0
  <2> DEFINE n == Len(s)
  <2>1. PICK f : /\ f[1] = s[1] /\ \A i \in 2 .. n : f[i] = f[i - 1] \o s[i]
                 /\ FlattenSeq(s) = f[n]
    BY <1>1, <1>3, Flattened, ZenonT(60)
  <2> HIDE DEF n
  <2> DEFINE Good(k) == f[k] \in Seq(T) /\ ((\E i \in 1 .. k : s[i] # <<>>) => f[k] # <<>>)
             B == {k \in Nat : k + 1 \in 1 .. n /\ ~Good(k + 1)}
  <2>2. B = {}
    <3> SUFFICES ASSUME B # {} PROVE FALSE
      OBVIOUS
    <3>1. PICK k \in B : k = 0 \/ (k - 1 \in Nat /\ k - 1 \notin B)
      <4> HIDE DEF B
      <4>1. B \in SUBSET Nat
        BY DEF B
      <4> QED
        BY <4>1, FirstBad
    <3>2. k \in Nat /\ k + 1 \in 1 .. n /\ ~Good(k + 1)
      OBVIOUS
    <3>3. CASE k = 0
      <4>1. Good(1)
        <5>1. \A i \in 1 .. 1 : i = 1
          OBVIOUS
        <5>2. 1 \in 1 .. n
          BY <3>2, <3>3
        <5> QED
          BY <1>1, <2>1, <5>1, <5>2 DEF n
      <4>2. k + 1 = 1
        BY <3>3
      <4> QED
        BY <3>2, <4>1, <4>2
    <3>4. CASE k # 0
      <4>1. k \in 1 .. n /\ k - 1 \in Nat /\ (k - 1) + 1 = k /\ k + 1 \in 2 .. n /\ (k + 1) - 1 = k
        <5>1. n \in Nat /\ k \in Nat /\ k # 0 /\ k + 1 \in 1 .. n
          BY <1>1, <3>2, <3>4 DEF n
        <5> QED
          BY ONLY <5>1
      <4>2. Good(k)
        BY <3>1, <3>4, <4>1
      <4>3. f[k + 1] = f[k] \o s[k + 1]
        BY <2>1, <4>1
      <4>4. f[k] \in Seq(T) /\ s[k + 1] \in Seq(T)
        BY <1>1, <3>2, <4>2 DEF n
      <4>5. f[k + 1] \in Seq(T)
        BY <4>3, <4>4, ConcatProperties
      <4>6. f[k + 1] = <<>> => f[k] = <<>> /\ s[k + 1] = <<>>
        <5>1. f[k] \o s[k + 1] = <<>> <=> f[k] = <<>> /\ s[k + 1] = <<>>
          BY ONLY <4>4, ConcatEqualIffEmpty
        <5> QED
          BY <4>3, <5>1
      <4>7. \A i \in 1 .. k + 1 : i = k + 1 \/ i \in 1 .. k
        BY <3>2
      <4> QED
        BY <3>2, <4>2, <4>5, <4>6, <4>7
    <3> QED
      BY <3>3, <3>4
  <2>3. Good(n)
    <3>1. n - 1 \in Nat /\ (n - 1) + 1 = n /\ n \in 1 .. n
      BY <1>1, <1>3 DEF n
    <3>2. n - 1 \notin B
      BY <2>2
    <3> HIDE DEF Good
    <3> QED
      BY <3>1, <3>2
  <2> QED
    BY <1>1, <2>1, <2>3 DEF n
<1> QED
  BY <1>1, <1>2, <1>3

\* Members with the same words flatten to the same words.
LEMMA NonBlankFlatten ==
  ASSUME NEW T, NEW s \in Seq(Seq(T)), NEW t \in Seq(Seq(T)), Len(s) = Len(t),
         \A i \in 1 .. Len(s) : NonBlank(s[i]) = NonBlank(t[i])
  PROVE  NonBlank(FlattenSeq(s)) = NonBlank(FlattenSeq(t))
<1>1. /\ Len(s) \in Nat
      /\ \A i \in 1 .. Len(s) : s[i] \in Seq(T) /\ t[i] \in Seq(T)
  BY LenProperties, ElementOfSeq
<1>2. CASE Len(s) = 0
  <2>1. s = <<>> /\ t = <<>>
    BY <1>2, EmptySeq
  <2> QED
    BY <2>1
<1>3. CASE Len(s) # 0
  <2> DEFINE n == Len(s)
  <2>1. PICK f : /\ f[1] = s[1] /\ \A i \in 2 .. n : f[i] = f[i - 1] \o s[i]
                 /\ FlattenSeq(s) = f[n]
    BY <1>1, <1>3, Flattened, ZenonT(60)
  <2>2. PICK g : /\ g[1] = t[1] /\ \A i \in 2 .. n : g[i] = g[i - 1] \o t[i]
                 /\ FlattenSeq(t) = g[n]
    BY <1>1, <1>3, Flattened, ZenonT(60)
  <2> HIDE DEF n
  <2> DEFINE Good(k) == f[k] \in Seq(T) /\ g[k] \in Seq(T) /\ NonBlank(f[k]) = NonBlank(g[k])
             B == {k \in Nat : k + 1 \in 1 .. n /\ ~Good(k + 1)}
  <2>3. B = {}
    <3> SUFFICES ASSUME B # {} PROVE FALSE
      OBVIOUS
    <3>1. PICK k \in B : k = 0 \/ (k - 1 \in Nat /\ k - 1 \notin B)
      <4> HIDE DEF B
      <4>1. B \in SUBSET Nat
        BY DEF B
      <4> QED
        BY <4>1, FirstBad
    <3>2. k \in Nat /\ k + 1 \in 1 .. n /\ ~Good(k + 1)
      OBVIOUS
    <3>3. CASE k = 0
      <4>1. 1 \in 1 .. n /\ k + 1 = 1
        BY <3>2, <3>3
      <4>2. Good(1)
        BY <1>1, <2>1, <2>2, <4>1 DEF n
      <4> QED
        BY <3>2, <4>1, <4>2
    <3>4. CASE k # 0
      <4>1. k \in 1 .. n /\ k - 1 \in Nat /\ (k - 1) + 1 = k /\ k + 1 \in 2 .. n /\ (k + 1) - 1 = k
        <5>1. n \in Nat /\ k \in Nat /\ k # 0 /\ k + 1 \in 1 .. n
          BY <1>1, <3>2, <3>4 DEF n
        <5> QED
          BY ONLY <5>1
      <4>2. Good(k)
        BY <3>1, <3>4, <4>1
      <4>3. f[k + 1] = f[k] \o s[k + 1] /\ g[k + 1] = g[k] \o t[k + 1]
        BY <2>1, <2>2, <4>1
      <4>4. /\ f[k] \in Seq(T) /\ s[k + 1] \in Seq(T) /\ g[k] \in Seq(T) /\ t[k + 1] \in Seq(T)
            /\ NonBlank(s[k + 1]) = NonBlank(t[k + 1])
        BY <1>1, <3>2, <4>2 DEF n
      <4>5. f[k + 1] \in Seq(T) /\ g[k + 1] \in Seq(T)
        BY <4>3, <4>4, ConcatProperties
      <4>6. NonBlank(f[k + 1]) = NonBlank(f[k]) \o NonBlank(s[k + 1])
        <5>1. NonBlank(f[k] \o s[k + 1]) = NonBlank(f[k]) \o NonBlank(s[k + 1])
          BY ONLY <4>4, NonBlankConcat
        <5> QED
          BY <4>3, <5>1
      <4>7. NonBlank(g[k + 1]) = NonBlank(g[k]) \o NonBlank(t[k + 1])
        <5>1. NonBlank(g[k] \o t[k + 1]) = NonBlank(g[k]) \o NonBlank(t[k + 1])
          BY ONLY <4>4, NonBlankConcat
        <5> QED
          BY <4>3, <5>1
      <4> QED
        BY <3>2, <4>2, <4>4, <4>5, <4>6, <4>7
    <3> QED
      BY <3>3, <3>4
  <2>4. Good(n)
    <3>1. n - 1 \in Nat /\ (n - 1) + 1 = n /\ n \in 1 .. n
      BY <1>1, <1>3 DEF n
    <3>2. n - 1 \notin B
      BY <2>3
    <3> HIDE DEF Good
    <3> QED
      BY <3>1, <3>2
  <2> QED
    BY <2>1, <2>2, <2>4
<1> QED
  BY <1>1, <1>2, <1>3

\* Adjacent slices of a text flatten to the text they tile.
LEMMA FlattenTiles ==
  ASSUME NEW T, NEW x \in Seq(T), NEW n \in Nat \ {0}, NEW parts, Len(parts) = n,
         NEW e \in [1 .. n -> 0 .. Len(x)],
         \A k \in 2 .. n : e[k - 1] <= e[k],
         \A k \in 1 .. n : parts[k] = Slice(x, IF k = 1 THEN 0 ELSE e[k - 1], e[k])
  PROVE  FlattenSeq(parts) = Slice(x, 0, e[n])
<1>1. PICK f : /\ f[1] = parts[1] /\ \A i \in 2 .. n : f[i] = f[i - 1] \o parts[i]
               /\ FlattenSeq(parts) = f[n]
  BY Flattened
<1>2. Len(x) \in Nat
  BY LenProperties
<1> DEFINE B == {k \in Nat : k + 1 \in 1 .. n /\ f[k + 1] # Slice(x, 0, e[k + 1])}
<1>3. B = {}
  <2> SUFFICES ASSUME B # {} PROVE FALSE
    OBVIOUS
  <2>1. PICK k \in B : k = 0 \/ (k - 1 \in Nat /\ k - 1 \notin B)
    <3> HIDE DEF B
    <3>1. B \in SUBSET Nat
      BY DEF B
    <3> QED
      BY <3>1, FirstBad
  <2>2. k \in Nat /\ k + 1 \in 1 .. n /\ f[k + 1] # Slice(x, 0, e[k + 1])
    OBVIOUS
  <2>3. CASE k = 0
    <3>1. 1 \in 1 .. n /\ k + 1 = 1
      BY <2>3
    <3>2. f[1] = Slice(x, 0, e[1])
      BY <1>1, <3>1
    <3> QED
      BY <2>2, <3>1, <3>2
  <2>4. CASE k # 0
    <3>1. k \in 1 .. n /\ k - 1 \in Nat /\ (k - 1) + 1 = k /\ k + 1 \in 2 .. n /\ (k + 1) - 1 = k
      BY <2>2, <2>4, SMTT(30)
    <3>2. f[k] = Slice(x, 0, e[k])
      BY <2>1, <2>4, <3>1
    <3>3. parts[k + 1] = Slice(x, e[k], e[k + 1])
      <4>1. k + 1 # 1
        BY <3>1
      <4> QED
        BY <2>2, <3>1, <4>1
    <3>4. e[k + 1] \in 0 .. Len(x) /\ e[k] \in 0 .. e[k + 1] /\ 0 \in 0 .. e[k]
      <4>1. e[k + 1] \in 0 .. Len(x) /\ e[k] \in 0 .. Len(x) /\ e[k] <= e[k + 1]
        BY <2>2, <3>1
      <4> QED
        BY <1>2, <4>1
    <3>5. Slice(x, 0, e[k]) \o Slice(x, e[k], e[k + 1]) = Slice(x, 0, e[k + 1])
      BY <3>4, SliceJoin
    <3>6. f[k + 1] = f[k] \o parts[k + 1]
      BY <1>1, <3>1
    <3> QED
      BY <2>2, <3>2, <3>3, <3>5, <3>6
  <2> QED
    BY <2>3, <2>4
<1>4. f[n] = Slice(x, 0, e[n])
  <2>1. n - 1 \in Nat /\ (n - 1) + 1 = n /\ n \in 1 .. n
    OBVIOUS
  <2>2. n - 1 \notin B
    BY <1>3
  <2> QED
    BY <2>1, <2>2
<1> QED
  BY <1>1, <1>4

-----------------------------------------------------------------------------
(* Ranges of claims.                                                       *)

LEMMA RangesFromIn ==
  ASSUME NEW s \in Texts, NEW from \in Nat, NEW r \in RangesFrom(s, from)
  PROVE  /\ r[1] \in Nat /\ r[2] \in Nat /\ Len(s) \in Nat
         /\ from <= r[1] /\ r[1] < r[2] /\ r[2] <= Len(s)
         /\ Slice(s, r[1], r[2]) \in Texts
<1>1. Len(s) \in Nat
  BY LenProperties DEF Texts
<1>2. r[1] \in from .. Len(s) /\ r[2] \in from .. Len(s) /\ r[1] < r[2]
  BY DEF RangesFrom
<1>3. r[1] \in Nat /\ r[2] \in Nat /\ from <= r[1] /\ r[1] < r[2] /\ r[2] <= Len(s)
  BY <1>1, <1>2
<1>4. Slice(s, r[1], r[2]) \in Texts
  BY <1>3, SliceType DEF Texts
<1> QED
  BY <1>1, <1>3, <1>4

LEMMA EarliestIn ==
  ASSUME NEW s \in Texts, NEW from \in Nat, NEW R \in SUBSET RangesFrom(s, from), R # {}
  PROVE  Earliest(R) \in R
<1> DEFINE B == {r[1] : r \in R}
<1>1. \A r \in R : r[1] \in Nat
  BY RangesFromIn
<1>2. B \in SUBSET Nat /\ B # {}
  BY <1>1
<1>3. PICK b \in B : \A c \in B : b <= c
  <2> HIDE DEF B
  <2> QED
    BY <1>2, LeastNumber
<1>4. PICK r \in R : b = r[1]
  BY <1>3
<1>5. \A other \in R : r[1] <= other[1]
  BY <1>3, <1>4
<1> QED
  BY <1>5 DEF Earliest

LEMMA CollapsedType ==
  ASSUME NEW s \in Texts
  PROVE  Collapsed(s) \in Texts /\ Stripped(s) \in Texts
BY CollapsedList, CollapsedStripped DEF Texts

LEMMA ClaimIs ==
  ASSUME NEW s \in Texts, NEW claim \in Claims(s)
  PROVE  /\ claim.body \in Texts /\ claim.text \in {claim.body, Collapsed(claim.body)}
         /\ TextOf(claim) \in Texts
         /\ Collapsed(TextOf(claim)) = Collapsed(claim.body)
<1> DEFINE bodies == {Slice(s, r[1], r[2]) : r \in RangesFrom(s, 0)}
           said == (bodies \cup {Collapsed(b) : b \in bodies}) \ {<<>>}
           ranges(b) == {<<0, 0>>} \cup {r \in RangesFrom(s, 0) : Slice(s, r[1], r[2]) \in {b, Collapsed(b)}}
<1>1. \A b \in bodies : b \in Texts
  BY RangesFromIn
<1>2. \A b \in said : b \in Texts
  BY <1>1, CollapsedType
<1>3. PICK b \in said : claim \in {[body |-> b, text |-> t, start |-> r[1], end |-> r[2]] :
                                     t \in {b, Collapsed(b)}, r \in ranges(b)}
  BY DEF Claims
<1>4. claim.body = b /\ claim.text \in {b, Collapsed(b)}
  BY <1>3
<1> HIDE DEF said
<1>5. b \in Texts /\ Collapsed(b) \in Texts /\ Collapsed(Collapsed(b)) = Collapsed(b)
  BY <1>2, CollapsedType, CollapsedTwice DEF Texts
<1> QED
  BY <1>4, <1>5 DEF TextOf

\* Where a chunk is placed, its words are in the text.
LEMMA ResolvedIs ==
  ASSUME NEW s \in Texts, NEW previous \in Nat, NEW claim \in Claims(s),
         ResolvedRange(s, previous, claim) # Null
  PROVE  LET range == ResolvedRange(s, previous, claim)
         IN  /\ range \in RangesFrom(s, previous)
             /\ Collapsed(Slice(s, range[1], range[2])) = Collapsed(TextOf(claim))
<1> DEFINE text == TextOf(claim)
           claimed == <<claim.start, claim.end>>
           candidates == <<claim.body, text, Stripped(claim.body), Stripped(text)>>
           hits == {n \in DOMAIN candidates : Found(s, previous, candidates[n]) # {}}
           range == ResolvedRange(s, previous, claim)
<1>1. /\ claim.body \in Texts /\ text \in Texts
      /\ Collapsed(text) = Collapsed(claim.body)
      /\ Collapsed(Stripped(claim.body)) = Collapsed(text)
      /\ Collapsed(Stripped(text)) = Collapsed(text)
  BY ClaimIs, CollapsedStripped DEF Texts
<1>2. CASE /\ claimed \in RangesFrom(s, previous)
           /\ Slice(s, claim.start, claim.end) \in {claim.body, text}
  <2>1. range = claimed
    BY <1>2 DEF ResolvedRange
  <2>2. claimed[1] = claim.start /\ claimed[2] = claim.end
    OBVIOUS
  <2> HIDE DEF claimed, range
  <2>3. Collapsed(Slice(s, range[1], range[2])) = Collapsed(text)
    BY <1>1, <1>2, <2>1, <2>2
  <2> QED
    BY <1>2, <2>1, <2>3 DEF range, text
<1>3. CASE /\ ~(/\ claimed \in RangesFrom(s, previous)
                /\ Slice(s, claim.start, claim.end) \in {claim.body, text})
           /\ hits # {}
  <2> DEFINE n == Min(hits)
             R == Found(s, previous, candidates[n])
  <2>1. range = Earliest(R)
    BY <1>3 DEF ResolvedRange
  <2>2. n \in hits
    <3>1. hits \in SUBSET Nat /\ hits # {}
      BY <1>3
    <3> HIDE DEF hits
    <3> QED
      BY <3>1, MinOfSome
  <2>3. n \in 1 .. 4 /\ R # {}
    <3>1. DOMAIN candidates = 1 .. 4
      OBVIOUS
    <3> HIDE DEF n, candidates
    <3> QED
      BY <2>2, <3>1
  <2>4. Collapsed(candidates[n]) = Collapsed(text)
    <3> HIDE DEF n
    <3>1. n = 1 \/ n = 2 \/ n = 3 \/ n = 4
      BY <2>3
    <3> QED
      BY <1>1, <3>1
  <2>5. R \in SUBSET RangesFrom(s, previous) /\ \A r \in R : Slice(s, r[1], r[2]) = candidates[n]
    BY DEF Found
  <2> HIDE DEF R, range, candidates, n
  <2>6. range \in R
    BY <2>1, <2>3, <2>5, EarliestIn
  <2> QED
    BY <2>4, <2>5, <2>6 DEF range, text
<1>4. CASE /\ ~(/\ claimed \in RangesFrom(s, previous)
                /\ Slice(s, claim.start, claim.end) \in {claim.body, text})
           /\ hits = {}
  <2> DEFINE R == Matches(s, previous, text)
  <2>1. R # {} /\ range = Earliest(R)
    BY <1>4 DEF ResolvedRange
  <2>2. R \in SUBSET RangesFrom(s, previous)
        /\ \A r \in R : Collapsed(Slice(s, r[1], r[2])) = Collapsed(text)
    BY DEF Matches
  <2> HIDE DEF R, range
  <2>3. range \in R
    BY <2>1, <2>2, EarliestIn
  <2> QED
    BY <2>2, <2>3 DEF range, text
<1> QED
  BY <1>2, <1>3, <1>4

-----------------------------------------------------------------------------
(* Accepted answers.                                                        *)

\* The accepted paragraphs: each lies where its words stand, all in order.
ParagraphsPlaced ==
  /\ \A p \in DOMAIN paragraphs :
       /\ paragraphs[p].start < paragraphs[p].end
       /\ Collapsed(Slice(source, paragraphs[p].start, paragraphs[p].end)) = Collapsed(paragraphs[p].text)
  /\ \A p, q \in DOMAIN paragraphs : p < q => paragraphs[p].end <= paragraphs[q].start

\* The accepted sentences: each inside its paragraph, all in order.
SentencesPlaced ==
  /\ \A k \in DOMAIN sentences :
       InParagraph(paragraphs[sentences[k].of], sentences[k].start, sentences[k].end)
  /\ \A k, l \in DOMAIN sentences :
       k < l => sentences[k].of <= sentences[l].of /\ sentences[k].end <= sentences[l].start

\* The inductive invariant.
RoundTripInv ==
  /\ RoundTripTypeOK /\ phase # "refused"
  /\ phase # "paragraphs" => paragraphs # <<>>
  /\ ParagraphsPlaced /\ SentencesPlaced

\* What a sequence is after an element is appended.
LEMMA AppendIs ==
  ASSUME NEW S, NEW s \in Seq(S), NEW x \in S
  PROVE  /\ Append(s, x) \in Seq(S) /\ Len(s) \in Nat /\ DOMAIN s = 1 .. Len(s)
         /\ DOMAIN Append(s, x) = 1 .. Len(s) + 1 /\ Len(Append(s, x)) = Len(s) + 1
         /\ Append(s, x)[Len(s) + 1] = x
         /\ \A k \in DOMAIN s : Append(s, x)[k] = s[k]
<1>1. Len(s) \in Nat /\ DOMAIN s = 1 .. Len(s)
  OBVIOUS
<1>2. Append(s, x) \in Seq(S) /\ Len(Append(s, x)) = Len(s) + 1
  OBVIOUS
<1>3. DOMAIN Append(s, x) = 1 .. Len(s) + 1
  BY <1>2
<1>4. /\ Append(s, x)[Len(s) + 1] = x
      /\ \A k \in DOMAIN s : Append(s, x)[k] = s[k]
  BY <1>1
<1> QED
  BY <1>1, <1>2, <1>3, <1>4

\* The initial state.
LEMMA RoundTripInitInv == RoundTripInit => RoundTripInv
<1> SUFFICES ASSUME RoundTripInit PROVE RoundTripInv
  OBVIOUS
<1> USE RoundTripAssumption
<1>1. source \in Texts
  BY DEF RoundTripInit
<1>2. <<>> \in Seq(ParagraphRow) /\ <<>> \in Seq(SentenceRow) /\ <<>> \in Seq(ChunkRow)
  OBVIOUS
<1>3. 0 \in 0 .. MaxEdits
  OBVIOUS
<1>4. RoundTripTypeOK
  BY <1>1, <1>2, <1>3 DEF RoundTripInit, RoundTripTypeOK
<1> QED
  BY <1>4 DEF RoundTripInit, RoundTripInv, ParagraphsPlaced, SentencesPlaced

\* The end of accepted paragraphs is after all of them.
LEMMA EndOfParagraphs ==
  ASSUME RoundTripTypeOK, ParagraphsPlaced
  PROVE  /\ EndOf(paragraphs) \in Nat
         /\ \A p \in DOMAIN paragraphs : paragraphs[p].end <= EndOf(paragraphs)
<1>1. CASE paragraphs = <<>>
  BY <1>1 DEF EndOf
<1>2. CASE paragraphs # <<>>
  <2> DEFINE n == Len(paragraphs)
  <2>1. /\ paragraphs \in Seq(ParagraphRow) /\ n \in Nat /\ n > 0
        /\ DOMAIN paragraphs = 1 .. n /\ Len(source) \in Nat
    BY <1>2 DEF RoundTripTypeOK, Texts
  <2>2. Last(paragraphs) = paragraphs[n] /\ n \in DOMAIN paragraphs
    BY <2>1 DEF Last
  <2>3. \A p \in DOMAIN paragraphs : /\ paragraphs[p].start \in Nat /\ paragraphs[p].end \in Nat
                                     /\ paragraphs[p].start < paragraphs[p].end
    <3> TAKE p \in DOMAIN paragraphs
    <3>1. paragraphs[p] \in ParagraphRow
      BY <2>1
    <3>2. paragraphs[p].start \in Nat /\ paragraphs[p].end \in 1 .. Len(source)
      BY <3>1 DEF ParagraphRow
    <3> QED
      BY <3>2, <2>1 DEF ParagraphsPlaced
  <2>4. EndOf(paragraphs) = paragraphs[n].end
    BY <2>2, <1>2 DEF EndOf
  <2>5. ASSUME NEW p \in DOMAIN paragraphs PROVE paragraphs[p].end <= paragraphs[n].end
    <3>1. p = n \/ p < n
      BY <2>1
    <3>2. CASE p = n
      BY <3>2, <2>3
    <3>3. CASE p < n
      <4>1. paragraphs[p].end <= paragraphs[n].start
        BY <3>3, <2>2 DEF ParagraphsPlaced
      <4>2. /\ paragraphs[n].start \in Nat /\ paragraphs[n].end \in Nat
            /\ paragraphs[n].start < paragraphs[n].end /\ paragraphs[p].end \in Nat
        BY <2>3, <2>2
      <4> QED
        BY <4>1, <4>2
    <3> QED
      BY <3>1, <3>2, <3>3
  <2> QED
    BY <2>2, <2>3, <2>4, <2>5
<1> QED
  BY <1>1, <1>2

\* A paragraph is taken.
LEMMA TakeParagraphInv ==
  ASSUME RoundTripInv, TakeParagraph
  PROVE  RoundTripInv'
<1> USE RoundTripAssumption
<1>0. RoundTripTypeOK /\ ParagraphsPlaced /\ SentencesPlaced
  BY DEF RoundTripInv
<1>1. PICK claim \in Claims(source) :
         LET range == ResolvedRange(source, EndOf(paragraphs), claim)
         IN  /\ range # Null
             /\ paragraphs' = Append(paragraphs,
                                   [text |-> TextOf(claim), start |-> range[1], end |-> range[2]])
  BY DEF TakeParagraph
<1> DEFINE range == ResolvedRange(source, EndOf(paragraphs), claim)
           new == [text |-> TextOf(claim), start |-> range[1], end |-> range[2]]
           n == Len(paragraphs)
<1>2. range # Null /\ paragraphs' = Append(paragraphs, new)
  BY <1>1
<1>3. /\ source' = source /\ phase' = phase /\ sentences' = sentences /\ chunks' = chunks
      /\ edits' = edits /\ phase = "paragraphs"
  BY DEF TakeParagraph
<1>4. /\ EndOf(paragraphs) \in Nat
      /\ \A p \in DOMAIN paragraphs : paragraphs[p].end <= EndOf(paragraphs)
  BY <1>0, EndOfParagraphs
<1>5. source \in Texts
  BY <1>0 DEF RoundTripTypeOK
<1>6. /\ range \in RangesFrom(source, EndOf(paragraphs))
      /\ Collapsed(Slice(source, range[1], range[2])) = Collapsed(TextOf(claim))
  BY <1>2, <1>4, <1>5, ResolvedIs
<1>7. /\ range[1] \in Nat /\ range[2] \in Nat /\ Len(source) \in Nat
      /\ EndOf(paragraphs) <= range[1] /\ range[1] < range[2] /\ range[2] <= Len(source)
  BY <1>4, <1>5, <1>6, RangesFromIn
<1>8. TextOf(claim) \in Texts
  BY <1>5, ClaimIs
<1> HIDE DEF range
<1>9. new \in ParagraphRow
  BY <1>7, <1>8 DEF ParagraphRow
<1>10. /\ new.start = range[1] /\ new.end = range[2] /\ new.text = TextOf(claim)
  OBVIOUS
<1> HIDE DEF new
<1>11. paragraphs \in Seq(ParagraphRow)
  BY <1>0 DEF RoundTripTypeOK
<1>12. /\ paragraphs' \in Seq(ParagraphRow) /\ n \in Nat /\ DOMAIN paragraphs = 1 .. n
       /\ DOMAIN paragraphs' = 1 .. n + 1 /\ Len(paragraphs') = n + 1
       /\ paragraphs'[n + 1] = new
       /\ \A k \in DOMAIN paragraphs : paragraphs'[k] = paragraphs[k]
  BY <1>2, <1>9, <1>11, AppendIs
<1>13. \A p \in DOMAIN paragraphs' : p \in DOMAIN paragraphs \/ p = n + 1
  BY <1>12
<1>14. ParagraphRow' = ParagraphRow
  BY <1>3 DEF ParagraphRow
<1>15. DOMAIN paragraphs \subseteq DOMAIN paragraphs'
  BY <1>12
<1>16. SentenceRow \subseteq SentenceRow' /\ ChunkRow \subseteq ChunkRow'
  BY <1>3, <1>15 DEF SentenceRow, ChunkRow
<1>17. sentences \in Seq(SentenceRow) /\ chunks \in Seq(ChunkRow)
  BY <1>0 DEF RoundTripTypeOK
<1>18. sentences' \in Seq(SentenceRow') /\ chunks' \in Seq(ChunkRow')
  BY <1>3, <1>16, <1>17, SeqMonotonic
<1>19. RoundTripTypeOK'
  BY <1>0, <1>3, <1>12, <1>14, <1>18 DEF RoundTripTypeOK
<1>20. ParagraphsPlaced'
  <2>1. ASSUME NEW p \in DOMAIN paragraphs'
        PROVE  /\ paragraphs'[p].start < paragraphs'[p].end
               /\ Collapsed(Slice(source', paragraphs'[p].start, paragraphs'[p].end))
                    = Collapsed(paragraphs'[p].text)
    <3>1. CASE p \in DOMAIN paragraphs
      BY <3>1, <1>0, <1>3, <1>12 DEF ParagraphsPlaced
    <3>2. CASE p = n + 1
      BY <3>2, <1>3, <1>6, <1>7, <1>10, <1>12
    <3> QED
      BY <3>1, <3>2, <1>13
  <2>2. ASSUME NEW p \in DOMAIN paragraphs', NEW q \in DOMAIN paragraphs', p < q
        PROVE  paragraphs'[p].end <= paragraphs'[q].start
    <3>1. p \in DOMAIN paragraphs
      BY <2>2, <1>12
    <3>2. CASE q \in DOMAIN paragraphs
      BY <3>1, <3>2, <2>2, <1>0, <1>12 DEF ParagraphsPlaced
    <3>3. CASE q = n + 1
      <4>1. paragraphs[p] \in ParagraphRow
        BY <3>1, <1>11
      <4>2. paragraphs[p].end \in Int
        BY <4>1, <1>7 DEF ParagraphRow
      <4>3. paragraphs'[p] = paragraphs[p] /\ paragraphs'[q].start = range[1]
        BY <3>1, <3>3, <1>10, <1>12
      <4>4. paragraphs[p].end <= EndOf(paragraphs)
        BY <3>1, <1>4
      <4>5. paragraphs[p].end <= range[1]
        BY <4>2, <4>4, <1>4, <1>7
      <4> QED
        BY <4>3, <4>5
    <3> QED
      BY <3>2, <3>3, <1>13
  <2> QED
    BY <2>1, <2>2 DEF ParagraphsPlaced
<1>21. SentencesPlaced'
  <2>1. ASSUME NEW k \in DOMAIN sentences'
        PROVE  InParagraph(paragraphs'[sentences'[k].of], sentences'[k].start, sentences'[k].end)
    <3>1. k \in DOMAIN sentences /\ sentences' = sentences
      BY <1>3
    <3>2. sentences[k] \in SentenceRow
      BY <3>1, <1>17
    <3>3. sentences[k].of \in DOMAIN paragraphs
      BY <3>2 DEF SentenceRow
    <3>4. InParagraph(paragraphs[sentences[k].of], sentences[k].start, sentences[k].end)
      BY <3>1, <1>0 DEF SentencesPlaced
    <3> QED
      BY <3>1, <3>3, <3>4, <1>12
  <2>2. \A k, l \in DOMAIN sentences' :
          k < l => sentences'[k].of <= sentences'[l].of /\ sentences'[k].end <= sentences'[l].start
    BY <1>0, <1>3 DEF SentencesPlaced
  <2> QED
    BY <2>1, <2>2 DEF SentencesPlaced
<1> QED
  BY <1>3, <1>19, <1>20, <1>21 DEF RoundTripInv

\* Paragraphs and their sentences stay as they are.
LEMMA SameHierarchy ==
  ASSUME RoundTripInv, UNCHANGED <<source, paragraphs, sentences>>,
         phase' \in {phase, "sentences", "stored"}, phase' # "paragraphs" => paragraphs # <<>>,
         chunks' \in Seq(ChunkRow), edits' \in 0 .. MaxEdits
  PROVE  RoundTripInv'
<1>1. RoundTripTypeOK /\ ParagraphsPlaced /\ SentencesPlaced /\ phase # "refused"
  BY DEF RoundTripInv
<1>2. /\ ParagraphRow' = ParagraphRow /\ SentenceRow' = SentenceRow /\ ChunkRow' = ChunkRow
  BY DEF ParagraphRow, SentenceRow, ChunkRow
<1>3. phase' \in {"paragraphs", "sentences", "stored"}
  BY <1>1 DEF RoundTripTypeOK
<1>4. RoundTripTypeOK'
  BY <1>1, <1>2, <1>3 DEF RoundTripTypeOK
<1>5. ParagraphsPlaced' /\ SentencesPlaced'
  BY <1>1 DEF ParagraphsPlaced, SentencesPlaced
<1> QED
  BY <1>3, <1>4, <1>5 DEF RoundTripInv

\* The end of the accepted sentences is after all of them.
LEMMA LastSentence ==
  ASSUME RoundTripTypeOK, SentencesPlaced, NEW k \in DOMAIN sentences
  PROVE  /\ sentences[k].of <= Last(sentences).of /\ sentences[k].end <= Last(sentences).end
         /\ Last(sentences).of \in DOMAIN paragraphs /\ Last(sentences).end \in Nat
         /\ Last(sentences).of \in Nat /\ sentences[k].of \in Nat
         /\ InParagraph(paragraphs[Last(sentences).of], Last(sentences).start, Last(sentences).end)
<1> DEFINE n == Len(sentences)
<1>1. /\ sentences \in Seq(SentenceRow) /\ n \in Nat /\ DOMAIN sentences = 1 .. n
      /\ paragraphs \in Seq(ParagraphRow) /\ Len(source) \in Nat
  BY DEF RoundTripTypeOK, Texts
<1>2. n \in DOMAIN sentences /\ Last(sentences) = sentences[n]
  BY <1>1 DEF Last
<1>3. \A l \in DOMAIN sentences : /\ sentences[l].of \in DOMAIN paragraphs /\ sentences[l].of \in Nat
                                  /\ sentences[l].start \in Nat /\ sentences[l].end \in Nat
  <2> TAKE l \in DOMAIN sentences
  <2>1. sentences[l] \in SentenceRow
    BY <1>1
  <2>2. /\ sentences[l].of \in DOMAIN paragraphs
        /\ sentences[l].start \in Nat /\ sentences[l].end \in 1 .. Len(source)
    BY <2>1 DEF SentenceRow
  <2>3. DOMAIN paragraphs = 1 .. Len(paragraphs) /\ Len(paragraphs) \in Nat
    BY <1>1
  <2> QED
    BY <2>2, <2>3, <1>1
<1>4. InParagraph(paragraphs[sentences[n].of], sentences[n].start, sentences[n].end)
  BY <1>2 DEF SentencesPlaced
<1>5. sentences[n].start < sentences[n].end
  BY <1>4 DEF InParagraph
<1>6. k = n \/ k < n
  BY <1>1
<1>7. CASE k = n
  BY <1>2, <1>3, <1>4, <1>7
<1>8. CASE k < n
  <2>1. sentences[k].of <= sentences[n].of /\ sentences[k].end <= sentences[n].start
    BY <1>2, <1>8 DEF SentencesPlaced
  <2>2. sentences[n].start \in Nat /\ sentences[n].end \in Nat /\ sentences[k].end \in Nat
    BY <1>2, <1>3
  <2>3. sentences[k].end <= sentences[n].end
    BY <2>1, <2>2, <1>5
  <2> QED
    BY <1>2, <1>3, <1>4, <2>1, <2>3
<1> QED
  BY <1>6, <1>7, <1>8

\* A sentence is taken.
LEMMA TakeSentenceInv ==
  ASSUME RoundTripInv, NEW p \in 1 .. MaxParagraphs, TakeSentence(p)
  PROVE  RoundTripInv'
<1> USE RoundTripAssumption
<1>0. RoundTripTypeOK /\ ParagraphsPlaced /\ SentencesPlaced
  BY DEF RoundTripInv
<1> DEFINE para == paragraphs[p]
           own == {k \in DOMAIN sentences : sentences[k].of = p}
           previous == IF own = {} THEN 0 ELSE Last(sentences).end - para.start
<1>1. PICK claim \in Claims(para.text) :
           LET range == ResolvedRange(para.text, previous, claim)
           IN  /\ range # Null
               /\ InParagraph(para, para.start + range[1], para.start + range[2])
               /\ sentences' = Append(sentences,
                    [of |-> p, text |-> TextOf(claim),
                     start |-> para.start + range[1], end |-> para.start + range[2]])
  BY DEF TakeSentence
<1> DEFINE range == ResolvedRange(para.text, previous, claim)
           new == [of |-> p, text |-> TextOf(claim),
                   start |-> para.start + range[1], end |-> para.start + range[2]]
           n == Len(sentences)
<1>2. /\ range # Null /\ sentences' = Append(sentences, new)
      /\ InParagraph(para, para.start + range[1], para.start + range[2])
  BY <1>1
<1>3. /\ source' = source /\ phase' = phase /\ paragraphs' = paragraphs /\ chunks' = chunks
      /\ edits' = edits /\ p \in DOMAIN paragraphs
      /\ \A u \in ToSet(sentences) : u.of <= p
  BY DEF TakeSentence
<1>4. /\ sentences \in Seq(SentenceRow) /\ n \in Nat /\ DOMAIN sentences = 1 .. n
      /\ paragraphs \in Seq(ParagraphRow) /\ Len(source) \in Nat
  BY <1>0 DEF RoundTripTypeOK, Texts
<1>5. para \in ParagraphRow
  BY <1>3, <1>4
<1>6. para.text \in Texts /\ para.start \in Nat /\ para.end \in Nat /\ para.end <= Len(source) /\ p \in Nat
  <2>1. para.text \in Texts /\ para.start \in Nat /\ para.end \in 1 .. Len(source)
    BY <1>5 DEF ParagraphRow
  <2>2. p \in Nat
    OBVIOUS
  <2> QED
    BY <2>1, <2>2, <1>4
<1>7. \A k \in DOMAIN sentences :
        /\ sentences[k].of \in Nat /\ sentences[k].of <= p /\ sentences[k].of \in DOMAIN paragraphs
        /\ sentences[k].start \in Nat /\ sentences[k].end \in Nat
  <2> TAKE k \in DOMAIN sentences
  <2>1. sentences[k] \in SentenceRow /\ sentences[k] \in ToSet(sentences)
    BY <1>4 DEF ToSet
  <2>2. /\ sentences[k].start \in Nat /\ sentences[k].end \in 1 .. Len(source)
        /\ sentences[k].of \in DOMAIN paragraphs
    BY <2>1 DEF SentenceRow
  <2>3. DOMAIN paragraphs = 1 .. Len(paragraphs) /\ Len(paragraphs) \in Nat
    BY <1>4
  <2> QED
    BY <2>1, <2>2, <2>3, <1>3, <1>4
<1>8. /\ previous \in Nat
      /\ \A k \in DOMAIN sentences : sentences[k].end <= para.start + previous
  <2>1. CASE own = {}
    <3>1. previous = 0
      BY <2>1
    <3>2. ASSUME NEW k \in DOMAIN sentences PROVE sentences[k].end <= para.start
      <4> DEFINE q == sentences[k].of
      <4>1. q \in DOMAIN paragraphs /\ q < p
        BY <2>1, <1>6, <1>7
      <4>2. InParagraph(paragraphs[q], sentences[k].start, sentences[k].end)
        BY <1>0 DEF SentencesPlaced
      <4>3. sentences[k].end <= paragraphs[q].end
        BY <4>2 DEF InParagraph
      <4>4. paragraphs[q].end <= para.start
        BY <4>1, <1>0, <1>3 DEF ParagraphsPlaced
      <4>5. paragraphs[q] \in ParagraphRow
        BY <4>1, <1>4
      <4>6. paragraphs[q].end \in 1 .. Len(source)
        BY <4>5 DEF ParagraphRow
      <4> QED
        BY <4>3, <4>4, <4>6, <1>4, <1>6, <1>7, SMTT(30)
    <3> QED
      BY <3>1, <3>2, <1>6
  <2>2. CASE own # {}
    <3>1. PICK k \in DOMAIN sentences : sentences[k].of = p
      BY <2>2
    <3>2. /\ p <= Last(sentences).of /\ Last(sentences).of \in Nat /\ Last(sentences).end \in Nat
          /\ InParagraph(paragraphs[Last(sentences).of], Last(sentences).start, Last(sentences).end)
      BY <1>0, <3>1, LastSentence
    <3>3. n \in DOMAIN sentences /\ Last(sentences) = sentences[n]
      BY <1>4, <3>1 DEF Last
    <3>4. Last(sentences).of <= p /\ Last(sentences).start \in Nat
      BY <3>3, <1>7
    <3>5. Last(sentences).of = p
      BY <3>2, <3>4, <1>6
    <3>6. InParagraph(para, Last(sentences).start, Last(sentences).end)
      BY <3>2, <3>5
    <3>7. para.start <= Last(sentences).start /\ Last(sentences).start < Last(sentences).end
      BY <3>6, <3>4, <1>6 DEF InParagraph
    <3>8. para.start + previous = Last(sentences).end /\ previous \in Nat
      BY <3>2, <3>4, <3>7, <2>2, <1>6
    <3>9. \A l \in DOMAIN sentences : sentences[l].end <= Last(sentences).end
      BY <1>0, LastSentence
    <3> QED
      BY <3>8, <3>9
  <2> QED
    BY <2>1, <2>2
<1> HIDE DEF previous, own
<1>9. range \in RangesFrom(para.text, previous)
  BY <1>2, <1>6, <1>8, ResolvedIs
<1>10. /\ range[1] \in Nat /\ range[2] \in Nat
       /\ previous <= range[1] /\ range[1] < range[2]
  BY <1>6, <1>8, <1>9, RangesFromIn
<1>11. TextOf(claim) \in Texts
  BY <1>6, ClaimIs
<1> HIDE DEF range, para
<1>12. /\ para.start + range[1] \in Nat /\ para.start + range[2] \in Nat
       /\ para.start + range[2] <= para.end /\ para.start + previous <= para.start + range[1]
  <2>1. para.start + range[2] <= para.end
    BY <1>2 DEF InParagraph
  <2>2. /\ para.start \in Nat /\ previous \in Nat /\ range[1] \in Nat /\ range[2] \in Nat
        /\ previous <= range[1]
    BY <1>6, <1>8, <1>10
  <2> QED
    BY <2>1, <2>2
<1>13. para.start + range[2] \in 1 .. Len(source)
  <2>1. /\ para.start \in Nat /\ range[1] \in Nat /\ range[2] \in Nat /\ range[1] < range[2]
        /\ para.end \in Nat /\ Len(source) \in Nat
        /\ para.start + range[2] <= para.end /\ para.end <= Len(source)
    BY <1>4, <1>6, <1>10, <1>12
  <2>2. para.start + range[2] \in Nat /\ para.start + range[2] <= Len(source)
    BY ONLY <2>1
  <2>3. 1 <= para.start + range[2]
    BY ONLY <2>1
  <2> QED
    BY <2>1, <2>2, <2>3
<1>14. new \in SentenceRow
  BY <1>3, <1>11, <1>12, <1>13 DEF SentenceRow
<1>15. new.of = p /\ new.start = para.start + range[1] /\ new.end = para.start + range[2]
  OBVIOUS
<1> HIDE DEF new
<1>16. /\ sentences' \in Seq(SentenceRow) /\ DOMAIN sentences' = 1 .. n + 1
       /\ sentences'[n + 1] = new
       /\ \A k \in DOMAIN sentences : sentences'[k] = sentences[k]
  BY <1>2, <1>4, <1>14, AppendIs
<1>17. \A k \in DOMAIN sentences' : k \in DOMAIN sentences \/ k = n + 1
  BY <1>4, <1>16
<1>18. ParagraphRow' = ParagraphRow /\ SentenceRow' = SentenceRow /\ ChunkRow' = ChunkRow
  BY <1>3 DEF ParagraphRow, SentenceRow, ChunkRow
<1>19. RoundTripTypeOK'
  BY <1>0, <1>3, <1>16, <1>18 DEF RoundTripTypeOK
<1>20. ParagraphsPlaced'
  BY <1>0, <1>3 DEF ParagraphsPlaced
<1>21. SentencesPlaced'
  <2>1. ASSUME NEW k \in DOMAIN sentences'
        PROVE  InParagraph(paragraphs'[sentences'[k].of], sentences'[k].start, sentences'[k].end)
    <3>1. CASE k \in DOMAIN sentences
      BY <3>1, <1>0, <1>3, <1>16 DEF SentencesPlaced
    <3>2. CASE k = n + 1
      BY <3>2, <1>2, <1>3, <1>15, <1>16 DEF para
    <3> QED
      BY <3>1, <3>2, <1>17
  <2>2. ASSUME NEW k \in DOMAIN sentences', NEW l \in DOMAIN sentences', k < l
        PROVE  sentences'[k].of <= sentences'[l].of /\ sentences'[k].end <= sentences'[l].start
    <3>1. k \in DOMAIN sentences
      BY <2>2, <1>4, <1>16
    <3>2. CASE l \in DOMAIN sentences
      BY <3>1, <3>2, <2>2, <1>0, <1>16 DEF SentencesPlaced
    <3>3. CASE l = n + 1
      <4>1. sentences'[k] = sentences[k] /\ sentences'[l] = new
        BY <3>1, <3>3, <1>16
      <4>2. /\ sentences[k].of <= p /\ sentences[k].end <= para.start + previous
            /\ sentences[k].end \in Nat
        BY <3>1, <1>7, <1>8
      <4>3. sentences[k].end <= para.start + range[1]
        BY <4>2, <1>6, <1>8, <1>12
      <4> QED
        BY <4>1, <4>2, <4>3, <1>15
    <3> QED
      BY <3>2, <3>3, <1>17
  <2> QED
    BY <2>1, <2>2 DEF SentencesPlaced
<1> QED
  BY <1>0, <1>3, <1>19, <1>20, <1>21 DEF RoundTripInv

-----------------------------------------------------------------------------
(* The pieces of a publication tile the source.                             *)

\* What a placed sentence looks like.
LEMMA SentenceIs ==
  ASSUME RoundTripTypeOK, NEW u \in SentenceRow
  PROVE  /\ u.text \in Texts /\ u.of \in DOMAIN paragraphs /\ u.start \in Nat /\ u.end \in Nat
         /\ u.end <= Len(source) /\ Len(source) \in Nat /\ source \in Texts
         /\ [u EXCEPT !.of = u.of] = u
<1>1. source \in Texts /\ Len(source) \in Nat
  BY DEF RoundTripTypeOK, Texts
<1>2. /\ u.text \in Texts /\ u.of \in DOMAIN paragraphs /\ u.start \in Nat /\ u.end \in 1 .. Len(source)
      /\ [u EXCEPT !.of = u.of] = u
  BY DEF SentenceRow
<1> QED
  BY <1>1, <1>2

\* The sentences of the paragraphs, paragraph by paragraph.
LEMMA UnitsType ==
  ASSUME RoundTripInv, phase = "sentences",
         \A p \in DOMAIN paragraphs : \E u \in ToSet(sentences) : u.of = p
  PROVE  Units \in Seq(SentenceRow) /\ Units # <<>>
<1>1. /\ RoundTripTypeOK /\ SentencesPlaced /\ paragraphs # <<>>
      /\ sentences \in Seq(SentenceRow) /\ paragraphs \in Seq(ParagraphRow)
  BY DEF RoundTripInv, RoundTripTypeOK
<1> DEFINE own(p) == SentencesOf(p)
           part(p) == [k \in DOMAIN own(p) |-> [own(p)[k] EXCEPT !.of = p]]
           parts == [p \in DOMAIN paragraphs |-> part(p)]
           n == Len(paragraphs)
<1>2. n \in Nat /\ DOMAIN paragraphs = 1 .. n /\ 1 \in DOMAIN paragraphs
  BY <1>1
<1>3. ASSUME NEW p \in DOMAIN paragraphs
      PROVE  part(p) \in Seq(SentenceRow) /\ part(p) # <<>>
  <2> DEFINE para == paragraphs[p]
             starting == {k \in DOMAIN sentences :
                     sentences[k].start >= para.start /\ sentences[k].start < para.end}
             overlapping == {k \in DOMAIN sentences :
                        sentences[k].end > para.start /\ sentences[k].start < para.end}
             S == IF starting # {} THEN starting ELSE overlapping
  <2>1. S \in SUBSET DOMAIN sentences
    OBVIOUS
  <2>2. own(p) = Picked(sentences, S)
    BY DEF SentencesOf
  <2>3. PICK k \in DOMAIN sentences : sentences[k].of = p
    BY <1>3 DEF ToSet
  <2>4. sentences[k] \in SentenceRow
    BY <2>3, <1>1
  <2>5. sentences[k].start \in Nat /\ sentences[k].end \in Nat
    BY <1>1, <2>4, SentenceIs
  <2>6. InParagraph(paragraphs[p], sentences[k].start, sentences[k].end)
    BY <1>1, <2>3 DEF SentencesPlaced
  <2>7. paragraphs[p] \in ParagraphRow
    BY <1>1
  <2>8. paragraphs[p].start \in Nat /\ paragraphs[p].end \in Int
    <3>1. paragraphs[p].start \in Nat /\ paragraphs[p].end \in 1 .. Len(source)
      BY <2>7 DEF ParagraphRow
    <3> QED
      BY <3>1
  <2>9. sentences[k].start >= paragraphs[p].start /\ sentences[k].start < paragraphs[p].end
    BY <2>5, <2>6, <2>8 DEF InParagraph
  <2>10. S # {}
    BY <2>3, <2>9
  <2> HIDE DEF S
  <2>11. own(p) \in Seq(SentenceRow)
    BY <1>1, <2>1, <2>2, PickedType
  <2>12. own(p) # <<>>
    BY <1>1, <2>1, <2>2, <2>10, PickedSome
  <2> HIDE DEF own
  <2>13. \A i \in DOMAIN own(p) : [own(p)[i] EXCEPT !.of = p] \in SentenceRow
    <3> TAKE i \in DOMAIN own(p)
    <3>1. own(p)[i] \in SentenceRow
      BY <2>11
    <3> QED
      BY <3>1, <1>3 DEF SentenceRow
  <2>14. /\ Len(own(p)) \in Nat /\ Len(own(p)) # 0 /\ DOMAIN own(p) = 1 .. Len(own(p))
    BY <2>11, <2>12
  <2>15. part(p) \in [1 .. Len(own(p)) -> SentenceRow]
    BY <2>13, <2>14
  <2>16. part(p) \in Seq(SentenceRow)
    BY <2>14, <2>15
  <2>17. DOMAIN part(p) = 1 .. Len(own(p)) /\ 1 \in 1 .. Len(own(p))
    BY <2>14
  <2> HIDE DEF part
  <2> QED
    BY <2>16, <2>17
<1> HIDE DEF part
<1>4. parts \in Seq(Seq(SentenceRow))
  <2>1. parts \in [1 .. n -> Seq(SentenceRow)]
    BY <1>2, <1>3
  <2> QED
    BY <1>2, <2>1
<1>5. \E i \in DOMAIN parts : parts[i] # <<>>
  BY <1>2, <1>3
<1>6. Units = FlattenSeq(parts)
  BY DEF Units, part, own
<1> HIDE DEF parts
<1> QED
  BY <1>4, <1>5, <1>6, FlattenType

\* What is derived for a chunk, and its text.
LEMMA PieceType ==
  ASSUME RoundTripTypeOK, NEW units \in Seq(SentenceRow), NEW k \in DOMAIN units
  PROVE  /\ Piece(units, k) \in PieceRow /\ Piece(units, k) # Null
         /\ Slice(source, units[k].start, units[k].end) \in Texts
         /\ Slice(source, units[k].end, Len(source)) \in Texts
         /\ units[k].text \in Texts /\ units[k].of \in DOMAIN paragraphs
<1> USE RoundTripAssumption
<1>1. units[k] \in SentenceRow
  OBVIOUS
<1>2. /\ units[k].text \in Texts /\ units[k].of \in DOMAIN paragraphs
      /\ units[k].start \in Nat /\ units[k].end \in Nat
      /\ Len(source) \in Nat /\ source \in Texts
  BY <1>1, SentenceIs
<1> DEFINE from == IF k = 1 THEN 0 ELSE units[k - 1].end
<1>3. from \in Nat
  <2>1. CASE k = 1
    BY <2>1
  <2>2. CASE k # 1
    <3>1. k - 1 \in DOMAIN units
      BY <2>2
    <3>2. units[k - 1] \in SentenceRow
      BY <3>1
    <3>3. units[k - 1].end \in Nat
      BY <3>2, SentenceIs
    <3> QED
      BY <3>3, <2>2
  <2> QED
    BY <2>1, <2>2
<1>4. source \in Seq(Characters)
  BY <1>2 DEF Texts
<1> HIDE DEF from
<1>5. /\ Slice(source, from, units[k].start) \in Texts
      /\ Slice(source, units[k].start, units[k].end) \in Texts
      /\ Slice(source, units[k].end, Len(source)) \in Texts
  BY <1>2, <1>3, <1>4, SliceType DEF Texts
<1>6. Piece(units, k) =
        [gap |-> Slice(source, from, units[k].start),
         override |-> IF Slice(source, units[k].start, units[k].end) = units[k].text THEN Null
                      ELSE Slice(source, units[k].start, units[k].end),
         suffix |-> IF k = Len(units) THEN Slice(source, units[k].end, Len(source)) ELSE Null]
  BY DEF Piece, from
<1>7. Piece(units, k) \in PieceRow
  BY <1>5, <1>6 DEF PieceRow
<1> QED
  BY <1>2, <1>5, <1>7

\* The rows that are written.
LEMMA RowsType ==
  ASSUME RoundTripTypeOK, NEW units \in Seq(SentenceRow), NEW exact \in BOOLEAN
  PROVE  Rows(units, exact) \in Seq(ChunkRow)
<1> DEFINE row(k) ==
     LET piece == IF exact THEN Piece(units, k) ELSE Null
     IN  [of |-> units[k].of, text |-> units[k].text, piece |-> piece, live |-> TRUE,
          versions |-> {<<units[k].text, Null>>}]
<1>1. ASSUME NEW k \in DOMAIN units PROVE row(k) \in ChunkRow
  <2>1. Piece(units, k) \in PieceRow /\ units[k].text \in Texts /\ units[k].of \in DOMAIN paragraphs
    BY PieceType
  <2>2. {<<units[k].text, Null>>} \in SUBSET (Texts \X (PieceRow \cup {Null}))
    BY <2>1
  <2>3. (IF exact THEN Piece(units, k) ELSE Null) \in PieceRow \cup {Null}
    BY <2>1
  <2> QED
    BY <2>1, <2>2, <2>3 DEF ChunkRow
<1> HIDE DEF row
<1>2. Len(units) \in Nat /\ DOMAIN units = 1 .. Len(units)
  OBVIOUS
<1>3. [k \in DOMAIN units |-> row(k)] \in [1 .. Len(units) -> ChunkRow]
  BY <1>1, <1>2
<1>4. Rows(units, exact) = [k \in DOMAIN units |-> row(k)]
  BY DEF Rows, row
<1> QED
  BY <1>2, <1>3, <1>4

\* What is read back of an exact publication is the source.
LEMMA RowsTile ==
  ASSUME RoundTripTypeOK, NEW units \in Seq(SentenceRow), units # <<>>, Monotonic(units)
  PROVE  ScopeText(Rows(units, TRUE)) = source
<1> USE RoundTripAssumption
<1> DEFINE n == Len(units)
           visible == Rows(units, TRUE)
           start(k) == units[k].start
           end(k) == units[k].end
           from(k) == IF k = 1 THEN 0 ELSE units[k - 1].end
<1>1. n \in Nat \ {0} /\ DOMAIN units = 1 .. n /\ n \in DOMAIN units
  OBVIOUS
<1>2. \A k \in DOMAIN units : /\ start(k) \in Nat /\ end(k) \in Nat /\ end(k) <= Len(source)
                              /\ Len(source) \in Nat /\ source \in Texts
  <2> TAKE k \in DOMAIN units
  <2>1. units[k] \in SentenceRow
    OBVIOUS
  <2> QED
    BY <2>1, SentenceIs
<1>3. Len(source) \in Nat /\ source \in Seq(Characters)
  BY <1>1, <1>2 DEF Texts
<1>4. \A k \in 1 .. n : from(k) \in Nat /\ from(k) <= start(k) /\ start(k) <= end(k)
  <2> TAKE k \in 1 .. n
  <2>1. start(k) < end(k) /\ (k > 1 => units[k - 1].end <= start(k))
    BY <1>1 DEF Monotonic
  <2>2. CASE k = 1
    BY <2>1, <2>2, <1>1, <1>2
  <2>3. CASE k # 1
    <3>1. k - 1 \in DOMAIN units /\ k > 1
      BY <1>1, <2>3
    <3>2. end(k - 1) \in Nat
      BY <3>1, <1>2
    <3> QED
      BY <2>1, <2>3, <3>1, <3>2, <1>1, <1>2
  <2> QED
    BY <2>2, <2>3
<1>5. DOMAIN visible = 1 .. n /\ Len(visible) = n
  BY <1>1 DEF Rows
<1>6. \A k \in 1 .. n : visible[k].piece = Piece(units, k) /\ visible[k].text = units[k].text
  BY <1>1 DEF Rows
<1>7. \A k \in 1 .. n :
        /\ visible[k].piece # Null
        /\ visible[k].piece.gap = Slice(source, from(k), start(k))
        /\ Payload(visible[k]) = Slice(source, start(k), end(k))
        /\ visible[k].piece.suffix = IF k = n THEN Slice(source, end(k), Len(source)) ELSE Null
        /\ Slice(source, end(k), Len(source)) # Null
  <2> TAKE k \in 1 .. n
  <2>1. /\ Piece(units, k) # Null /\ Slice(source, start(k), end(k)) \in Texts
        /\ Slice(source, end(k), Len(source)) \in Texts
    BY <1>1, PieceType
  <2>2. /\ Piece(units, k).gap = Slice(source, from(k), start(k))
        /\ Piece(units, k).override = IF Slice(source, start(k), end(k)) = units[k].text THEN Null
                                      ELSE Slice(source, start(k), end(k))
        /\ Piece(units, k).suffix = IF k = n THEN Slice(source, end(k), Len(source)) ELSE Null
    BY DEF Piece
  <2>3. Payload(visible[k]) = Slice(source, start(k), end(k))
    BY <1>6, <2>1, <2>2 DEF Payload
  <2> QED
    BY <1>6, <2>1, <2>2, <2>3
<1> HIDE DEF visible
<1>8. Exact(visible) = DOMAIN visible /\ Exact(visible) # {}
  <2>1. \A k \in DOMAIN visible : visible[k].piece # Null
    BY <1>5, <1>7
  <2>2. 1 \in DOMAIN visible
    BY <1>1, <1>5
  <2> QED
    BY ONLY <2>1, <2>2 DEF Exact
<1>9. Suffixed(visible) = {n}
  BY <1>1, <1>5, <1>7, <1>8, ZenonT(60) DEF Suffixed
<1>10. ~ScopeRaises(visible)
  BY <1>5, <1>8, <1>9 DEF ScopeRaises
<1>11. Suffix(visible) = Slice(source, end(n), Len(source))
  <2>1. Last(visible) = visible[n]
    BY <1>5 DEF Last
  <2> QED
    BY <1>1, <1>7, <1>8, <2>1 DEF Suffix
<1> DEFINE parts == [k \in DOMAIN visible |-> visible[k].piece.gap \o Payload(visible[k])]
           e == [k \in 1 .. n |-> end(k)]
<1>12. ScopeText(visible) = FlattenSeq(parts) \o Suffix(visible)
  <2> DEFINE separator(k) == IF visible[k].piece # Null THEN visible[k].piece.gap
                      ELSE IF k = 1 THEN <<>>
                      ELSE IF visible[k].of = visible[k - 1].of THEN <<Blank>> ELSE <<Blank, Blank>>
             given == [k \in DOMAIN visible |-> separator(k) \o Payload(visible[k])]
  <2>1. ScopeText(visible) = FlattenSeq(given) \o Suffix(visible)
    BY <1>10 DEF ScopeText
  <2>2. \A k \in DOMAIN visible : separator(k) = visible[k].piece.gap
    BY <1>5, <1>7
  <2> HIDE DEF separator
  <2>3. given = parts
    BY <2>2
  <2> QED
    BY <2>1, <2>3
<1>13. Len(parts) = n /\ DOMAIN parts = 1 .. n
  BY <1>1, <1>5
<1>14. \A k \in 1 .. n : parts[k] = Slice(source, from(k), end(k))
  <2> TAKE k \in 1 .. n
  <2>1. parts[k] = Slice(source, from(k), start(k)) \o Slice(source, start(k), end(k))
    BY <1>5, <1>7
  <2>2. end(k) \in 0 .. Len(source) /\ start(k) \in 0 .. end(k) /\ from(k) \in 0 .. start(k)
    BY <1>1, <1>2, <1>4, SMTT(30)
  <2> HIDE DEF parts, start, end, from
  <2> QED
    BY <1>3, <2>1, <2>2, SliceJoin
<1>15. e \in [1 .. n -> 0 .. Len(source)]
  BY <1>1, <1>2
<1>16. \A k \in 1 .. n : e[k] = end(k)
  OBVIOUS
<1>17. \A k \in 2 .. n : e[k - 1] <= e[k]
  <2> TAKE k \in 2 .. n
  <2>1. k \in 1 .. n /\ k # 1 /\ k - 1 \in 1 .. n
    BY <1>1
  <2>2. from(k) <= start(k) /\ start(k) <= end(k) /\ from(k) = end(k - 1)
    BY <1>4, <2>1
  <2>3. end(k - 1) \in Nat /\ start(k) \in Nat /\ end(k) \in Nat
    BY <1>1, <1>2, <2>1
  <2> HIDE DEF from, start, end, e
  <2>4. end(k - 1) <= end(k)
    BY <2>2, <2>3
  <2> QED
    BY <2>1, <2>4, <1>16
<1>18. \A k \in 1 .. n : parts[k] = Slice(source, IF k = 1 THEN 0 ELSE e[k - 1], e[k])
  <2> TAKE k \in 1 .. n
  <2>1. from(k) = IF k = 1 THEN 0 ELSE e[k - 1]
    <3>1. k = 1 \/ k - 1 \in 1 .. n
      BY <1>1
    <3> QED
      BY <3>1
  <2> HIDE DEF parts, e, from
  <2> QED
    BY <2>1, <1>14, <1>16
<1> HIDE DEF parts, e
<1>19. FlattenSeq(parts) = Slice(source, 0, e[n])
  <2>1. /\ source \in Seq(Characters) /\ n \in Nat \ {0} /\ Len(parts) = n
        /\ e \in [1 .. n -> 0 .. Len(source)]
        /\ \A k \in 2 .. n : e[k - 1] <= e[k]
        /\ \A k \in 1 .. n : parts[k] = Slice(source, IF k = 1 THEN 0 ELSE e[k - 1], e[k])
    BY <1>1, <1>3, <1>13, <1>15, <1>17, <1>18
  <2> HIDE DEF n
  <2> QED
    BY ONLY <2>1, FlattenTiles, ZenonT(60)
<1>20. e[n] = end(n) /\ end(n) \in 0 .. Len(source) /\ 0 \in 0 .. end(n)
  BY <1>1, <1>2, <1>16
<1>21. ScopeText(visible) = Slice(source, 0, end(n)) \o Slice(source, end(n), Len(source))
  BY <1>11, <1>12, <1>19, <1>20
<1>22. Slice(source, 0, end(n)) \o Slice(source, end(n), Len(source)) = Slice(source, 0, Len(source))
  <2>1. Len(source) \in 0 .. Len(source)
    BY <1>3
  <2> HIDE DEF end, n
  <2> QED
    BY <2>1, <1>3, <1>20, SliceJoin
<1>23. Slice(source, 0, Len(source)) = source
  BY <1>3, SliceWhole
<1> QED
  BY <1>21, <1>22, <1>23 DEF visible

\* The rows are written, compared and accepted.
LEMMA PublishInv ==
  ASSUME RoundTripInv, NEW exact \in BOOLEAN, Publish(exact)
  PROVE  RoundTripInv'
<1>1. /\ phase = "sentences" /\ Monotonic(Units) /\ chunks' = Rows(Units, exact)
      /\ phase' = IF exact /\ Verdict(source, ScopeText(chunks')).outcome # "match" THEN "refused" ELSE "stored"
      /\ UNCHANGED <<source, paragraphs, sentences>> /\ edits' = edits
      /\ \A p \in DOMAIN paragraphs : \E u \in ToSet(sentences) : u.of = p
  BY DEF Publish
<1>2. RoundTripTypeOK /\ paragraphs # <<>> /\ edits \in 0 .. MaxEdits
  BY <1>1 DEF RoundTripInv, RoundTripTypeOK
<1>3. Units \in Seq(SentenceRow) /\ Units # <<>>
  BY <1>1, UnitsType
<1>4. chunks' \in Seq(ChunkRow)
  BY <1>1, <1>2, <1>3, RowsType
<1>5. phase' = "stored"
  <2>1. CASE exact = TRUE
    <3>1. ScopeText(chunks') = source
      BY <1>1, <1>2, <1>3, <2>1, RowsTile
    <3>2. Verdict(source, source).outcome = "match"
      BY DEF Verdict
    <3> QED
      BY <1>1, <3>1, <3>2
  <2>2. CASE exact = FALSE
    BY <1>1, <2>2
  <2> QED
    BY <2>1, <2>2
<1> QED
  BY <1>1, <1>2, <1>4, <1>5, SameHierarchy

\* What a stored chunk is.
LEMMA ChunkIs ==
  ASSUME RoundTripTypeOK, NEW k \in DOMAIN chunks
  PROVE  /\ chunks \in Seq(ChunkRow) /\ chunks[k] \in ChunkRow
         /\ chunks[k].of \in DOMAIN paragraphs /\ chunks[k].text \in Texts /\ chunks[k].live \in BOOLEAN
         /\ chunks[k].piece \in PieceRow \cup {Null}
         /\ chunks[k].versions \in SUBSET (Texts \X (PieceRow \cup {Null}))
<1>1. chunks \in Seq(ChunkRow)
  BY DEF RoundTripTypeOK
<1>2. chunks[k] \in ChunkRow
  BY <1>1
<1> QED
  BY <1>1, <1>2 DEF ChunkRow

\* One chunk is changed, its paragraph is not.
LEMMA ChangedChunk ==
  ASSUME RoundTripInv, phase = "stored", Edit, UNCHANGED <<source, phase, paragraphs, sentences>>,
         NEW k \in DOMAIN chunks, NEW row \in ChunkRow, chunks' = [chunks EXCEPT ![k] = row]
  PROVE  RoundTripInv'
<1> USE RoundTripAssumption
<1>1. RoundTripTypeOK /\ paragraphs # <<>>
  BY DEF RoundTripInv
<1>2. chunks' \in Seq(ChunkRow)
  <2>1. chunks \in Seq(ChunkRow)
    BY <1>1, ChunkIs
  <2> QED
    BY <2>1
<1>3. edits' \in 0 .. MaxEdits
  <2>1. edits \in 0 .. MaxEdits /\ edits < MaxEdits /\ edits' = edits + 1 /\ MaxEdits \in Nat
    BY <1>1 DEF RoundTripTypeOK, Edit
  <2> QED
    BY ONLY <2>1
<1> QED
  BY <1>1, <1>2, <1>3, SameHierarchy

\* A version is appended, of new text or of an earlier version's.
LEMMA NewVersionInv ==
  ASSUME RoundTripInv, NEW k \in DOMAIN chunks, NEW text \in Texts, NewVersion(k, text)
  PROVE  RoundTripInv'
<1> DEFINE row == [chunks[k] EXCEPT !.text = text, !.piece = Null,
                                    !.versions = chunks[k].versions \cup {<<text, Null>>}]
<1>1. RoundTripTypeOK
  BY DEF RoundTripInv
<1>2. text \in Texts
  OBVIOUS
<1>3. /\ chunks \in Seq(ChunkRow) /\ chunks[k] \in ChunkRow
      /\ chunks[k].versions \in SUBSET (Texts \X (PieceRow \cup {Null}))
  BY <1>1, ChunkIs
<1>4. chunks[k].versions \cup {<<text, Null>>} \in SUBSET (Texts \X (PieceRow \cup {Null}))
  BY <1>2, <1>3
<1>5. row \in ChunkRow
  BY <1>2, <1>3, <1>4 DEF ChunkRow
<1>6. chunks' = [chunks EXCEPT ![k] = row]
  BY <1>3 DEF NewVersion, ChunkRow
<1>7. Edit /\ phase = "stored" /\ UNCHANGED <<source, phase, paragraphs, sentences>>
  BY DEF NewVersion, Edit
<1> HIDE DEF row
<1> QED
  BY <1>5, <1>6, <1>7, ChangedChunk

\* The text of a chunk is updated.
LEMMA EntityUpdateInv ==
  ASSUME RoundTripInv, NEW k \in DOMAIN chunks, NEW text \in EditedTexts, EntityUpdate(k, text)
  PROVE  RoundTripInv'
<1> DEFINE versions == chunks[k].versions \cup {<<text, chunks[k].piece>>}
           row == [chunks[k] EXCEPT !.text = text, !.versions = versions]
<1>1. RoundTripTypeOK
  BY DEF RoundTripInv
<1>2. text \in Texts
  BY RoundTripAssumption
<1>3. /\ chunks \in Seq(ChunkRow) /\ chunks[k] \in ChunkRow /\ chunks[k].piece \in PieceRow \cup {Null}
      /\ chunks[k].versions \in SUBSET (Texts \X (PieceRow \cup {Null}))
  BY <1>1, ChunkIs
<1>4. versions \in SUBSET (Texts \X (PieceRow \cup {Null}))
  BY <1>2, <1>3
<1>5. chunks' = [chunks EXCEPT ![k] = row]
  BY <1>3 DEF EntityUpdate, ChunkRow
<1> HIDE DEF versions
<1>6. row \in ChunkRow
  BY <1>2, <1>3, <1>4 DEF ChunkRow
<1>7. Edit /\ phase = "stored" /\ UNCHANGED <<source, phase, paragraphs, sentences>>
  BY DEF EntityUpdate, Edit
<1> HIDE DEF row
<1> QED
  BY <1>5, <1>6, <1>7, ChangedChunk

\* An earlier version becomes current.
LEMMA SelectVersionInv ==
  ASSUME RoundTripInv, NEW k \in DOMAIN chunks, NEW version \in chunks[k].versions,
         SelectVersion(k, version)
  PROVE  RoundTripInv'
<1> DEFINE row == [chunks[k] EXCEPT !.text = version[1], !.piece = version[2]]
<1>1. RoundTripTypeOK
  BY DEF RoundTripInv
<1>2. /\ chunks \in Seq(ChunkRow) /\ chunks[k] \in ChunkRow
      /\ chunks[k].versions \in SUBSET (Texts \X (PieceRow \cup {Null}))
  BY <1>1, ChunkIs
<1>3. version \in Texts \X (PieceRow \cup {Null})
  BY <1>2
<1>4. version[1] \in Texts /\ version[2] \in PieceRow \cup {Null}
  BY <1>3
<1>5. row \in ChunkRow
  BY <1>2, <1>4 DEF ChunkRow
<1>6. chunks' = [chunks EXCEPT ![k] = row]
  BY <1>2 DEF SelectVersion, ChunkRow
<1>7. Edit /\ phase = "stored" /\ UNCHANGED <<source, phase, paragraphs, sentences>>
  BY DEF SelectVersion, Edit
<1> HIDE DEF row
<1> QED
  BY <1>5, <1>6, <1>7, ChangedChunk

\* A chunk is hidden or shown.
LEMMA SetVisibleInv ==
  ASSUME RoundTripInv, NEW k \in DOMAIN chunks, SetVisible(k)
  PROVE  RoundTripInv'
<1> DEFINE row == [chunks[k] EXCEPT !.live = ~chunks[k].live]
<1>1. RoundTripTypeOK
  BY DEF RoundTripInv
<1>2. chunks \in Seq(ChunkRow) /\ chunks[k] \in ChunkRow
  BY <1>1, ChunkIs
<1>3. row \in ChunkRow
  BY <1>2 DEF ChunkRow
<1>4. chunks' = [chunks EXCEPT ![k] = row]
  BY <1>2 DEF SetVisible, ChunkRow
<1>5. Edit /\ phase = "stored" /\ UNCHANGED <<source, phase, paragraphs, sentences>>
  BY DEF SetVisible, Edit
<1> HIDE DEF row
<1> QED
  BY <1>3, <1>4, <1>5, ChangedChunk

\* White space is a character.
LEMMA BlankIsCharacter == Blank \in Characters
  BY DEF Characters

\* The text of the paragraphs, joined.
LEMMA StoredSourceIs ==
  ASSUME RoundTripTypeOK
  PROVE  /\ StoredSource \in Texts
         /\ [p \in DOMAIN paragraphs |-> (IF p = 1 THEN <<>> ELSE <<Blank, Blank>>) \o paragraphs[p].text]
              \in Seq(Seq(Characters))
<1> DEFINE separator(p) == IF p = 1 THEN <<>> ELSE <<Blank, Blank>>
           parts == [p \in DOMAIN paragraphs |-> separator(p) \o paragraphs[p].text]
           n == Len(paragraphs)
<1>1. paragraphs \in Seq(ParagraphRow) /\ n \in Nat /\ DOMAIN paragraphs = 1 .. n
  BY DEF RoundTripTypeOK
<1>2. \A p \in DOMAIN paragraphs : separator(p) \o paragraphs[p].text \in Seq(Characters)
  <2> TAKE p \in DOMAIN paragraphs
  <2>1. paragraphs[p] \in ParagraphRow
    BY <1>1
  <2>2. paragraphs[p].text \in Seq(Characters)
    BY <2>1 DEF ParagraphRow, Texts
  <2>3. Blank \in Characters
    BY BlankIsCharacter
  <2>4. separator(p) \in Seq(Characters)
    BY <2>3
  <2> HIDE DEF separator
  <2> QED
    BY <2>2, <2>4
<1>3. parts \in [1 .. n -> Seq(Characters)]
  BY <1>1, <1>2
<1>4. parts \in Seq(Seq(Characters))
  BY <1>1, <1>3
<1>5. StoredSource = FlattenSeq(parts)
  BY DEF StoredSource
<1> HIDE DEF parts
<1>6. FlattenSeq(parts) \in Seq(Characters)
  BY <1>4, FlattenType
<1> QED
  BY <1>4, <1>5, <1>6 DEF Texts, parts

\* The stored paragraphs become the source.
LEMMA DocumentChunkInv ==
  ASSUME RoundTripInv, DocumentChunk
  PROVE  RoundTripInv'
<1> USE RoundTripAssumption
<1>1. RoundTripTypeOK
  BY DEF RoundTripInv
<1>2. /\ source' = StoredSource /\ phase' = "paragraphs" /\ paragraphs' = <<>> /\ sentences' = <<>>
      /\ chunks' = <<>> /\ edits' = MaxEdits
  BY DEF DocumentChunk
<1>3. source' \in Texts
  BY <1>1, <1>2, StoredSourceIs
<1>4. MaxEdits \in 0 .. MaxEdits
  OBVIOUS
<1>5. <<>> \in Seq(ParagraphRow') /\ <<>> \in Seq(SentenceRow') /\ <<>> \in Seq(ChunkRow')
  OBVIOUS
<1>6. RoundTripTypeOK'
  BY <1>2, <1>3, <1>4, <1>5 DEF RoundTripTypeOK
<1>7. ParagraphsPlaced' /\ SentencesPlaced'
  BY <1>2 DEF ParagraphsPlaced, SentencesPlaced
<1> QED
  BY <1>2, <1>6, <1>7 DEF RoundTripInv

\* Every step keeps the invariant.
LEMMA RoundTripStepInv ==
  ASSUME RoundTripInv, [RoundTripNext]_roundTripVars
  PROVE  RoundTripInv'
<1>1. CASE TakeParagraph
  BY <1>1, TakeParagraphInv
<1>2. CASE EndParagraphs
  <2>1. RoundTripTypeOK
    BY DEF RoundTripInv
  <2>2. /\ UNCHANGED <<source, paragraphs, sentences>> /\ chunks' = chunks /\ edits' = edits
        /\ phase' = "sentences" /\ paragraphs # <<>>
    BY <1>2 DEF EndParagraphs
  <2>3. chunks' \in Seq(ChunkRow) /\ edits' \in 0 .. MaxEdits
    BY <2>1, <2>2 DEF RoundTripTypeOK
  <2> QED
    BY <2>2, <2>3, SameHierarchy
<1>3. ASSUME NEW p \in 1 .. MaxParagraphs, TakeSentence(p) PROVE RoundTripInv'
  BY <1>3, TakeSentenceInv
<1>4. ASSUME NEW exact \in BOOLEAN, Publish(exact) PROVE RoundTripInv'
  BY <1>4, PublishInv
<1>5. ASSUME NEW k \in DOMAIN chunks, NEW text \in EditedTexts,
             AppendVersion(k, text) \/ EntityUpdate(k, text)
      PROVE  RoundTripInv'
  <2>1. text \in Texts
    BY RoundTripAssumption
  <2> QED
    BY <1>5, <2>1, NewVersionInv, EntityUpdateInv DEF AppendVersion
<1>6. ASSUME NEW k \in DOMAIN chunks, NEW version \in chunks[k].versions,
             SelectVersion(k, version) \/ RestoreVersion(k, version)
      PROVE  RoundTripInv'
  <2>1. version[1] \in Texts
    <3>1. chunks[k].versions \in SUBSET (Texts \X (PieceRow \cup {Null}))
      BY ChunkIs DEF RoundTripInv
    <3> QED
      BY <3>1
  <2> QED
    BY <1>6, <2>1, NewVersionInv, SelectVersionInv DEF RestoreVersion
<1>7. ASSUME NEW k \in DOMAIN chunks, SetVisible(k) PROVE RoundTripInv'
  BY <1>7, SetVisibleInv
<1>8. CASE DocumentChunk
  BY <1>8, DocumentChunkInv
<1>9. CASE UNCHANGED roundTripVars
  <2>1. RoundTripTypeOK /\ (phase # "paragraphs" => paragraphs # <<>>)
    BY DEF RoundTripInv
  <2>2. /\ UNCHANGED <<source, paragraphs, sentences>> /\ chunks' = chunks /\ edits' = edits
        /\ phase' = phase
    BY <1>9 DEF roundTripVars
  <2>3. chunks' \in Seq(ChunkRow) /\ edits' \in 0 .. MaxEdits
    BY <2>1, <2>2 DEF RoundTripTypeOK
  <2> QED
    BY <2>1, <2>2, <2>3, SameHierarchy
<1> QED
  BY <1>1, <1>2, <1>3, <1>4, <1>5, <1>6, <1>7, <1>8, <1>9 DEF RoundTripNext

\* The inductive invariant gives what the run checks.
LEMMA RoundTripInvAccepted ==
  ASSUME RoundTripInv
  PROVE  AcceptedInv
<1>1. /\ RoundTripTypeOK /\ phase # "refused" /\ ParagraphsPlaced /\ SentencesPlaced
      /\ paragraphs \in Seq(ParagraphRow) /\ sentences \in Seq(SentenceRow)
  BY DEF RoundTripInv, RoundTripTypeOK
<1>2. ASSUME NEW p \in DOMAIN paragraphs
      PROVE  /\ p > 1 => paragraphs[p - 1].end <= paragraphs[p].start
             /\ Collapsed(Slice(source, paragraphs[p].start, paragraphs[p].end)) = Collapsed(paragraphs[p].text)
  <2>1. p > 1 => p - 1 \in DOMAIN paragraphs /\ p - 1 < p
    BY <1>1
  <2> QED
    BY <1>1, <2>1 DEF ParagraphsPlaced
<1>3. ASSUME NEW k \in DOMAIN sentences
      PROVE  /\ sentences[k].end <= paragraphs[sentences[k].of].end
             /\ k > 1 => sentences[k - 1].end <= sentences[k].start
  <2>1. k > 1 => k - 1 \in DOMAIN sentences /\ k - 1 < k
    BY <1>1
  <2> QED
    BY <1>1, <2>1 DEF SentencesPlaced, InParagraph
<1> QED
  BY <1>1, <1>2, <1>3 DEF AcceptedInv, RangesLocateTheirText, PiecesTileTheSource

\* Whatever the chunking service answers, and whatever is then done to the document:
\* accepted ranges lie in order where their words stand (resolve_source_range,
\* _validate_sentence_chunks), the pieces that are derived from them restore the
\* source (derive_exact_reconstruction), and the comparison refuses no publication.
THEOREM AcceptedAnswersRestoreTheSource == RoundTripSpec => []AcceptedInv
<1>1. RoundTripInv /\ [RoundTripNext]_roundTripVars => RoundTripInv'
  BY RoundTripStepInv
<1>2. RoundTripInv => AcceptedInv
  BY RoundTripInvAccepted
<1> QED
  BY RoundTripInitInv, <1>1, <1>2, PTL DEF RoundTripSpec

\* A rechunk keeps the words.
LEMMA DocumentChunkKeepsWords ==
  ASSUME RoundTripInv, DocumentChunk
  PROVE  NonBlank(source') = NonBlank(FlattenSeq([p \in DOMAIN paragraphs |->
                                      Slice(source, paragraphs[p].start, paragraphs[p].end)]))
<1> DEFINE kept(p) == (IF p = 1 THEN <<>> ELSE <<Blank, Blank>>) \o paragraphs[p].text
           covered(p) == Slice(source, paragraphs[p].start, paragraphs[p].end)
           s == [p \in DOMAIN paragraphs |-> kept(p)]
           t == [p \in DOMAIN paragraphs |-> covered(p)]
           n == Len(paragraphs)
<1>1. /\ RoundTripTypeOK /\ ParagraphsPlaced
      /\ paragraphs \in Seq(ParagraphRow) /\ n \in Nat /\ DOMAIN paragraphs = 1 .. n
      /\ source \in Seq(Characters) /\ Len(source) \in Nat
  BY DEF RoundTripInv, RoundTripTypeOK, Texts
<1>2. source' = FlattenSeq(s)
  BY DEF DocumentChunk, StoredSource
<1>3. s \in Seq(Seq(Characters))
  BY <1>1, StoredSourceIs
<1>4. ASSUME NEW p \in DOMAIN paragraphs
      PROVE  covered(p) \in Seq(Characters) /\ NonBlank(kept(p)) = NonBlank(covered(p))
  <2> DEFINE separator == IF p = 1 THEN <<>> ELSE <<Blank, Blank>>
  <2>1. paragraphs[p] \in ParagraphRow
    BY <1>1
  <2>2. /\ paragraphs[p].text \in Seq(Characters) /\ paragraphs[p].start \in Nat
        /\ paragraphs[p].end \in 1 .. Len(source)
    BY <2>1 DEF ParagraphRow, Texts
  <2>3. paragraphs[p].end \in Nat
    BY <2>2, <1>1
  <2>4. covered(p) \in Seq(Characters)
    BY <1>1, <2>2, <2>3, SliceType
  <2>5. Collapsed(covered(p)) = Collapsed(paragraphs[p].text)
    BY <1>1 DEF ParagraphsPlaced
  <2> HIDE DEF covered
  <2>6. NonBlank(covered(p)) = NonBlank(paragraphs[p].text)
    <3>1. NonBlank(Collapsed(covered(p))) = NonBlank(covered(p))
      BY <2>4, NonBlankCollapsed
    <3>2. NonBlank(Collapsed(paragraphs[p].text)) = NonBlank(paragraphs[p].text)
      BY <2>2, NonBlankCollapsed
    <3> QED
      BY <2>5, <3>1, <3>2
  <2>7. separator \in Seq(Characters)
    BY BlankIsCharacter
  <2>8. NonBlank(separator) = <<>>
    <3>1. Solid(separator) = {}
      BY DEF Solid
    <3> HIDE DEF separator
    <3> QED
      BY <2>7, <3>1, NothingCollapsed
  <2>9. kept(p) = separator \o paragraphs[p].text
    OBVIOUS
  <2> HIDE DEF separator, kept
  <2>10. NonBlank(kept(p)) = NonBlank(separator) \o NonBlank(paragraphs[p].text)
    BY <2>2, <2>7, <2>9, NonBlankConcat
  <2>11. NonBlank(paragraphs[p].text) \in Seq(Characters)
    BY <2>2, NonBlankType
  <2>12. <<>> \o NonBlank(paragraphs[p].text) = NonBlank(paragraphs[p].text)
    BY <2>11
  <2> QED
    BY <2>4, <2>6, <2>8, <2>10, <2>12
<1> HIDE DEF kept, covered
<1>5. t \in [1 .. n -> Seq(Characters)]
  BY <1>1, <1>4
<1>6. t \in Seq(Seq(Characters)) /\ Len(t) = n /\ Len(s) = n
  BY <1>1, <1>5
<1>7. \A i \in 1 .. n : NonBlank(s[i]) = NonBlank(t[i])
  BY <1>1, <1>4
<1> HIDE DEF s, t
<1>8. NonBlank(FlattenSeq(s)) = NonBlank(FlattenSeq(t))
  <2>1. /\ s \in Seq(Seq(Characters)) /\ t \in Seq(Seq(Characters)) /\ Len(s) = Len(t)
        /\ \A i \in 1 .. Len(s) : NonBlank(s[i]) = NonBlank(t[i])
    BY <1>3, <1>6, <1>7
  <2> QED
    BY ONLY <2>1, NonBlankFlatten
<1> QED
  BY <1>2, <1>8 DEF t, covered

\* document_chunk takes the joined texts of the stored paragraphs as its source: no
\* word of any paragraph is lost or moved by it, however the service cleaned them.
THEOREM RechunkLosesNoCoveredWord == RoundTripSpec => RechunkKeepsCoveredText
<1>1. RoundTripInv /\ [RoundTripNext]_roundTripVars => RoundTripInv'
  BY RoundTripStepInv
<1>2. RoundTripInv /\ [RoundTripNext]_roundTripVars =>
        [DocumentChunk =>
           NonBlank(source') = NonBlank(FlattenSeq([p \in DOMAIN paragraphs |->
                                      Slice(source, paragraphs[p].start, paragraphs[p].end)]))]_roundTripVars
  BY DocumentChunkKeepsWords
<1> QED
  BY RoundTripInitInv, <1>1, <1>2, PTL DEF RoundTripSpec, RechunkKeepsCoveredText

-----------------------------------------------------------------------------
(* Where two texts part.                                                    *)

\* A prefix, element by element.
LEMMA PrefixIs ==
  ASSUME NEW T, NEW s \in Seq(T), NEW t \in Seq(T)
  PROVE  IsPrefix(s, t) <=> Len(s) <= Len(t) /\ \A i \in 1 .. Len(s) : s[i] = t[i]
<1>1. Len(s) \in Nat /\ Len(t) \in Nat
  OBVIOUS
<1>2. CASE Len(s) <= Len(t)
  <2>1. /\ SubSeq(s, 1, Len(s)) \in Seq(T) /\ Len(SubSeq(s, 1, Len(s))) = Len(s) - 1 + 1
        /\ \A n \in 1 .. Len(s) - 1 + 1 : SubSeq(s, 1, Len(s))[n] = s[1 + n - 1]
    <3>1. 1 \in 1 .. Len(s) + 1 /\ Len(s) \in 1 - 1 .. Len(s)
      BY <1>1
    <3> QED
      BY <3>1, SubSeqType
  <2>2. /\ SubSeq(t, 1, Len(s)) \in Seq(T) /\ Len(SubSeq(t, 1, Len(s))) = Len(s) - 1 + 1
        /\ \A n \in 1 .. Len(s) - 1 + 1 : SubSeq(t, 1, Len(s))[n] = t[1 + n - 1]
    <3>1. 1 \in 1 .. Len(t) + 1 /\ Len(s) \in 1 - 1 .. Len(t)
      BY <1>1, <1>2
    <3> QED
      BY <3>1, SubSeqType
  <2>3. Len(s) - 1 + 1 = Len(s) /\ \A n \in 1 .. Len(s) : 1 + n - 1 = n
    BY <1>1
  <2> DEFINE u == SubSeq(s, 1, Len(s))
             v == SubSeq(t, 1, Len(s))
  <2>4. /\ u \in Seq(T) /\ v \in Seq(T) /\ Len(u) = Len(s) /\ Len(v) = Len(s)
        /\ \A n \in 1 .. Len(s) : u[n] = s[n] /\ v[n] = t[n]
    BY <2>1, <2>2, <2>3
  <2>5. IsPrefix(s, t) <=> u = v
    BY <1>2 DEF IsPrefix
  <2> HIDE DEF u, v
  <2>6. (\A n \in 1 .. Len(s) : s[n] = t[n]) => u = v
    BY <2>4, SeqEqual
  <2> QED
    BY <1>2, <2>4, <2>5, <2>6
<1>3. CASE ~(Len(s) <= Len(t))
  BY <1>3 DEF IsPrefix
<1> QED
  BY <1>2, <1>3

\* The leading elements that two sequences share.
LEMMA AgreedIs ==
  ASSUME NEW T, NEW a \in Seq(T), NEW b \in Seq(T)
  PROVE  /\ Agreed(a, b) \in Nat /\ Agreed(a, b) <= Len(a) /\ Agreed(a, b) <= Len(b)
         /\ \A i \in 1 .. Agreed(a, b) : a[i] = b[i]
         /\ Agreed(a, b) < Len(a) /\ Agreed(a, b) < Len(b)
              => a[Agreed(a, b) + 1] # b[Agreed(a, b) + 1]
<1>1. Len(a) \in Nat /\ Len(b) \in Nat /\ DOMAIN a = 1 .. Len(a) /\ DOMAIN b = 1 .. Len(b)
  OBVIOUS
<1> DEFINE Same(k) == \A i \in 1 .. k : a[i] = b[i]
           A == {k \in DOMAIN a \cap DOMAIN b : SubSeq(a, 1, k) = SubSeq(b, 1, k)}
           Parted == {k \in Nat : k + 1 \notin 1 .. Len(a) \/ k + 1 \notin 1 .. Len(b) \/ a[k + 1] # b[k + 1]}
<1>2. ASSUME NEW k \in Nat, k <= Len(a), k <= Len(b), 1 <= k
      PROVE  k \in A <=> Same(k)
  <2>1. /\ SubSeq(a, 1, k) \in Seq(T) /\ Len(SubSeq(a, 1, k)) = k - 1 + 1
        /\ \A n \in 1 .. k - 1 + 1 : SubSeq(a, 1, k)[n] = a[1 + n - 1]
    <3>1. 1 \in 1 .. Len(a) + 1 /\ k \in 1 - 1 .. Len(a)
      BY <1>1, <1>2
    <3> QED
      BY <3>1, SubSeqType
  <2>2. /\ SubSeq(b, 1, k) \in Seq(T) /\ Len(SubSeq(b, 1, k)) = k - 1 + 1
        /\ \A n \in 1 .. k - 1 + 1 : SubSeq(b, 1, k)[n] = b[1 + n - 1]
    <3>1. 1 \in 1 .. Len(b) + 1 /\ k \in 1 - 1 .. Len(b)
      BY <1>1, <1>2
    <3> QED
      BY <3>1, SubSeqType
  <2>3. k - 1 + 1 = k /\ \A n \in 1 .. k : 1 + n - 1 = n
    OBVIOUS
  <2> DEFINE u == SubSeq(a, 1, k)
             v == SubSeq(b, 1, k)
  <2>4. /\ u \in Seq(T) /\ v \in Seq(T) /\ Len(u) = k /\ Len(v) = k
        /\ \A n \in 1 .. k : u[n] = a[n] /\ v[n] = b[n]
    BY <2>1, <2>2, <2>3
  <2>5. k \in A <=> u = v
    BY <1>1, <1>2
  <2> HIDE DEF u, v, A
  <2>6. Same(k) => u = v
    BY <2>4, SeqEqual
  <2> QED
    BY <2>4, <2>5, <2>6
<1>3. Parted # {}
  <2>1. Len(a) \in Parted
    BY <1>1
  <2> QED
    BY <2>1
<1>4. PICK n \in Parted : \A k \in Parted : n <= k
  <2>1. Parted \in SUBSET Nat
    OBVIOUS
  <2> HIDE DEF Parted
  <2> QED
    BY <1>3, <2>1, LeastNumber
<1>5. n \in Nat /\ (n + 1 \notin 1 .. Len(a) \/ n + 1 \notin 1 .. Len(b) \/ a[n + 1] # b[n + 1])
  OBVIOUS
<1>6. \A i \in 1 .. n : i <= Len(a) /\ i <= Len(b) /\ a[i] = b[i]
  <2> TAKE i \in 1 .. n
  <2>1. i - 1 \in Nat /\ ~(n <= i - 1) /\ (i - 1) + 1 = i
    BY <1>5
  <2>2. i - 1 \notin Parted
    BY <1>4, <2>1
  <2>3. i \in 1 .. Len(a) /\ i \in 1 .. Len(b) /\ a[i] = b[i]
    BY <2>1, <2>2
  <2> QED
    BY <2>3, <1>1
<1>7. n <= Len(a) /\ n <= Len(b)
  <2>1. CASE n = 0
    BY <2>1, <1>1
  <2>2. CASE n # 0
    <3>1. n \in 1 .. n
      BY <1>5, <2>2
    <3> QED
      BY <1>6, <3>1
  <2> QED
    BY <2>1, <2>2
<1>8. n < Len(a) /\ n < Len(b) => a[n + 1] # b[n + 1]
  BY <1>1, <1>5
<1>9. A = 1 .. n
  <2>1. ASSUME NEW k \in A PROVE k \in 1 .. n
    <3>1. k \in Nat /\ 1 <= k /\ k <= Len(a) /\ k <= Len(b)
      BY <1>1
    <3>2. Same(k)
      BY <1>2, <3>1
    <3>3. CASE k <= n
      BY <3>1, <3>3, <1>5
    <3>4. CASE ~(k <= n)
      <4>1. n + 1 \in 1 .. k /\ n < Len(a) /\ n < Len(b)
        BY <1>1, <1>5, <3>1, <3>4
      <4>2. a[n + 1] = b[n + 1]
        BY <3>2, <4>1
      <4> QED
        BY <4>1, <4>2, <1>8
    <3> QED
      BY <3>3, <3>4
  <2>2. ASSUME NEW k \in 1 .. n PROVE k \in A
    <3>1. k \in Nat /\ 1 <= k /\ k <= Len(a) /\ k <= Len(b) /\ k <= n
      BY <1>1, <1>5, <1>7
    <3>2. Same(k)
      BY <1>5, <1>6, <3>1
    <3> HIDE DEF A, Same
    <3> QED
      BY <1>2, <3>1, <3>2
  <2> HIDE DEF A
  <2> QED
    BY <2>1, <2>2
<1>10. Cardinality(A) = n
  <2>1. Cardinality(1 .. n) = IF 1 > n THEN 0 ELSE n - 1 + 1
    BY <1>5, FS_Interval
  <2>2. (IF 1 > n THEN 0 ELSE n - 1 + 1) = n
    BY <1>5
  <2> QED
    BY <1>9, <2>1, <2>2
<1>11. Agreed(a, b) = n
  BY <1>10 DEF Agreed
<1> HIDE DEF A, Parted
<1> QED
  BY <1>5, <1>6, <1>7, <1>8, <1>11

\* The end of a slice ends it.
LEMMA SliceSuffix ==
  ASSUME NEW T, NEW s \in Seq(T), NEW j \in 0 .. Len(s), NEW i \in 0 .. j
  PROVE  IsSuffix(Slice(s, i, j), Slice(s, 0, j))
<1> DEFINE u == Slice(s, i, j)
           v == Slice(s, 0, j)
<1>1. /\ Len(s) \in Nat /\ i \in Nat /\ j \in Nat /\ i <= j /\ 0 \in 0 .. j
  OBVIOUS
<1>2. /\ u \in Seq(T) /\ Len(u) = j - i /\ \A n \in 1 .. j - i : u[n] = s[i + n]
  BY SliceInside
<1>3. /\ v \in Seq(T) /\ Len(v) = j - 0 /\ \A n \in 1 .. j - 0 : v[n] = s[0 + n]
  BY <1>1, SliceInside
<1> HIDE DEF u, v
<1>4. j - 0 = j /\ \A n \in 1 .. j : 0 + n = n
  BY <1>1
<1>5. /\ Len(v) = j /\ \A n \in 1 .. j : v[n] = s[n]
  BY <1>3, <1>4
<1> DEFINE ru == Reverse(u)
           rv == Reverse(v)
<1>6. /\ ru \in Seq(T) /\ Len(ru) = j - i /\ \A n \in 1 .. j - i : ru[n] = u[(j - i - n) + 1]
  <2>1. j - i \in Nat /\ \A n \in 1 .. j - i : (j - i - n) + 1 \in 1 .. j - i
    BY <1>1
  <2>2. ru = [n \in 1 .. j - i |-> u[(j - i - n) + 1]]
    BY <1>2 DEF Reverse
  <2>3. \A n \in 1 .. j - i : u[(j - i - n) + 1] \in T
    BY <1>2, <2>1, ElementOfSeq
  <2>4. ru \in [1 .. j - i -> T]
    BY <2>2, <2>3
  <2> QED
    BY <2>1, <2>2, <2>4
<1>7. /\ rv \in Seq(T) /\ Len(rv) = j /\ \A n \in 1 .. j : rv[n] = v[(j - n) + 1]
  <2>1. \A n \in 1 .. j : (j - n) + 1 \in 1 .. j
    BY <1>1
  <2>2. rv = [n \in 1 .. j |-> v[(j - n) + 1]]
    BY <1>5 DEF Reverse
  <2>3. \A n \in 1 .. j : v[(j - n) + 1] \in T
    BY <1>3, <1>5, <2>1, ElementOfSeq
  <2>4. rv \in [1 .. j -> T]
    BY <2>2, <2>3
  <2> QED
    BY <1>1, <2>2, <2>4
<1> HIDE DEF ru, rv
<1>8. \A n \in 1 .. Len(ru) : ru[n] = rv[n]
  <2> TAKE n \in 1 .. Len(ru)
  <2>1. /\ n \in 1 .. j - i /\ n \in 1 .. j
        /\ (j - i - n) + 1 \in 1 .. j - i /\ (j - n) + 1 \in 1 .. j
        /\ i + ((j - i - n) + 1) = (j - n) + 1
    BY <1>1, <1>6
  <2>2. ru[n] = u[(j - i - n) + 1] /\ rv[n] = v[(j - n) + 1]
    BY <1>6, <1>7, <2>1
  <2>3. u[(j - i - n) + 1] = s[(j - n) + 1] /\ v[(j - n) + 1] = s[(j - n) + 1]
    BY <1>2, <1>5, <2>1
  <2> QED
    BY <2>2, <2>3
<1>9. Len(ru) <= Len(rv)
  BY <1>1, <1>6, <1>7
<1>10. IsPrefix(ru, rv)
  BY <1>6, <1>7, <1>8, <1>9, PrefixIs
<1> QED
  BY <1>10 DEF IsSuffix, ru, rv, u, v

\* The beginning of a slice begins it.
LEMMA SlicePrefix ==
  ASSUME NEW T, NEW s \in Seq(T), NEW k \in 0 .. Len(s), NEW j \in 0 .. k, NEW i \in 0 .. j
  PROVE  IsPrefix(Slice(s, i, j), Slice(s, i, k))
<1> DEFINE u == Slice(s, i, j)
           v == Slice(s, i, k)
<1>1. /\ Len(s) \in Nat /\ i \in Nat /\ j \in Nat /\ k \in Nat /\ i <= j /\ j <= k /\ k <= Len(s)
      /\ i \in 0 .. k /\ j \in 0 .. Len(s)
  OBVIOUS
<1>2. /\ u \in Seq(T) /\ Len(u) = j - i /\ \A n \in 1 .. j - i : u[n] = s[i + n]
  BY <1>1, SliceInside
<1>3. /\ v \in Seq(T) /\ Len(v) = k - i /\ \A n \in 1 .. k - i : v[n] = s[i + n]
  BY <1>1, SliceInside
<1> HIDE DEF u, v
<1>4. Len(u) <= Len(v) /\ \A n \in 1 .. Len(u) : n \in 1 .. j - i /\ n \in 1 .. k - i
  BY <1>1, <1>2, <1>3
<1>5. IsPrefix(u, v)
  BY <1>2, <1>3, <1>4, PrefixIs
<1> QED
  BY <1>5 DEF u, v

\* The window around the difference of two texts.
LEMMA DiagnosticIs ==
  ASSUME RoundTripTypeOK
  PROVE  DiagnosticPointsAtTheDifference
<1> USE RoundTripAssumption
<1>1. SUFFICES ASSUME NEW other \in Sources \ {source}
      PROVE  LET d == Diagnostic(source, other)
                 at == Verdict(source, other).offset
             IN  /\ Len(d.before) <= ContextLimit /\ Len(d.after) <= ContextLimit
                 /\ Slice(source, 0, at) = Slice(other, 0, at)
                 /\ Slice(source, at, at + 1) # Slice(other, at, at + 1)
                 /\ IsSuffix(d.before, Slice(source, 0, at))
                 /\ IsPrefix(d.after, Slice(source, at, Len(source)))
  BY DEF DiagnosticPointsAtTheDifference
<1> DEFINE at == Agreed(source, other)
           limit == ContextLimit
           n == Len(source)
           m == Len(other)
<1>2. source \in Seq(Characters) /\ other \in Seq(Characters) /\ source # other /\ limit \in Nat
  BY DEF RoundTripTypeOK, Texts
<1>3. n \in Nat /\ m \in Nat
  BY <1>2
<1>4. /\ at \in Nat /\ at <= n /\ at <= m
      /\ \A i \in 1 .. at : source[i] = other[i]
      /\ at < n /\ at < m => source[at + 1] # other[at + 1]
  BY <1>2, AgreedIs
<1>5. Verdict(source, other).offset = at
  BY <1>2 DEF Verdict
<1> HIDE DEF at
<1> DEFINE from == Max({0, at - limit})
           to == Min({n, at + limit})
           d == Diagnostic(source, other)
<1>6. Min({at, n}) = at
  BY <1>3, <1>4, MinOfTwo
<1>7. from \in Nat /\ from <= at /\ at - from <= limit
  <2>1. from = IF 0 <= at - limit THEN at - limit ELSE 0
    BY <1>2, <1>4, MaxOfTwo
  <2> QED
    BY <2>1, <1>2, <1>4
<1>8. to \in Nat /\ at <= to /\ to <= n /\ to - at <= limit
  <2>1. to = IF n <= at + limit THEN n ELSE at + limit
    BY <1>2, <1>3, <1>4, MinOfTwo
  <2> QED
    BY <2>1, <1>2, <1>3, <1>4
<1>9. d.before = Slice(source, from, at) /\ d.after = Slice(source, at, to)
  BY <1>5, <1>6 DEF Diagnostic
<1> HIDE DEF from, to, d
<1>10. Len(d.before) <= limit /\ Len(d.after) <= limit
  <2>1. at \in 0 .. n /\ from \in 0 .. at /\ to \in 0 .. n /\ at \in 0 .. to
    BY <1>3, <1>4, <1>7, <1>8
  <2>2. Len(Slice(source, from, at)) = at - from
    BY <1>2, <2>1, SliceInside
  <2>3. Len(Slice(source, at, to)) = to - at
    BY <1>2, <2>1, SliceInside
  <2> QED
    BY <2>2, <2>3, <1>7, <1>8, <1>9
<1>11. IsSuffix(d.before, Slice(source, 0, at)) /\ IsPrefix(d.after, Slice(source, at, n))
  <2>1. at \in 0 .. n /\ from \in 0 .. at /\ n \in 0 .. n /\ to \in 0 .. n /\ at \in 0 .. to
    BY <1>3, <1>4, <1>7, <1>8
  <2>2. IsSuffix(Slice(source, from, at), Slice(source, 0, at))
    BY <1>2, <2>1, SliceSuffix
  <2>3. IsPrefix(Slice(source, at, to), Slice(source, at, n))
    BY <1>2, <2>1, SlicePrefix
  <2> QED
    BY <2>2, <2>3, <1>9
<1>12. Slice(source, 0, at) = Slice(other, 0, at)
  <2>1. at \in 0 .. n /\ at \in 0 .. m /\ 0 \in 0 .. at /\ at - 0 = at /\ \A i \in 1 .. at : 0 + i = i
    BY <1>3, <1>4
  <2>2. /\ Slice(source, 0, at) \in Seq(Characters) /\ Len(Slice(source, 0, at)) = at - 0
        /\ \A i \in 1 .. at - 0 : Slice(source, 0, at)[i] = source[0 + i]
    BY <1>2, <2>1, SliceInside
  <2>3. /\ Slice(other, 0, at) \in Seq(Characters) /\ Len(Slice(other, 0, at)) = at - 0
        /\ \A i \in 1 .. at - 0 : Slice(other, 0, at)[i] = other[0 + i]
    BY <1>2, <2>1, SliceInside
  <2> DEFINE u == Slice(source, 0, at)
             v == Slice(other, 0, at)
  <2>4. /\ u \in Seq(Characters) /\ v \in Seq(Characters) /\ Len(u) = at /\ Len(v) = at
        /\ \A i \in 1 .. at : u[i] = v[i]
    BY <2>1, <2>2, <2>3, <1>4
  <2> HIDE DEF u, v
  <2>5. u = v
    BY <2>4, SeqEqual
  <2> QED
    BY <2>5 DEF u, v
<1>13. Slice(source, at, at + 1) # Slice(other, at, at + 1)
  <2>1. ASSUME NEW s \in Seq(Characters), at <= Len(s)
        PROVE  /\ at < Len(s) => /\ Len(Slice(s, at, at + 1)) = 1
                                 /\ Slice(s, at, at + 1)[1] = s[at + 1]
               /\ at = Len(s) => Len(Slice(s, at, at + 1)) = 0
    <3>1. CASE at < Len(s)
      <4>1. at + 1 \in 0 .. Len(s) /\ at \in 0 .. at + 1 /\ (at + 1) - at = 1 /\ 1 \in 1 .. 1
        BY <1>4, <2>1, <3>1
      <4> DEFINE next == at + 1
      <4>2. next \in 0 .. Len(s) /\ at \in 0 .. next /\ next - at = 1
        BY <4>1
      <4> HIDE DEF next
      <4>3. /\ Len(Slice(s, at, next)) = next - at
            /\ \A i \in 1 .. next - at : Slice(s, at, next)[i] = s[at + i]
        BY <4>2, SliceInside
      <4>4. Len(Slice(s, at, next)) = 1 /\ Slice(s, at, next)[1] = s[at + 1]
        BY <4>1, <4>2, <4>3
      <4>5. at # Len(s)
        BY <3>1, <1>4
      <4> QED
        BY <4>4, <4>5 DEF next
    <3>2. CASE at = Len(s)
      <4>1. Len(s) \in Nat
        OBVIOUS
      <4>2. Min({at + 1, Len(s)}) = Len(s)
        BY <4>1, <3>2, MinOfTwo
      <4>3. Slice(s, at, at + 1) = SubSeq(s, at + 1, Len(s))
        BY <4>2 DEF Slice
      <4>4. SubSeq(s, at + 1, Len(s)) = <<>>
        BY <3>2, <4>1, <1>4, SubSeqEmpty
      <4> QED
        BY <3>2, <4>3, <4>4, <4>1
    <3> QED
      BY <3>1, <3>2
  <2>2. CASE at < n /\ at < m
    BY <2>2, <2>1, <1>2, <1>4
  <2>3. CASE (at < n /\ at = m) \/ (at = n /\ at < m)
    BY <2>3, <2>1, <1>2, <1>4
  <2>4. CASE at = n /\ at = m
    BY <2>4, <1>2, <1>4, SeqEqual
  <2> QED
    BY <2>2, <2>3, <2>4, <1>3, <1>4
<1> QED
  BY <1>5, <1>10, <1>11, <1>12, <1>13 DEF d

-----------------------------------------------------------------------------
(* The loop that joins the rows.                                            *)

\* What the loop starts with.
Unread == [text |-> <<>>, map |-> <<>>, truncated |-> FALSE, previous |-> Null]

\* The text and the map after each of n rounds.
Rounds(out, visible, max, n) ==
  out = [k \in 0 .. n |-> IF k = 0 THEN Unread ELSE Emitted(visible, max, out[k - 1], k)]

\* The recursion of Joined has a solution for the first m rows.
LEMMA JoinedExists ==
  ASSUME NEW visible, NEW max, NEW m \in Nat
  PROVE  \E out : Rounds(out, visible, max, m)
<1> DEFINE Step(f, k) == IF k = 0 THEN Unread ELSE Emitted(visible, max, f[k - 1], k)
           B == {n \in Nat : ~\E f : f = [k \in 0 .. n |-> Step(f, k)]}
<1>1. B = {}
  <2> SUFFICES ASSUME B # {} PROVE FALSE
    OBVIOUS
  <2>1. PICK n \in B : n = 0 \/ (n - 1 \in Nat /\ n - 1 \notin B)
    <3>1. B \in SUBSET Nat
      OBVIOUS
    <3> HIDE DEF B
    <3> QED
      BY <3>1, FirstBad
  <2>2. n \in Nat /\ ~\E f : f = [k \in 0 .. n |-> Step(f, k)]
    OBVIOUS
  <2>3. CASE n = 0
    <3> DEFINE g == [k \in 0 .. n |-> Unread]
    <3>1. \A k \in 0 .. n : k = 0
      BY <2>3
    <3>2. g = [k \in 0 .. n |-> Step(g, k)]
      BY <3>1
    <3> HIDE DEF g
    <3> QED
      BY <2>2, <3>2
  <2>4. CASE n # 0
    <3>1. PICK f : f = [k \in 0 .. n - 1 |-> Step(f, k)]
      BY <2>1, <2>4
    <3> DEFINE g == [k \in 0 .. n |-> IF k = n THEN Step(f, n) ELSE f[k]]
    <3>2. ASSUME NEW k \in 0 .. n PROVE g[k] = Step(g, k)
      <4>1. g[k] = Step(f, k)
        <5>1. CASE k = n
          BY <5>1
        <5>2. CASE k # n
          <6>1. k \in 0 .. n - 1
            BY <2>2, <5>2
          <6>2. f[k] = Step(f, k)
            BY <3>1, <6>1
          <6> QED
            BY <5>2, <6>2
        <5> QED
          BY <5>1, <5>2
      <4>2. CASE k = 0
        BY <4>1, <4>2
      <4>3. CASE k # 0
        <5>1. k - 1 \in 0 .. n /\ k - 1 # n
          BY <2>2, <4>3
        <5>2. g[k - 1] = f[k - 1]
          BY <5>1
        <5> HIDE DEF g
        <5> QED
          BY <4>1, <4>3, <5>2
      <4> QED
        BY <4>2, <4>3
    <3>3. DOMAIN g = 0 .. n /\ g = [k \in 0 .. n |-> g[k]]
      OBVIOUS
    <3>4. g = [k \in 0 .. n |-> Step(g, k)]
      <4> HIDE DEF g, Step
      <4> QED
        BY <3>2, <3>3
    <3> HIDE DEF g
    <3> QED
      BY <2>2, <3>4
  <2> QED
    BY <2>3, <2>4
<1>2. m \notin B
  BY <1>1
<1> QED
  BY <1>2 DEF Rounds

\* The rounds of the loop.
LEMMA JoinedIs ==
  ASSUME NEW visible, NEW max, Len(visible) \in Nat
  PROVE  \E out : /\ out[0] = Unread
                  /\ \A k \in 1 .. Len(visible) : out[k] = Emitted(visible, max, out[k - 1], k)
                  /\ Joined(visible, max) = out[Len(visible)]
<1> DEFINE F == CHOOSE out : Rounds(out, visible, max, Len(visible))
<1>1. \E out : Rounds(out, visible, max, Len(visible))
  BY JoinedExists
<1>2. Rounds(F, visible, max, Len(visible))
  BY <1>1
<1>3. Joined(visible, max) = F[Len(visible)]
  BY DEF Joined, Unread, Rounds
<1> HIDE DEF F
<1>4. F[0] = Unread
  BY <1>2 DEF Rounds
<1>5. \A k \in 1 .. Len(visible) : F[k] = Emitted(visible, max, F[k - 1], k)
  <2> TAKE k \in 1 .. Len(visible)
  <2>1. k \in 0 .. Len(visible) /\ k # 0
    OBVIOUS
  <2> QED
    BY <1>2, <2>1 DEF Rounds
<1> QED
  BY <1>3, <1>4, <1>5

\* A part of a concatenation.
LEMMA SliceOfConcat ==
  ASSUME NEW T, NEW s \in Seq(T), NEW t \in Seq(T), NEW j \in 0 .. Len(s), NEW i \in 0 .. j
  PROVE  Slice(s \o t, i, j) = Slice(s, i, j)
<1> DEFINE c == s \o t
<1>1. /\ Len(s) \in Nat /\ Len(t) \in Nat /\ c \in Seq(T) /\ Len(c) = Len(s) + Len(t)
      /\ \A n \in 1 .. Len(s) + Len(t) : c[n] = IF n <= Len(s) THEN s[n] ELSE t[n - Len(s)]
  BY ConcatProperties
<1> HIDE DEF c
<1>2. j \in 0 .. Len(c)
  BY <1>1
<1> DEFINE u == Slice(c, i, j)
           v == Slice(s, i, j)
<1>3. /\ u \in Seq(T) /\ Len(u) = j - i /\ \A n \in 1 .. j - i : u[n] = c[i + n]
  BY <1>1, <1>2, SliceInside, ZenonT(60)
<1>4. /\ v \in Seq(T) /\ Len(v) = j - i /\ \A n \in 1 .. j - i : v[n] = s[i + n]
  BY SliceInside
<1> HIDE DEF u, v
<1>5. \A n \in 1 .. j - i : c[i + n] = s[i + n]
  BY <1>1
<1>6. u = v
  <2>1. Len(u) = Len(v) /\ \A n \in 1 .. Len(u) : u[n] = v[n]
    BY <1>3, <1>4, <1>5
  <2> QED
    BY <1>3, <1>4, <2>1, SeqEqual
<1> QED
  BY <1>6 DEF u, v, c

\* A concatenation begins with its first part.
LEMMA ConcatPrefix ==
  ASSUME NEW T, NEW s \in Seq(T), NEW t \in Seq(T)
  PROVE  IsPrefix(s, s \o t) /\ s \o t \in Seq(T)
<1> DEFINE c == s \o t
<1>1. /\ Len(s) \in Nat /\ Len(t) \in Nat /\ c \in Seq(T) /\ Len(c) = Len(s) + Len(t)
      /\ \A n \in 1 .. Len(s) + Len(t) : c[n] = IF n <= Len(s) THEN s[n] ELSE t[n - Len(s)]
  BY ConcatProperties
<1> HIDE DEF c
<1>2. Len(s) <= Len(c) /\ \A n \in 1 .. Len(s) : s[n] = c[n]
  BY <1>1
<1>3. IsPrefix(s, c)
  BY <1>1, <1>2, PrefixIs
<1> QED
  BY <1>1, <1>3 DEF c

\* e begins s, and is all of it unless a limit is reached.
Begins(e, s, max, used, T) ==
  /\ e \in Seq(T) /\ Len(e) <= Len(s) /\ (max # 0 => used + Len(e) <= max)
  /\ Len(e) < Len(s) => max # 0 /\ used + Len(e) = max
  /\ Len(e) = Len(s) => e = s
  /\ \E rest \in Seq(T) : s = e \o rest /\ Len(rest) = Len(s) - Len(e)

\* What is emitted of a text, and what is left out.
LEMMA ClippedIs ==
  ASSUME NEW T, NEW s \in Seq(T), NEW max \in Nat, NEW used \in Nat, max = 0 \/ used <= max
  PROVE  Begins(Clipped(s, max, used), s, max, used, T)
<1> DEFINE e == Clipped(s, max, used)
<1>1. Len(s) \in Nat
  OBVIOUS
<1>2. CASE max = 0
  <2>1. e = s
    BY <1>2 DEF Clipped
  <2>2. <<>> \in Seq(T) /\ s = s \o <<>> /\ Len(<<>>) = 0 /\ Len(s) - Len(s) = 0
    BY <1>1, ConcatEmptySeq
  <2> HIDE DEF e
  <2>3. \E rest \in Seq(T) : s = s \o rest /\ Len(rest) = Len(s) - Len(s)
    BY <2>2
  <2>4. /\ e \in Seq(T) /\ Len(e) = Len(s) /\ Len(s) <= Len(s) /\ ~(Len(e) < Len(s))
    BY <1>1, <2>1
  <2>5. \E rest \in Seq(T) : s = e \o rest /\ Len(rest) = Len(s) - Len(e)
    BY ONLY <2>1, <2>3
  <2> QED
    BY <1>2, <2>1, <2>4, <2>5 DEF e, Begins
<1>3. CASE max # 0
  <2> DEFINE room == max - used
             n == Min({Len(s), room})
  <2>1. used <= max /\ room \in Nat
    BY <1>3
  <2>2. n = IF Len(s) <= room THEN Len(s) ELSE room
    BY <1>1, <2>1, MinOfTwo
  <2>3. e = SubSeq(s, 1, n)
    BY <1>3 DEF Clipped
  <2>4. n \in Nat /\ n <= Len(s) /\ used + n <= max /\ (n < Len(s) => used + n = max)
    BY <1>1, <2>1, <2>2
  <2> HIDE DEF n, e
  <2>5. 1 \in 1 .. Len(s) + 1 /\ n \in 1 - 1 .. Len(s) /\ n - 1 + 1 = n /\ n \in n .. Len(s)
        /\ Len(s) \in n .. Len(s)
    BY <1>1, <2>4
  <2>6. SubSeq(s, 1, n) \in Seq(T) /\ Len(SubSeq(s, 1, n)) = n - 1 + 1
    BY <2>5, SubSeqType
  <2> DEFINE rest == SubSeq(s, n + 1, Len(s))
  <2>7. SubSeq(s, 1, n) \o rest = SubSeq(s, 1, Len(s)) /\ SubSeq(s, 1, Len(s)) = s
    BY <2>5, ConcatAdjacentSubSeq, SubSeqFull
  <2>8. rest \in Seq(T) /\ Len(rest) = Len(s) - (n + 1) + 1
    <3>1. n + 1 \in 1 .. Len(s) + 1 /\ Len(s) \in (n + 1) - 1 .. Len(s)
      BY <1>1, <2>4
    <3> DEFINE first == n + 1
    <3>2. first \in 1 .. Len(s) + 1 /\ Len(s) \in first - 1 .. Len(s)
      BY <3>1
    <3> HIDE DEF first
    <3>3. SubSeq(s, first, Len(s)) \in Seq(T) /\ Len(SubSeq(s, first, Len(s))) = Len(s) - first + 1
      BY <3>2, SubSeqType
    <3> QED
      BY <3>3 DEF first
  <2>9. e \in Seq(T) /\ Len(e) = n
    BY <2>3, <2>5, <2>6
  <2>10. Len(rest) = Len(s) - Len(e) /\ s = e \o rest
    <3>1. s = e \o rest
      BY <2>3, <2>7
    <3>2. /\ Len(s) \in Nat /\ n \in Nat /\ Len(e) = n /\ Len(rest) = Len(s) - (n + 1) + 1
      BY <1>1, <2>4, <2>8, <2>9
    <3>3. Len(rest) = Len(s) - Len(e)
      BY ONLY <3>2
    <3> QED
      BY <3>1, <3>3
  <2>11. Len(e) = Len(s) => e = s
    BY <2>3, <2>7, <2>9
  <2> HIDE DEF rest
  <2> QED
    BY <1>3, <2>4, <2>8, <2>9, <2>10, <2>11 DEF e, Begins
<1> QED
  BY <1>2, <1>3

-----------------------------------------------------------------------------
(* The rows that are read, and their whole text.                            *)

\* What comes before the text of row k.
Before(visible, k) ==
  IF visible[k].piece # Null THEN visible[k].piece.gap
  ELSE IF k = 1 THEN <<>>
  ELSE IF visible[k].of = visible[k - 1].of THEN <<Blank>> ELSE <<Blank, Blank>>

Part(visible, k) == Before(visible, k) \o Payload(visible[k])

\* The text of the first k rows is w[k].
Whole(visible, w) ==
  /\ w[0] = <<>>
  /\ \A k \in 0 .. Len(visible) : w[k] \in Texts
  /\ \A k \in 1 .. Len(visible) : w[k] = w[k - 1] \o Part(visible, k)

\* The texts of a row.
LEMMA RowIs ==
  ASSUME RoundTripTypeOK, NEW visible \in Seq(ChunkRow), NEW k \in DOMAIN visible
  PROVE  /\ Before(visible, k) \in Texts /\ Payload(visible[k]) \in Texts /\ Part(visible, k) \in Texts
         /\ visible[k].of # Null
         /\ visible[k].piece # Null =>
              visible[k].piece \in PieceRow /\ visible[k].piece.suffix \in Texts \cup {Null}
<1> USE RoundTripAssumption
<1>1. visible[k] \in ChunkRow
  OBVIOUS
<1>2. /\ visible[k].of \in DOMAIN paragraphs /\ visible[k].text \in Texts
      /\ visible[k].piece \in PieceRow \cup {Null}
  BY <1>1 DEF ChunkRow
<1>3. visible[k].of # Null
  <2>1. paragraphs \in Seq(ParagraphRow)
    BY DEF RoundTripTypeOK
  <2>2. visible[k].of \in Nat
    BY <1>2, <2>1
  <2> QED
    BY <2>2
<1>4. visible[k].piece # Null =>
        /\ visible[k].piece \in PieceRow /\ visible[k].piece.gap \in Texts
        /\ visible[k].piece.override \in Texts \cup {Null} /\ visible[k].piece.suffix \in Texts \cup {Null}
  BY <1>2 DEF PieceRow
<1>5. <<>> \in Texts /\ <<Blank>> \in Texts /\ <<Blank, Blank>> \in Texts
  BY BlankIsCharacter DEF Texts
<1>6. Before(visible, k) \in Texts
  BY <1>4, <1>5 DEF Before
<1>7. Payload(visible[k]) \in Texts
  BY <1>2, <1>4 DEF Payload
<1>8. Part(visible, k) \in Texts
  BY <1>6, <1>7, ConcatProperties DEF Texts, Part
<1> QED
  BY <1>3, <1>4, <1>6, <1>7, <1>8

\* Rows have a whole text, and it is what the comparison reads.
LEMMA WholeExists ==
  ASSUME RoundTripTypeOK, NEW visible \in Seq(ChunkRow), visible # <<>>
  PROVE  \E w : /\ Whole(visible, w)
                /\ ~ScopeRaises(visible) => ScopeText(visible) = w[Len(visible)] \o Suffix(visible)
<1> DEFINE n == Len(visible)
           parts == [k \in DOMAIN visible |-> Part(visible, k)]
<1>1. n \in Nat \ {0} /\ DOMAIN visible = 1 .. n
  OBVIOUS
<1>2. Len(parts) = n /\ \A k \in 1 .. n : parts[k] = Part(visible, k) /\ Part(visible, k) \in Texts
  <2>1. \A k \in 1 .. n : Part(visible, k) \in Texts
    BY <1>1, RowIs
  <2> QED
    BY <1>1, <2>1
<1>3. ~ScopeRaises(visible) => ScopeText(visible) = FlattenSeq(parts) \o Suffix(visible)
  <2> SUFFICES ASSUME ~ScopeRaises(visible) PROVE ScopeText(visible) = FlattenSeq(parts) \o Suffix(visible)
    OBVIOUS
  <2> DEFINE separator(k) == IF visible[k].piece # Null THEN visible[k].piece.gap
                      ELSE IF k = 1 THEN <<>>
                      ELSE IF visible[k].of = visible[k - 1].of THEN <<Blank>> ELSE <<Blank, Blank>>
             given == [k \in DOMAIN visible |-> separator(k) \o Payload(visible[k])]
  <2>1. ScopeText(visible) = FlattenSeq(given) \o Suffix(visible)
    BY DEF ScopeText
  <2>2. \A k \in DOMAIN visible : separator(k) \o Payload(visible[k]) = Part(visible, k)
    BY DEF Part, Before
  <2> HIDE DEF separator
  <2>3. given = parts
    BY <2>2
  <2> QED
    BY <2>1, <2>3
<1> HIDE DEF parts
<1>4. PICK f : /\ f[1] = parts[1] /\ \A i \in 2 .. n : f[i] = f[i - 1] \o parts[i]
               /\ FlattenSeq(parts) = f[n]
  BY <1>1, <1>2, Flattened
<1> DEFINE w == [k \in 0 .. n |-> IF k = 0 THEN <<>> ELSE f[k]]
<1>5. w[0] = <<>> /\ w[n] = f[n] /\ \A k \in 1 .. n : w[k] = f[k]
  BY <1>1
<1> HIDE DEF w, n
<1>6. \A k \in 1 .. n : w[k] = w[k - 1] \o parts[k]
  <2> TAKE k \in 1 .. n
  <2>1. CASE k = 1
    <3>1. w[1] = parts[1] /\ w[0] = <<>> /\ 1 \in 1 .. n /\ 1 - 1 = 0
      BY <1>1, <1>4, <1>5
    <3>2. parts[1] \in Seq(Characters)
      BY <1>2, <3>1 DEF Texts
    <3>3. <<>> \o parts[1] = parts[1]
      BY <3>2, ConcatEmptySeq
    <3> QED
      BY <2>1, <3>1, <3>3
  <2>2. CASE k # 1
    <3>1. k \in 2 .. n /\ k - 1 \in 1 .. n
      BY <1>1, <2>2
    <3>2. f[k] = f[k - 1] \o parts[k] /\ w[k] = f[k] /\ w[k - 1] = f[k - 1]
      BY <1>4, <1>5, <3>1
    <3> QED
      BY <3>2
  <2> QED
    BY <2>1, <2>2
<1>7. \A k \in 0 .. n : w[k] \in Texts
  <2> DEFINE B == {k \in Nat : k \in 0 .. n /\ w[k] \notin Texts}
  <2>1. B = {}
    <3> SUFFICES ASSUME B # {} PROVE FALSE
      OBVIOUS
    <3>1. PICK k \in B : k = 0 \/ (k - 1 \in Nat /\ k - 1 \notin B)
      <4>1. B \in SUBSET Nat
        OBVIOUS
      <4> HIDE DEF B
      <4> QED
        BY <4>1, FirstBad
    <3>2. k \in 0 .. n /\ w[k] \notin Texts
      OBVIOUS
    <3>3. CASE k = 0
      <4>1. <<>> \in Texts
        BY DEF Texts
      <4> QED
        BY <1>5, <3>2, <3>3, <4>1
    <3>4. CASE k # 0
      <4>1. k \in 1 .. n /\ k - 1 \in 0 .. n
        BY <1>1, <3>2, <3>4
      <4>2. w[k - 1] \in Texts
        BY <3>1, <3>4, <4>1
      <4>3. w[k] = w[k - 1] \o parts[k] /\ parts[k] \in Texts
        BY <1>2, <1>6, <4>1
      <4>4. w[k - 1] \o parts[k] \in Texts
        BY <4>2, <4>3, ConcatProperties DEF Texts
      <4> QED
        BY <3>2, <4>3, <4>4
    <3> QED
      BY <3>3, <3>4
  <2> QED
    BY <1>1, <2>1
<1>8. Whole(visible, w)
  BY <1>2, <1>5, <1>6, <1>7 DEF Whole, n
<1> QED
  BY <1>3, <1>4, <1>5, <1>8 DEF n

\* What follows the rows, if they can be read at all.
LEMMA SuffixIs ==
  ASSUME RoundTripTypeOK, NEW visible \in Seq(ChunkRow), visible # <<>>, ~ScopeRaises(visible)
  PROVE  Suffix(visible) \in Texts
<1>1. CASE Exact(visible) = {}
  BY <1>1 DEF Suffix, Texts
<1>2. CASE Exact(visible) # {}
  <2>1. Suffixed(visible) = {Len(visible)}
    BY <1>2 DEF ScopeRaises
  <2>2. Len(visible) \in Exact(visible) /\ visible[Len(visible)].piece.suffix # Null
    BY <2>1 DEF Suffixed
  <2>3. Len(visible) \in DOMAIN visible /\ visible[Len(visible)].piece # Null
    BY <2>2 DEF Exact
  <2>4. visible[Len(visible)].piece.suffix \in Texts \cup {Null}
    BY <2>3, RowIs
  <2>5. Suffix(visible) = visible[Len(visible)].piece.suffix
    BY <1>2 DEF Suffix, Last
  <2> QED
    BY <2>2, <2>4, <2>5
<1> QED
  BY <1>1, <1>2

-----------------------------------------------------------------------------
(* What a round of the loop keeps.                                          *)

MapEntry == [chunk : Nat, start : Nat, end : Nat]

\* Every entry of a map finds in the text what its row stands for, entries in order.
Locates(visible, text, map, truncated) ==
  /\ map \in Seq(MapEntry)
  /\ \A m \in DOMAIN map :
       LET found == Slice(text, map[m].start, map[m].end)
           payload == Payload(visible[map[m].chunk])
       IN  /\ map[m].start <= map[m].end /\ map[m].end <= Len(text)
           /\ IsPrefix(found, payload) /\ (found = payload \/ truncated)
           /\ m > 1 => map[m - 1].end <= map[m].start

\* Some row has nothing to show.
Vacant(visible) == \E k \in DOMAIN visible : Payload(visible[k]) = <<>>

\* After k rounds the text is the whole text of k rows, or a limit cut it short.
RoundOK(visible, w, max, out, k) ==
  /\ out.text \in Texts /\ out.truncated \in BOOLEAN
  /\ max # 0 => Len(out.text) <= max
  /\ ~out.truncated => out.text = w[k] /\ out.previous = IF k = 0 THEN Null ELSE visible[k].of
  /\ out.truncated => /\ max # 0 /\ Len(out.text) = max
                      /\ \E rest \in Texts : w[k] = out.text \o rest /\ (rest # <<>> \/ Vacant(visible))
  /\ Locates(visible, out.text, out.map, out.truncated)

\* A map still holds when text is added.
LEMMA LocatesMore ==
  ASSUME NEW visible, NEW text \in Texts, NEW more \in Texts, NEW map, NEW truncated \in BOOLEAN,
         Locates(visible, text, map, FALSE)
  PROVE  Locates(visible, text \o more, map, truncated)
<1> DEFINE longer == text \o more
<1>1. /\ text \in Seq(Characters) /\ more \in Seq(Characters)
      /\ Len(text) \in Nat /\ Len(more) \in Nat /\ Len(longer) = Len(text) + Len(more)
  BY ConcatProperties DEF Texts
<1>2. map \in Seq(MapEntry)
  BY DEF Locates
<1>3. ASSUME NEW m \in DOMAIN map
      PROVE  /\ map[m].end <= Len(longer)
             /\ Slice(longer, map[m].start, map[m].end) = Slice(text, map[m].start, map[m].end)
  <2>1. map[m] \in MapEntry
    BY <1>2
  <2>2. /\ map[m].start \in Nat /\ map[m].end \in Nat
        /\ map[m].start <= map[m].end /\ map[m].end <= Len(text)
    BY <2>1 DEF MapEntry, Locates
  <2>3. map[m].end \in 0 .. Len(text) /\ map[m].start \in 0 .. map[m].end
    BY <1>1, <2>2
  <2>4. Slice(longer, map[m].start, map[m].end) = Slice(text, map[m].start, map[m].end)
    BY <1>1, <2>3, SliceOfConcat
  <2> HIDE DEF longer
  <2>5. map[m].end <= Len(longer)
    BY <1>1, <2>2
  <2> QED
    BY <2>4, <2>5
<1> HIDE DEF longer
<1>4. Locates(visible, longer, map, truncated)
  BY <1>2, <1>3 DEF Locates
<1> QED
  BY <1>4 DEF longer

\* What was emitted of a row after its separator begins the text of the row.
LEMMA EntryFinds ==
  ASSUME NEW text \in Texts, NEW separator \in Texts, NEW payload \in Texts,
         NEW emitted \in Texts, NEW rest \in Texts,
         separator \o payload = emitted \o rest, Len(emitted) > Len(separator)
  PROVE  LET found == Slice(text \o emitted, Len(text) + Len(separator), Len(text) + Len(emitted))
         IN  /\ IsPrefix(found, payload)
             /\ emitted = separator \o payload => found = payload
             /\ Len(text) + Len(emitted) <= Len(text \o emitted)
<1> DEFINE T == Characters
           longer == text \o emitted
           candidate == separator \o payload
           i == Len(text) + Len(separator)
           j == Len(text) + Len(emitted)
           found == Slice(longer, i, j)
<1>1. /\ text \in Seq(T) /\ separator \in Seq(T) /\ payload \in Seq(T)
      /\ emitted \in Seq(T) /\ rest \in Seq(T)
      /\ Len(text) \in Nat /\ Len(separator) \in Nat /\ Len(payload) \in Nat
      /\ Len(emitted) \in Nat /\ Len(rest) \in Nat
  BY DEF Texts
<1>2. /\ longer \in Seq(T) /\ Len(longer) = Len(text) + Len(emitted)
      /\ \A n \in 1 .. Len(text) + Len(emitted) :
           longer[n] = IF n <= Len(text) THEN text[n] ELSE emitted[n - Len(text)]
  BY <1>1, ConcatProperties
<1>3. /\ Len(candidate) = Len(separator) + Len(payload)
      /\ \A n \in 1 .. Len(separator) + Len(payload) :
           candidate[n] = IF n <= Len(separator) THEN separator[n] ELSE payload[n - Len(separator)]
  BY <1>1, ConcatProperties
<1>4. /\ Len(emitted \o rest) = Len(emitted) + Len(rest)
      /\ \A n \in 1 .. Len(emitted) + Len(rest) :
           (emitted \o rest)[n] = IF n <= Len(emitted) THEN emitted[n] ELSE rest[n - Len(emitted)]
  BY <1>1, ConcatProperties
<1>5. /\ Len(separator) + Len(payload) = Len(emitted) + Len(rest)
      /\ \A n \in 1 .. Len(emitted) :
           n <= Len(separator) + Len(payload) /\ candidate[n] = emitted[n]
  <2>1. candidate = emitted \o rest
    OBVIOUS
  <2> HIDE DEF candidate
  <2>2. Len(separator) + Len(payload) = Len(emitted) + Len(rest)
    BY <1>3, <1>4, <2>1
  <2>3. \A n \in 1 .. Len(emitted) : n \in 1 .. Len(emitted) + Len(rest) /\ n <= Len(emitted)
    BY <1>1
  <2>4. \A n \in 1 .. Len(emitted) : candidate[n] = emitted[n]
    BY <1>4, <2>1, <2>3
  <2>5. \A n \in 1 .. Len(emitted) : n <= Len(separator) + Len(payload)
    BY <1>1, <2>2
  <2> QED
    BY <2>2, <2>4, <2>5
<1> HIDE DEF longer, candidate
<1>6. i \in 0 .. j /\ j \in 0 .. Len(longer) /\ j - i = Len(emitted) - Len(separator)
  BY <1>1, <1>2
<1>7. /\ found \in Seq(T) /\ Len(found) = j - i
      /\ \A n \in 1 .. j - i : found[n] = longer[i + n]
  <2> HIDE DEF i, j
  <2>1. longer \in Seq(T) /\ j \in 0 .. Len(longer) /\ i \in 0 .. j
    BY <1>2, <1>6
  <2>2. /\ Slice(longer, i, j) \in Seq(T) /\ Len(Slice(longer, i, j)) = j - i
        /\ \A n \in 1 .. j - i : Slice(longer, i, j)[n] = longer[i + n]
    BY ONLY <2>1, SliceInside
  <2> QED
    BY ONLY <2>2
<1>8. \A n \in 1 .. j - i : found[n] = payload[n] /\ n <= Len(payload)
  <2> TAKE n \in 1 .. j - i
  <2> DEFINE g == Len(separator) + n
  <2>1. /\ i + n \in 1 .. Len(text) + Len(emitted) /\ ~(i + n <= Len(text))
        /\ (i + n) - Len(text) = g
    BY <1>1, <1>6
  <2>2. /\ g \in 1 .. Len(emitted) /\ ~(g <= Len(separator)) /\ g - Len(separator) = n
    BY <1>1, <1>6
  <2>3. found[n] = longer[i + n]
    BY <1>7
  <2>4. longer[i + n] = emitted[g]
    BY <1>2, <2>1
  <2> HIDE DEF g, i, j, found
  <2>5. emitted[g] = candidate[g] /\ g <= Len(separator) + Len(payload)
    BY <1>5, <2>2
  <2>6. g \in 1 .. Len(separator) + Len(payload)
    BY <1>1, <2>2, <2>5
  <2>7. candidate[g] = payload[n]
    BY <1>3, <2>2, <2>6
  <2>8. n <= Len(payload)
    BY <1>1, <2>2, <2>5 DEF g
  <2> QED
    BY <2>3, <2>4, <2>5, <2>7, <2>8
<1>9. j - i <= Len(payload)
  BY <1>1, <1>5, <1>6
<1>10. emitted = separator \o payload => j - i = Len(payload)
  BY <1>1, <1>3, <1>6 DEF candidate
<1>11. Len(text) + Len(emitted) <= Len(longer)
  BY <1>1, <1>2
<1> HIDE DEF i, j, found
<1>12. IsPrefix(found, payload)
  <2>1. Len(found) <= Len(payload) /\ \A n \in 1 .. Len(found) : found[n] = payload[n]
    BY <1>7, <1>8, <1>9
  <2> QED
    BY <1>1, <1>7, <2>1, PrefixIs
<1>13. emitted = separator \o payload => found = payload
  <2> SUFFICES ASSUME emitted = separator \o payload PROVE found = payload
    OBVIOUS
  <2>1. Len(found) = Len(payload) /\ \A n \in 1 .. Len(found) : found[n] = payload[n]
    BY <1>7, <1>8, <1>10
  <2> HIDE DEF T
  <2> QED
    BY <1>1, <1>7, <2>1, SeqEqual
<1> QED
  BY <1>11, <1>12, <1>13 DEF found, longer, i, j

\* An entry is added after all others.
LEMMA LocatesNext ==
  ASSUME NEW visible, NEW text \in Texts, NEW more \in Texts, NEW map, NEW truncated \in BOOLEAN,
         Locates(visible, text, map, FALSE), NEW entry \in MapEntry,
         Len(text) <= entry.start, entry.start <= entry.end, entry.end <= Len(text \o more),
         LET found == Slice(text \o more, entry.start, entry.end)
             payload == Payload(visible[entry.chunk])
         IN  IsPrefix(found, payload) /\ (found = payload \/ truncated)
  PROVE  Locates(visible, text \o more, map \o <<entry>>, truncated)
<1> DEFINE longer == text \o more
           new == map \o <<entry>>
           n == Len(map)
           Good(x) == /\ x.start <= x.end /\ x.end <= Len(longer)
                      /\ IsPrefix(Slice(longer, x.start, x.end), Payload(visible[x.chunk]))
                      /\ (Slice(longer, x.start, x.end) = Payload(visible[x.chunk]) \/ truncated)
<1>1. map \in Seq(MapEntry) /\ Len(text) \in Nat
  BY DEF Locates, Texts
<1>2. Locates(visible, longer, map, truncated)
  BY LocatesMore
<1>3. Good(entry)
  OBVIOUS
<1> HIDE DEF longer
<1>4. Append(map, entry) = new
  BY <1>1, AppendIsConcat
<1>5. /\ Append(map, entry) \in Seq(MapEntry) /\ n \in Nat /\ DOMAIN map = 1 .. n
      /\ DOMAIN Append(map, entry) = 1 .. n + 1
      /\ Append(map, entry)[n + 1] = entry
      /\ \A m \in DOMAIN map : Append(map, entry)[m] = map[m]
  BY <1>1, AppendIs
<1>6. /\ new \in Seq(MapEntry) /\ DOMAIN new = 1 .. n + 1 /\ new[n + 1] = entry
      /\ \A m \in 1 .. n : new[m] = map[m]
  BY <1>4, <1>5
<1> HIDE DEF new
<1>7. ASSUME NEW m \in DOMAIN new
      PROVE  Good(new[m]) /\ (m > 1 => new[m - 1].end <= new[m].start)
  <2>1. CASE m = n + 1
    <3>1. new[m] = entry
      BY <1>6, <2>1
    <3>2. m > 1 => new[m - 1].end <= entry.start
      <4> SUFFICES ASSUME m > 1 PROVE new[m - 1].end <= entry.start
        OBVIOUS
      <4>1. n \in 1 .. n /\ m - 1 = n /\ n \in DOMAIN map
        BY <1>5, <2>1
      <4>2. new[m - 1] = map[n] /\ map[n] \in MapEntry
        BY <1>1, <1>6, <4>1
      <4>3. map[n].end <= Len(text) /\ map[n].end \in Nat /\ entry.start \in Nat
        BY <4>1, <4>2 DEF MapEntry, Locates
      <4> QED
        BY <1>1, <4>2, <4>3
    <3> HIDE DEF Good
    <3> QED
      BY <1>3, <3>1, <3>2
  <2>2. CASE m # n + 1
    <3>1. m \in 1 .. n /\ m \in DOMAIN map /\ (m > 1 => m - 1 \in 1 .. n)
      BY <1>5, <1>6, <2>2
    <3>2. Good(map[m]) /\ (m > 1 => map[m - 1].end <= map[m].start)
      BY <1>2, <3>1 DEF Locates
    <3> HIDE DEF Good
    <3> QED
      BY <1>6, <3>1, <3>2
  <2> QED
    BY <2>1, <2>2
<1>8. Locates(visible, longer, new, truncated)
  BY <1>6, <1>7 DEF Locates
<1> QED
  BY <1>8 DEF longer, new

\* Texts are joined in any grouping.
LEMMA TextsAssociative ==
  ASSUME NEW x \in Texts, NEW y \in Texts, NEW z \in Texts
  PROVE  (x \o y) \o z = x \o (y \o z)
<1>1. x \in Seq(Characters) /\ y \in Seq(Characters) /\ z \in Seq(Characters)
  BY DEF Texts
<1> QED
  BY ONLY <1>1, ConcatAssociative

\* A round keeps what the rounds before it kept.
LEMMA RoundStep ==
  ASSUME RoundTripTypeOK, NEW visible \in Seq(ChunkRow), NEW w, Whole(visible, w), NEW max \in Nat,
         NEW k \in 1 .. Len(visible), NEW out, RoundOK(visible, w, max, out, k - 1)
  PROVE  RoundOK(visible, w, max, Emitted(visible, max, out, k), k)
<1> USE RoundTripAssumption
<1> DEFINE separator == IF visible[k].piece # Null THEN visible[k].piece.gap
                        ELSE LegacySeparator(out.previous, visible[k].of)
           payload == Payload(visible[k])
           candidate == separator \o payload
           e == Clipped(candidate, max, Len(out.text))
           cut == Len(e) < Len(candidate) \/ (max # 0 /\ max <= Len(out.text))
           next == [text |-> out.text \o e,
                    map |-> out.map \o Entry(k, Len(out.text), separator, e),
                    truncated |-> cut, previous |-> visible[k].of]
<1>1. Len(visible) \in Nat /\ k \in DOMAIN visible /\ k \in Nat /\ k # 0 /\ k - 1 \in 0 .. Len(visible)
      /\ k \in 0 .. Len(visible)
  OBVIOUS
<1>2. /\ Before(visible, k) \in Texts /\ payload \in Texts /\ Part(visible, k) \in Texts
      /\ visible[k].of # Null
  BY <1>1, RowIs
<1>3. w[k] = w[k - 1] \o Part(visible, k) /\ w[k - 1] \in Texts /\ w[k] \in Texts
  BY <1>1 DEF Whole
<1>4. Emitted(visible, max, out, k) = IF out.truncated THEN out ELSE next
  BY DEF Emitted
<1>5. out.text \in Texts /\ out.truncated \in BOOLEAN /\ (max # 0 => Len(out.text) <= max)
  BY DEF RoundOK
<1>6. CASE out.truncated
  <2>1. max # 0 /\ Len(out.text) = max /\ Locates(visible, out.text, out.map, out.truncated)
    BY <1>6 DEF RoundOK
  <2>2. PICK rest \in Texts : w[k - 1] = out.text \o rest /\ (rest # <<>> \/ Vacant(visible))
    BY <1>6 DEF RoundOK
  <2> DEFINE more == rest \o Part(visible, k)
  <2>3. more \in Texts /\ (more # <<>> \/ Vacant(visible))
    BY <1>2, <2>2, ConcatProperties, ConcatEqualIffEmpty DEF Texts
  <2>4. w[k] = out.text \o more
    <3> DEFINE x == out.text
               y == Part(visible, k)
    <3>2. x \in Texts /\ rest \in Texts /\ y \in Texts
      BY <1>2, <1>5
    <3> HIDE DEF x, y
    <3>3. (x \o rest) \o y = x \o (rest \o y)
      BY ONLY <3>2, TextsAssociative
    <3> QED
      BY <1>3, <2>2, <3>3 DEF x, y
  <2> HIDE DEF more
  <2>5. RoundOK(visible, w, max, out, k)
    BY <1>5, <1>6, <2>1, <2>3, <2>4 DEF RoundOK
  <2> QED
    BY <1>4, <1>6, <2>5
<1>7. CASE ~out.truncated
  <2> DEFINE text == out.text
             used == Len(text)
  <2>1. /\ text = w[k - 1] /\ out.previous = IF k - 1 = 0 THEN Null ELSE visible[k - 1].of
        /\ Locates(visible, text, out.map, FALSE)
    <3>1. out.truncated = FALSE
      BY <1>5, <1>7
    <3> QED
      BY <1>7, <3>1 DEF RoundOK
  <2>2. separator = Before(visible, k)
    <3>1. CASE k = 1
      BY <2>1, <3>1 DEF LegacySeparator, Before
    <3>2. CASE k # 1
      <4>1. k - 1 \in DOMAIN visible /\ k - 1 # 0
        BY <3>2
      <4>2. visible[k - 1].of # Null
        BY <4>1, RowIs
      <4> QED
        BY <2>1, <3>2, <4>1, <4>2 DEF LegacySeparator, Before
    <3> QED
      BY <3>1, <3>2
  <2>3. candidate = Part(visible, k) /\ candidate \in Texts /\ separator \in Texts
    BY <1>2, <2>2 DEF Part
  <2> HIDE DEF separator, payload
  <2>4. used \in Nat /\ (max = 0 \/ used <= max)
    BY <1>5 DEF Texts
  <2>20. /\ candidate \in Seq(Characters) /\ max \in Nat /\ used \in Nat
         /\ (max = 0 \/ used <= max)
    BY <2>3, <2>4 DEF Texts
  <2>21. Begins(Clipped(candidate, max, used), candidate, max, used, Characters)
    <3> HIDE DEF candidate, used
    <3> QED
      BY ONLY <2>20, ClippedIs
  <2>22. e = Clipped(candidate, max, used)
    OBVIOUS
  <2> HIDE DEF e
  <2>5. PICK rest \in Texts : candidate = e \o rest /\ Len(rest) = Len(candidate) - Len(e)
    <3> HIDE DEF candidate, used
    <3> QED
      BY <2>21, <2>22 DEF Texts, Begins
  <2>6. /\ e \in Texts /\ Len(e) <= Len(candidate) /\ (max # 0 => used + Len(e) <= max)
        /\ Len(e) < Len(candidate) => max # 0 /\ used + Len(e) = max
        /\ Len(e) = Len(candidate) => e = candidate
    <3> HIDE DEF candidate, used
    <3> QED
      BY <2>21, <2>22 DEF Texts, Begins
  <2>7. /\ Len(e) \in Nat /\ Len(candidate) \in Nat /\ Len(separator) \in Nat
        /\ text \in Seq(Characters) /\ e \in Seq(Characters) /\ rest \in Seq(Characters)
    <3> HIDE DEF candidate
    <3> QED
      BY <1>5, <2>3, <2>5, <2>6, SMTT(30) DEF Texts
  <2>8. ~cut => e = candidate
    <3> HIDE DEF candidate
    <3> QED
      BY <2>6, <2>7
  <2>23. cut => max # 0 /\ used + Len(e) = max
    <3>1. max # 0 /\ max <= used => used + Len(e) = max
      <4>1. /\ max \in Nat /\ used \in Nat /\ Len(e) \in Nat
            /\ (max # 0 => used + Len(e) <= max)
        BY <2>4, <2>6, <2>7
      <4> HIDE DEF used
      <4> QED
        BY ONLY <4>1
    <3> HIDE DEF candidate
    <3> QED
      BY <2>6, <3>1
  <2>9. cut => rest # <<>> \/ Vacant(visible)
    <3> SUFFICES ASSUME cut, rest = <<>> PROVE Vacant(visible)
      OBVIOUS
    <3>1. Len(e) = Len(candidate)
      <4> HIDE DEF candidate
      <4> QED
        BY <2>5, <2>7
    <3>2. max # 0 /\ max <= used /\ used + Len(e) <= max
      <4> HIDE DEF candidate
      <4> QED
        BY <2>6, <2>7, <3>1
    <3>3. Len(candidate) = 0
      <4> HIDE DEF candidate, used
      <4> QED
        BY <2>4, <2>7, <3>1, <3>2
    <3>4. /\ separator \in Seq(Characters) /\ payload \in Seq(Characters)
          /\ Len(separator) \in Nat /\ Len(payload) \in Nat
      BY <1>2, <2>3 DEF Texts
    <3>5. Len(candidate) = Len(separator) + Len(payload)
      BY <3>4, ConcatProperties
    <3>6. Len(payload) = 0
      <4>1. Len(separator) + Len(payload) = 0 /\ Len(separator) \in Nat /\ Len(payload) \in Nat
        BY <3>3, <3>4, <3>5
      <4> QED
        BY ONLY <4>1
    <3>7. payload = <<>>
      BY <3>4, <3>6
    <3> QED
      BY <1>1, <3>7 DEF Vacant, payload
  <2>10. text \o e \in Texts /\ Len(text \o e) = used + Len(e)
    BY <2>7, ConcatProperties DEF Texts
  <2>11. w[k] = (text \o e) \o rest
    <3>1. w[k] = text \o (e \o rest)
      BY <1>3, <2>1, <2>3, <2>5
    <3>2. (text \o e) \o rest = text \o (e \o rest)
      <4>1. text \in Seq(Characters) /\ e \in Seq(Characters) /\ rest \in Seq(Characters)
        BY <2>7
      <4> HIDE DEF text
      <4> QED
        BY ONLY <4>1, ConcatAssociative, SMTT(30)
    <3> QED
      BY <3>1, <3>2
  <2>12. ~cut => w[k] = text \o e
    BY <1>3, <2>1, <2>3, <2>8
  <2>13. Locates(visible, text \o e, out.map \o Entry(k, used, separator, e), cut)
    <3>1. CASE Len(e) > Len(separator)
      <4> DEFINE entry == [chunk |-> k, start |-> used + Len(separator), end |-> used + Len(e)]
                 found == Slice(text \o e, used + Len(separator), used + Len(e))
      <4>1. Entry(k, used, separator, e) = <<entry>>
        BY <3>1 DEF Entry
      <4>2. entry \in MapEntry
        BY <1>1, <2>4, <2>7, SMTT(30) DEF MapEntry
      <4>3. entry.start = used + Len(separator) /\ entry.end = used + Len(e) /\ entry.chunk = k
        OBVIOUS
      <4>4. /\ IsPrefix(found, payload) /\ (e = separator \o payload => found = payload)
            /\ used + Len(e) <= Len(text \o e)
        <5>1. /\ text \in Texts /\ separator \in Texts /\ payload \in Texts /\ e \in Texts /\ rest \in Texts
              /\ separator \o payload = e \o rest /\ Len(e) > Len(separator)
          BY <1>2, <1>5, <2>3, <2>5, <2>6, <3>1
        <5>2. LET f == Slice(text \o e, Len(text) + Len(separator), Len(text) + Len(e))
              IN  /\ IsPrefix(f, payload)
                  /\ e = separator \o payload => f = payload
                  /\ Len(text) + Len(e) <= Len(text \o e)
          BY ONLY <5>1, EntryFinds
        <5> QED
          BY <5>2
      <4>5. found = payload \/ cut
        BY <2>8, <4>4
      <4>6. Payload(visible[k]) = payload
        BY DEF payload
      <4>7. used <= entry.start /\ entry.start <= entry.end /\ entry.end <= Len(text \o e)
        <5>1. used \in Nat /\ Len(separator) \in Nat /\ Len(e) \in Nat /\ Len(separator) < Len(e)
          BY <2>4, <2>7, <3>1
        <5>2. used <= used + Len(separator) /\ used + Len(separator) <= used + Len(e)
          BY ONLY <5>1
        <5> QED
          BY <4>3, <4>4, <5>2
      <4>8. cut \in BOOLEAN
        OBVIOUS
      <4> HIDE DEF entry, cut
      <4>9. LET f == Slice(text \o e, entry.start, entry.end)
                p == Payload(visible[entry.chunk])
            IN  IsPrefix(f, p) /\ (f = p \/ cut)
        BY <4>3, <4>4, <4>5, <4>6
      <4>10. Locates(visible, text \o e, out.map \o <<entry>>, cut)
        <5>1. /\ text \in Texts /\ e \in Texts /\ cut \in BOOLEAN /\ Locates(visible, text, out.map, FALSE)
              /\ entry \in MapEntry /\ Len(text) <= entry.start /\ entry.start <= entry.end
              /\ entry.end <= Len(text \o e)
              /\ LET f == Slice(text \o e, entry.start, entry.end)
                     p == Payload(visible[entry.chunk])
                 IN  IsPrefix(f, p) /\ (f = p \/ cut)
          BY <1>5, <2>1, <2>6, <4>2, <4>7, <4>8, <4>9
        <5> HIDE DEF text
        <5> QED
          BY ONLY <5>1, LocatesNext
      <4> QED
        BY <4>1, <4>10
    <3>2. CASE ~(Len(e) > Len(separator))
      <4>1. Entry(k, used, separator, e) = <<>>
        BY <3>2 DEF Entry
      <4>2. out.map \in Seq(MapEntry)
        BY <2>1 DEF Locates
      <4>3. out.map \o <<>> = out.map
        BY <4>2, ConcatEmptySeq
      <4>4. cut \in BOOLEAN
        OBVIOUS
      <4> HIDE DEF cut
      <4>5. Locates(visible, text \o e, out.map, cut)
        <5>1. text \in Texts /\ e \in Texts /\ cut \in BOOLEAN /\ Locates(visible, text, out.map, FALSE)
          BY <1>5, <2>1, <2>6, <4>4
        <5> HIDE DEF text
        <5> QED
          BY ONLY <5>1, LocatesMore
      <4> QED
        BY <4>1, <4>3, <4>5
    <3> QED
      BY <3>1, <3>2
  <2>14. cut \in BOOLEAN
    OBVIOUS
  <2>15. cut => /\ max # 0 /\ Len(text \o e) = max
                /\ \E more \in Texts : w[k] = (text \o e) \o more /\ (more # <<>> \/ Vacant(visible))
    BY <2>5, <2>9, <2>10, <2>11, <2>23
  <2>16. max # 0 => Len(text \o e) <= max
    BY <2>6, <2>10
  <2> HIDE DEF cut, text
  <2>17. /\ next.text = text \o e /\ next.truncated = cut /\ next.previous = visible[k].of
         /\ next.map = out.map \o Entry(k, used, separator, e)
    BY DEF text
  <2> HIDE DEF next
  <2>18. RoundOK(visible, w, max, next, k)
    BY <1>1, <2>10, <2>12, <2>13, <2>14, <2>15, <2>16, <2>17 DEF RoundOK
  <2> QED
    BY <1>4, <1>7, <2>18
<1> QED
  BY <1>5, <1>6, <1>7

\* What all rounds keep.
LEMMA JoinedOK ==
  ASSUME RoundTripTypeOK, NEW visible \in Seq(ChunkRow), NEW w, Whole(visible, w), NEW max \in Nat
  PROVE  RoundOK(visible, w, max, Joined(visible, max), Len(visible))
<1> DEFINE n == Len(visible)
<1>1. n \in Nat
  OBVIOUS
<1>2. PICK out : /\ out[0] = Unread
                 /\ \A k \in 1 .. n : out[k] = Emitted(visible, max, out[k - 1], k)
                 /\ Joined(visible, max) = out[n]
  BY <1>1, JoinedIs
<1> DEFINE Good(k) == RoundOK(visible, w, max, out[k], k)
           B == {k \in Nat : k \in 0 .. n /\ ~Good(k)}
<1>3. Good(0)
  <2>1. /\ Unread.text = <<>> /\ Unread.map = <<>> /\ Unread.truncated = FALSE /\ Unread.previous = Null
    BY DEF Unread
  <2>2. <<>> \in Texts /\ <<>> \in Seq(MapEntry) /\ Len(<<>>) = 0 /\ DOMAIN <<>> = {}
    BY DEF Texts
  <2>3. w[0] = <<>>
    BY DEF Whole
  <2>4. Locates(visible, <<>>, <<>>, FALSE)
    BY <2>2 DEF Locates
  <2>5. max # 0 => 0 <= max
    OBVIOUS
  <2>6. RoundOK(visible, w, max, Unread, 0)
    BY <2>1, <2>2, <2>3, <2>4, <2>5 DEF RoundOK
  <2> QED
    BY <1>2, <2>6
<1>4. B = {}
  <2> SUFFICES ASSUME B # {} PROVE FALSE
    OBVIOUS
  <2>1. PICK k \in B : k = 0 \/ (k - 1 \in Nat /\ k - 1 \notin B)
    <3>1. B \in SUBSET Nat
      OBVIOUS
    <3> HIDE DEF B
    <3> QED
      BY <3>1, FirstBad
  <2>2. k \in 0 .. n /\ ~Good(k)
    OBVIOUS
  <2>3. k # 0
    BY <1>3, <2>2
  <2>4. k \in 1 .. n /\ k - 1 \in 0 .. n
    BY <1>1, <2>2, <2>3
  <2>5. Good(k - 1)
    <3> HIDE DEF Good
    <3> QED
      BY <2>1, <2>3, <2>4
  <2>6. RoundOK(visible, w, max, Emitted(visible, max, out[k - 1], k), k)
    BY <2>4, <2>5, RoundStep
  <2>7. out[k] = Emitted(visible, max, out[k - 1], k)
    BY <1>2, <2>4
  <2> QED
    BY <2>2, <2>6, <2>7
<1>5. n \in 0 .. n /\ n \notin B
  BY <1>1, <1>4
<1>6. Good(n)
  <2> HIDE DEF Good
  <2> QED
    BY <1>1, <1>5
<1> QED
  BY <1>2, <1>6

\* An answer, against the whole text of its rows.
AnswerOK(visible, whole, max, answer) ==
  /\ answer # Null /\ answer.text \in Texts
  /\ IsPrefix(answer.text, whole) /\ (answer.text # whole => answer.truncated)
  /\ answer.truncated => Len(answer.text) = max /\ (answer.text # whole \/ Vacant(visible))
  /\ IF max = 0 THEN answer.text = whole ELSE Len(answer.text) <= max
  /\ Locates(visible, answer.text, answer.map, answer.truncated)

\* The end of the text is emitted like its rows.
LEMMA AssembledIs ==
  ASSUME RoundTripTypeOK, NEW visible \in Seq(ChunkRow), visible # <<>>, ~ScopeRaises(visible),
         NEW w, Whole(visible, w), NEW max \in Nat
  PROVE  AnswerOK(visible, w[Len(visible)] \o Suffix(visible), max, Assembled(visible, max))
<1> USE RoundTripAssumption
<1> DEFINE n == Len(visible)
           out == Joined(visible, max)
           text == out.text
           suffix == IF out.truncated THEN <<>> ELSE Suffix(visible)
           used == Len(text)
           e == Clipped(suffix, max, used)
           answer == [text |-> text \o e, map |-> out.map,
                      truncated |-> out.truncated \/ Len(e) < Len(suffix)]
           whole == w[n] \o Suffix(visible)
<1>1. RoundOK(visible, w, max, out, n)
  BY JoinedOK
<1>2. Assembled(visible, max) = answer
  BY DEF Assembled
<1>3. Suffix(visible) \in Texts /\ <<>> \in Texts
  BY SuffixIs DEF Texts
<1>4. w[n] \in Texts
  <2>1. n \in 0 .. Len(visible)
    OBVIOUS
  <2> QED
    BY <2>1 DEF Whole
<1>5. /\ text \in Texts /\ out.truncated \in BOOLEAN /\ (max # 0 => used <= max)
      /\ (~out.truncated => text = w[n])
      /\ (out.truncated => /\ max # 0 /\ used = max
                           /\ \E rest \in Texts : w[n] = text \o rest /\ (rest # <<>> \/ Vacant(visible)))
      /\ Locates(visible, text, out.map, out.truncated)
  BY <1>1 DEF RoundOK
<1> HIDE DEF out, n
<1>6. whole \in Texts
  BY <1>3, <1>4, ConcatProperties DEF Texts
<1>7. used \in Nat /\ (max = 0 \/ used <= max) /\ suffix \in Texts
  BY <1>3, <1>5 DEF Texts
<1>8. Begins(e, suffix, max, used, Characters)
  <2>1. /\ suffix \in Seq(Characters) /\ max \in Nat /\ used \in Nat /\ (max = 0 \/ used <= max)
    BY <1>7 DEF Texts
  <2>2. Begins(Clipped(suffix, max, used), suffix, max, used, Characters)
    <3> HIDE DEF suffix, used
    <3> QED
      BY ONLY <2>1, ClippedIs
  <2> QED
    BY <2>2
<1>9. /\ e \in Texts /\ Len(e) <= Len(suffix) /\ (max # 0 => used + Len(e) <= max)
      /\ (Len(e) < Len(suffix) => max # 0 /\ used + Len(e) = max) /\ (Len(e) = Len(suffix) => e = suffix)
      /\ Len(e) \in Nat /\ Len(suffix) \in Nat
  <2> HIDE DEF e, suffix, used
  <2> QED
    BY <1>7, <1>8 DEF Begins, Texts
<1>10. PICK rest \in Texts : suffix = e \o rest /\ Len(rest) = Len(suffix) - Len(e)
  <2> HIDE DEF e, suffix, used
  <2> QED
    BY <1>8 DEF Begins, Texts
<1> HIDE DEF e
<1>11. text \o e \in Texts /\ Len(text \o e) = used + Len(e)
  BY <1>5, <1>9, ConcatProperties DEF Texts
\* What is missing from the answer.
<1>12. PICK lost \in Texts : /\ whole = (text \o e) \o lost
                             /\ lost # <<>> => answer.truncated
                             /\ answer.truncated => lost # <<>> \/ Vacant(visible)
  <2>1. CASE out.truncated
    <3>1. e = <<>>
      <4>1. Len(e) = 0 /\ e \in Seq(Characters)
        BY <1>9, <2>1 DEF Texts
      <4> QED
        BY <4>1
    <3>2. text \o e = text
      <4>1. text \in Seq(Characters)
        BY <1>5 DEF Texts
      <4> QED
        BY <3>1, <4>1, ConcatEmptySeq
    <3>3. PICK more \in Texts : w[n] = text \o more /\ (more # <<>> \/ Vacant(visible))
      BY <1>5, <2>1
    <3> DEFINE lost == more \o Suffix(visible)
    <3>4. lost \in Texts /\ (lost # <<>> \/ Vacant(visible))
      BY <1>3, <3>3, ConcatProperties, ConcatEqualIffEmpty DEF Texts
    <3>5. whole = text \o lost
      <4> DEFINE x == text
                 z == Suffix(visible)
      <4>1. x \in Texts /\ more \in Texts /\ z \in Texts
        BY <1>3, <1>5
      <4> HIDE DEF x, z
      <4>2. (x \o more) \o z = x \o (more \o z)
        BY ONLY <4>1, TextsAssociative
      <4> QED
        BY <3>3, <4>2 DEF x, z
    <3> HIDE DEF lost, whole
    <3> QED
      BY <2>1, <3>2, <3>4, <3>5
  <2>2. CASE ~out.truncated
    <3>1. text = w[n] /\ suffix = Suffix(visible)
      BY <1>5, <2>2
    <3>2. whole = text \o (e \o rest)
      BY <1>10, <3>1
    <3>3. (text \o e) \o rest = text \o (e \o rest)
      <4> DEFINE x == text
      <4>1. x \in Texts /\ e \in Texts /\ rest \in Texts
        BY <1>5, <1>9
      <4> HIDE DEF x
      <4>2. (x \o e) \o rest = x \o (e \o rest)
        BY ONLY <4>1, TextsAssociative
      <4> QED
        BY <4>2 DEF x
    <3>4. rest # <<>> <=> Len(e) < Len(suffix)
      <4>1. rest \in Seq(Characters) /\ Len(rest) = Len(suffix) - Len(e)
        BY <1>10 DEF Texts
      <4>2. rest # <<>> <=> Len(rest) # 0
        BY <4>1
      <4> HIDE DEF suffix
      <4> QED
        BY <1>9, <4>1, <4>2
    <3> HIDE DEF whole, suffix
    <3> QED
      BY <2>2, <3>2, <3>3, <3>4
  <2> QED
    BY <2>1, <2>2, <1>5
<1>13. answer.text = text \o e /\ answer.map = out.map
  OBVIOUS
<1>14. answer.truncated = (out.truncated \/ Len(e) < Len(suffix))
  OBVIOUS
<1>15. IsPrefix(answer.text, whole)
  <2> DEFINE x == text \o e
  <2>1. x \in Seq(Characters) /\ lost \in Seq(Characters)
    BY <1>11 DEF Texts
  <2> HIDE DEF x
  <2>2. IsPrefix(x, x \o lost)
    BY ONLY <2>1, ConcatPrefix
  <2> HIDE DEF answer, whole
  <2> QED
    BY <1>12, <1>13, <2>2 DEF x
<1>16. /\ answer.text # whole => answer.truncated
       /\ answer.truncated => answer.text # whole \/ Vacant(visible)
  <2> DEFINE x == text \o e
  <2>1. x \in Seq(Characters) /\ lost \in Seq(Characters)
    BY <1>11 DEF Texts
  <2> HIDE DEF x
  <2>2. x \o lost = x <=> lost = <<>>
    BY ONLY <2>1, ConcatEqualIffEmpty
  <2>3. answer.truncated \in BOOLEAN
    BY <1>5, <1>14
  <2> HIDE DEF answer, whole
  <2> QED
    BY <1>12, <1>13, <2>2, <2>3 DEF x
<1>17. IF max = 0 THEN answer.text = whole ELSE Len(answer.text) <= max
  <2>1. CASE max = 0
    <3>1. answer.truncated = FALSE
      BY <1>5, <1>9, <2>1
    <3> HIDE DEF answer
    <3> QED
      BY <1>16, <2>1, <3>1
  <2>2. CASE max # 0
    <3>1. Len(text \o e) <= max
      BY <1>9, <1>11, <2>2
    <3> HIDE DEF answer
    <3> QED
      BY <1>13, <2>2, <3>1
  <2> QED
    BY <2>1, <2>2
<1>21. answer.truncated => Len(answer.text) = max
  <2>1. CASE out.truncated
    <3>1. Len(e) = 0 /\ used = max
      BY <1>5, <1>9, <2>1
    <3>2. Len(text \o e) = max
      <4> HIDE DEF used
      <4> QED
        BY <1>7, <1>11, <3>1
    <3> HIDE DEF answer
    <3> QED
      BY <1>13, <3>2
  <2>2. CASE ~out.truncated
    <3>1. answer.truncated => Len(e) < Len(suffix)
      BY <1>14, <2>2
    <3> HIDE DEF answer, suffix
    <3> QED
      BY <1>9, <1>11, <1>13, <3>1
  <2> QED
    BY <2>1, <2>2
<1>18. Locates(visible, answer.text, answer.map, answer.truncated)
  <2>1. answer.truncated \in BOOLEAN
    BY <1>5, <1>14
  <2>2. CASE out.truncated
    <3>1. e = <<>>
      <4>1. Len(e) = 0 /\ e \in Seq(Characters)
        BY <1>9, <2>2 DEF Texts
      <4> QED
        BY <4>1
    <3>2. text \o e = text
      <4>1. text \in Seq(Characters)
        BY <1>5 DEF Texts
      <4> QED
        BY <3>1, <4>1, ConcatEmptySeq
    <3>3. answer.truncated = out.truncated
      BY <2>2, <1>5, <1>14
    <3> HIDE DEF answer
    <3> QED
      BY <1>5, <1>13, <3>2, <3>3
  <2>3. CASE ~out.truncated
    <3> DEFINE truncated == answer.truncated
               map == out.map
    <3>1. /\ text \in Texts /\ e \in Texts /\ truncated \in BOOLEAN /\ Locates(visible, text, map, FALSE)
      BY <1>5, <1>9, <2>1, <2>3
    <3> HIDE DEF answer, text, truncated, map
    <3>2. Locates(visible, text \o e, map, truncated)
      BY ONLY <3>1, LocatesMore
    <3> QED
      BY <1>13, <3>2 DEF truncated, map
  <2> QED
    BY <2>2, <2>3
<1>19. answer.text \in Texts
  BY <1>11, <1>13
<1>20. answer # Null
  <2>1. answer.map \in Seq([chunk : Nat, start : Nat, end : Nat])
    BY <1>18 DEF Locates, MapEntry
  <2>2. answer.truncated \in BOOLEAN
    BY <1>5, <1>14
  <2>3. answer \in Answer
    BY <1>11, <1>13, <1>14, <2>1, <2>2 DEF Answer
  <2> HIDE DEF answer
  <2> QED
    BY <2>3
<1> HIDE DEF answer
<1> QED
  BY <1>2, <1>15, <1>16, <1>17, <1>18, <1>19, <1>20, <1>21 DEF AnswerOK, n

\* What callers read of any stored rows.
LEMMA ReadsAreRight ==
  ASSUME RoundTripTypeOK
  PROVE  ComparisonReadsWhatCallersGet /\ RangeMapLocatesChunks
<1> USE RoundTripAssumption
<1> DEFINE visible == VisibleRows(chunks)
<1>1. visible \in Seq(ChunkRow)
  <2> DEFINE S == {k \in DOMAIN chunks : chunks[k].live}
  <2>1. chunks \in Seq(ChunkRow) /\ S \in SUBSET DOMAIN chunks
    BY DEF RoundTripTypeOK
  <2> HIDE DEF S
  <2>2. Picked(chunks, S) \in Seq(ChunkRow)
    BY <2>1, PickedType
  <2> QED
    BY <2>2 DEF S, VisibleRows
<1> HIDE DEF visible
<1>2. visible # <<>> /\ ScopeRaises(visible) =>
        \A max \in Nat : Assembled(visible, max) = Null /\ ScopeText(visible) = Null
  BY DEF Assembled, ScopeText
<1>3. ASSUME visible # <<>>, ~ScopeRaises(visible)
      PROVE  \E whole \in Texts : /\ ScopeText(visible) = whole
                                  /\ \A max \in Nat : AnswerOK(visible, whole, max, Assembled(visible, max))
  <2>1. PICK w : Whole(visible, w) /\ ScopeText(visible) = w[Len(visible)] \o Suffix(visible)
    BY <1>1, <1>3, WholeExists
  <2> DEFINE whole == w[Len(visible)] \o Suffix(visible)
  <2>2. \A max \in Nat : AnswerOK(visible, whole, max, Assembled(visible, max))
    BY <1>1, <1>3, <2>1, AssembledIs
  <2> HIDE DEF whole
  <2>3. whole \in Texts
    <3>1. AnswerOK(visible, whole, 0, Assembled(visible, 0))
      BY <2>2
    <3> QED
      BY <3>1 DEF AnswerOK
  <2> QED
    BY <2>1, <2>2, <2>3 DEF whole
<1>4. ComparisonReadsWhatCallersGet
  <2>1. visible # <<>> => IF Assembled(visible, 0) = Null THEN ScopeText(visible) = Null
                       ELSE ScopeText(visible) = Assembled(visible, 0).text
    <3> SUFFICES ASSUME visible # <<>>
                 PROVE  IF Assembled(visible, 0) = Null THEN ScopeText(visible) = Null
                        ELSE ScopeText(visible) = Assembled(visible, 0).text
      OBVIOUS
    <3>1. CASE ScopeRaises(visible)
      BY <1>2, <3>1
    <3>2. CASE ~ScopeRaises(visible)
      <4>1. PICK whole \in Texts : /\ ScopeText(visible) = whole
                                   /\ \A max \in Nat : AnswerOK(visible, whole, max, Assembled(visible, max))
        BY <1>3, <3>2
      <4>2. AnswerOK(visible, whole, 0, Assembled(visible, 0))
        BY <4>1
      <4> QED
        BY <4>1, <4>2 DEF AnswerOK
    <3> QED
      BY <3>1, <3>2
  <2> QED
    BY <2>1 DEF ComparisonReadsWhatCallersGet, visible
<1>5. RangeMapLocatesChunks
  <2> DEFINE all == Assembled(visible, 0)
  <2>1. ASSUME visible # <<>>, all # Null, NEW max \in Limits
        PROVE  LET part == Assembled(visible, max)
               IN /\ IsPrefix(part.text, all.text)
                  /\ part.text # all.text => part.truncated
                  /\ part.truncated => \/ part.text # all.text
                                       \/ \E k \in DOMAIN visible : Payload(visible[k]) = <<>>
                  /\ max # 0 => Len(part.text) <= max
                  /\ part.truncated => Len(part.text) = max
                  /\ \A m \in DOMAIN part.map :
                       LET entry == part.map[m]
                           found == Slice(part.text, entry.start, entry.end)
                           text == Payload(visible[entry.chunk])
                       IN  /\ IsPrefix(found, text) /\ (found = text \/ part.truncated)
                           /\ m > 1 => part.map[m - 1].end <= entry.start
    <3>1. ~ScopeRaises(visible)
      BY <1>2, <2>1
    <3>2. PICK whole \in Texts : \A bound \in Nat : AnswerOK(visible, whole, bound, Assembled(visible, bound))
      BY <1>3, <2>1, <3>1
    <3>3. max \in Nat
      OBVIOUS
    <3>4. AnswerOK(visible, whole, max, Assembled(visible, max)) /\ AnswerOK(visible, whole, 0, all)
      BY <3>2, <3>3
    <3>5. all.text = whole
      BY <3>4 DEF AnswerOK
    <3> DEFINE part == Assembled(visible, max)
    <3> HIDE DEF all, part
    <3>6. /\ IsPrefix(part.text, all.text) /\ (part.text # all.text => part.truncated)
          /\ part.truncated => part.text # all.text \/ Vacant(visible)
          /\ max # 0 => Len(part.text) <= max
          /\ part.truncated => Len(part.text) = max
          /\ Locates(visible, part.text, part.map, part.truncated)
      BY <3>4, <3>5 DEF AnswerOK, part
    <3>7. ASSUME NEW m \in DOMAIN part.map
          PROVE  /\ IsPrefix(Slice(part.text, part.map[m].start, part.map[m].end), Payload(visible[part.map[m].chunk]))
                 /\ \/ Slice(part.text, part.map[m].start, part.map[m].end) = Payload(visible[part.map[m].chunk])
                    \/ part.truncated
                 /\ m > 1 => part.map[m - 1].end <= part.map[m].start
      BY <3>6 DEF Locates
    <3> QED
      BY <3>6, <3>7 DEF part, Vacant
  <2> HIDE DEF all
  <2>2. visible # <<>> /\ all # Null =>
          \A max \in Limits :
            LET part == Assembled(visible, max)
            IN  /\ IsPrefix(part.text, all.text)
                /\ part.text # all.text => part.truncated
                /\ part.truncated => \/ part.text # all.text
                                     \/ \E k \in DOMAIN visible : Payload(visible[k]) = <<>>
                /\ max # 0 => Len(part.text) <= max
                /\ part.truncated => Len(part.text) = max
                /\ \A m \in DOMAIN part.map :
                     LET entry == part.map[m]
                         found == Slice(part.text, entry.start, entry.end)
                         text == Payload(visible[entry.chunk])
                     IN  /\ IsPrefix(found, text) /\ (found = text \/ part.truncated)
                         /\ m > 1 => part.map[m - 1].end <= entry.start
    BY <2>1
  <2> QED
    BY <2>2 DEF RangeMapLocatesChunks, all, visible
<1> QED
  BY <1>4, <1>5

\* Whatever was stored, edited or hidden: source_file_reconstruct, chapter_text_get and
\* the comparison read the same text of the rows, a limited answer is its beginning and
\* says whether it is all (or what is left is a chunk of no text), range_map finds every chunk in it, and a refused comparison
\* points at the first character where the texts part.
THEOREM ReadersAgree == RoundTripSpec => []ReadsInv
<1>1. RoundTripInv /\ [RoundTripNext]_roundTripVars => RoundTripInv'
  BY RoundTripStepInv
<1>2. RoundTripInv => ReadsInv
  <2> SUFFICES ASSUME RoundTripInv PROVE ReadsInv
    OBVIOUS
  <2>1. RoundTripTypeOK
    BY DEF RoundTripInv
  <2> QED
    BY <2>1, ReadsAreRight, DiagnosticIs DEF ReadsInv
<1> QED
  BY RoundTripInitInv, <1>1, <1>2, PTL DEF RoundTripSpec

=============================================================================
