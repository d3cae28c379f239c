---------------------------- MODULE TemporalProofs ----------------------------
(***************************************************************************)
(* Theorems of TemporalAssertions for every set of objects, families and   *)
(* callers, every horizon of both axes and any number of revisions.        *)
(***************************************************************************)
EXTENDS TemporalAssertions, FiniteSetTheorems, SequenceTheorems, TLAPS

-----------------------------------------------------------------------------
(* The invariant.                                                          *)

\* A row supersedes an earlier one.
BackReferences(h) == \A k \in DOMAIN h : h[k].supersedes < k

Disjoint(h) ==
  \A j, k \in Accepted(h) : j # k /\ h[j].family = h[k].family => ~Overlaps(h[j], h[k])

\* _append_source_state writes no deletion and leaves one accepted state.
OneSourceState(h) ==
  /\ \A k \in DOMAIN h : h[k].family = SourceFamily => h[k].kind # "deletion"
  /\ \A j, k \in Accepted(h) : h[j].family = SourceFamily /\ h[k].family = SourceFamily => j = k

\* A row that meets an earlier one of its family came after what superseded that one.
MetOnlySuperseded(h) ==
  \A j, k \in DOMAIN h :
    j < k /\ h[j].family = h[k].family /\ Overlaps(h[j], h[k]) =>
      h[k].supersedes = j \/ \E m \in j + 1 .. k - 1 : h[m].supersedes = j

HistoryOK(h) ==
  BackReferences(h) /\ Disjoint(h) /\ OneSourceState(h) /\ MetOnlySuperseded(h)

\* Callers in turn record in order.
SerialHistoryOK(h) ==
  \A j, k \in DOMAIN h : j <= k => h[j].recorded <= h[k].recorded

\* A transaction began at or before the clock; a checked prior stays a row of
\* its object, in a family of the service.
TxOK(w) ==
  /\ tx[w].pc # "none" => w \in setting.callers /\ tx[w].started \in 1 .. clock
  /\ tx[w].pc = "checked" =>
       /\ tx[w].prior \in DOMAIN assertions[tx[w].object]
       /\ assertions[tx[w].object][tx[w].prior].family \in ServiceFamilies

\* A caller alone began after every row was recorded, and its prior stays accepted.
SerialTxOK(w) ==
  /\ tx[w].pc # "none" => \A o \in Objects : \A k \in DOMAIN assertions[o] :
                            assertions[o][k].recorded <= tx[w].started
  /\ tx[w].pc = "checked" => tx[w].prior \in Accepted(assertions[tx[w].object])

ObjectOK(o) ==
  /\ HistoryOK(assertions[o])
  /\ \A k \in DOMAIN assertions[o] : assertions[o][k].recorded <= clock
  /\ Serial => SerialHistoryOK(assertions[o])

TemporalInv ==
  /\ TypeOK
  /\ \A o \in Objects : ObjectOK(o)
  /\ \A w \in Callers : TxOK(w) /\ (Serial => SerialTxOK(w))

-----------------------------------------------------------------------------
(* Histories.  g extends h by rows of family f that supersede p.           *)

NewIn(h, g) == DOMAIN g \ DOMAIN h

NewRowOK(h, g, f, p, now, k) ==
  /\ g[k].family = f /\ g[k].supersedes = p /\ g[k].recorded = now
  /\ g[k].from < g[k].until
  /\ f = SourceFamily => g[k].kind # "deletion"
  /\ \A j \in Accepted(h) : j # p /\ h[j].family = f => ~Overlaps(h[j], g[k])

Extension(h, g, f, p, now) ==
  /\ g \in Seq(Assertion) /\ Len(h) < Len(g)
  /\ \A k \in DOMAIN h : g[k] = h[k]
  /\ p \in DOMAIN h \cup {NotGiven} /\ (p \in DOMAIN h => h[p].family = f)
  /\ \A k \in NewIn(h, g) : NewRowOK(h, g, f, p, now, k)
  /\ \A j, k \in NewIn(h, g) : j # k => ~Overlaps(g[j], g[k])
  /\ f = SourceFamily => /\ \A j \in Accepted(h) : j # p => h[j].family # f
                         /\ Len(g) = Len(h) + 1

LEMMA RowType ==
  ASSUME TypeOK, NEW h \in Seq(Assertion), NEW k \in DOMAIN h
  PROVE  /\ h[k] \in Assertion /\ h[k].from \in Int /\ h[k].until \in Int
         /\ h[k].recorded \in KnownTimes /\ h[k].supersedes \in Nat
         /\ k \in Nat /\ k >= 1 /\ k <= Len(h) /\ DOMAIN h = 1 .. Len(h) /\ Len(h) \in Nat
<1>1. h[k] \in Assertion
  OBVIOUS
<1>2. setting.last \in Nat
  BY TemporalAssumption DEF TypeOK
<1>3. /\ h[k].from \in Int /\ h[k].until \in Int /\ h[k].recorded \in KnownTimes
      /\ h[k].supersedes \in Nat
  BY <1>1, <1>2, TemporalAssumption DEF Assertion, Times, Open
<1> QED
  BY <1>1, <1>3

\* What an extension accepts: the rows it does not supersede, and its own.
LEMMA AcceptedOfExtension ==
  ASSUME TypeOK, NEW h \in Seq(Assertion), BackReferences(h),
         NEW g, NEW f, NEW p, NEW now, Extension(h, g, f, p, now)
  PROVE  /\ Accepted(g) = (Accepted(h) \ {p}) \cup NewIn(h, g)
         /\ NewIn(h, g) = Len(h) + 1 .. Len(g) /\ NewIn(h, g) # {}
         /\ DOMAIN g = DOMAIN h \cup NewIn(h, g) /\ Accepted(h) \subseteq DOMAIN h
<1>1. /\ DOMAIN h = 1 .. Len(h) /\ DOMAIN g = 1 .. Len(g) /\ Len(h) \in Nat /\ Len(g) \in Nat
      /\ Len(h) < Len(g) /\ g \in Seq(Assertion)
  BY DEF Extension
<1>2. NewIn(h, g) = Len(h) + 1 .. Len(g) /\ NewIn(h, g) # {} /\ DOMAIN g = DOMAIN h \cup NewIn(h, g)
  <2>1. NewIn(h, g) = Len(h) + 1 .. Len(g)
    BY <1>1 DEF NewIn
  <2>2. Len(h) + 1 \in Len(h) + 1 .. Len(g) /\ DOMAIN h \subseteq DOMAIN g
    BY <1>1
  <2> QED
    BY <2>1, <2>2 DEF NewIn
<1>3. SupersededIn(g) = SupersededIn(h) \cup {p}
  <2>1. \A k \in DOMAIN h : g[k].supersedes = h[k].supersedes
    BY DEF Extension
  <2>2. \A k \in NewIn(h, g) : g[k].supersedes = p
    BY DEF Extension, NewRowOK
  <2> QED
    BY <1>2, <2>1, <2>2 DEF SupersededIn
<1>4. \A k \in NewIn(h, g) : k \notin SupersededIn(h) /\ k # p
  <2>1. \A j \in DOMAIN h : h[j].supersedes < j /\ h[j].supersedes \in Nat /\ j <= Len(h)
    BY RowType DEF BackReferences
  <2>2. p <= Len(h) /\ p \in Nat
    <3>1. p \in DOMAIN h \cup {0}
      BY DEF Extension, NotGiven
    <3> QED
      BY <1>1, <3>1
  <2> QED
    BY <1>1, <1>2, <2>1, <2>2 DEF SupersededIn
<1>5. NewIn(h, g) \cap DOMAIN h = {}
  BY DEF NewIn
<1> QED
  BY <1>2, <1>3, <1>4, <1>5 DEF Accepted

LEMMA ExtensionKeepsHistory ==
  ASSUME TypeOK, NEW h \in Seq(Assertion), HistoryOK(h),
         NEW g, NEW f, NEW p, NEW now, Extension(h, g, f, p, now)
  PROVE  HistoryOK(g)
<1>1. /\ Accepted(g) = (Accepted(h) \ {p}) \cup NewIn(h, g)
      /\ NewIn(h, g) = Len(h) + 1 .. Len(g)
      /\ DOMAIN g = DOMAIN h \cup NewIn(h, g) /\ Accepted(h) \subseteq DOMAIN h
  BY AcceptedOfExtension DEF HistoryOK
<1>2. /\ \A k \in DOMAIN h : g[k] = h[k]
      /\ g \in Seq(Assertion) /\ Len(h) \in Nat /\ DOMAIN h = 1 .. Len(h)
      /\ \A k \in NewIn(h, g) : NewRowOK(h, g, f, p, now, k)
  BY DEF Extension
<1>3. BackReferences(g)
  <2>1. p <= Len(h) /\ p \in Nat
    BY <1>2 DEF Extension, NotGiven
  <2> QED
    BY <1>1, <1>2, <2>1 DEF BackReferences, HistoryOK, NewRowOK
<1>4. \A k \in DOMAIN g : g[k].from \in Int /\ g[k].until \in Int
  BY <1>2, RowType
<1>5. Disjoint(g)
  <2>1. ASSUME NEW j \in Accepted(g), NEW k \in Accepted(g), j # k, g[j].family = g[k].family
        PROVE  ~Overlaps(g[j], g[k])
    <3>1. CASE j \in NewIn(h, g) /\ k \in NewIn(h, g)
      BY <2>1, <3>1 DEF Extension
    <3>2. CASE j \in Accepted(h) \ {p} /\ k \in NewIn(h, g)
      BY <1>1, <1>2, <2>1, <3>2 DEF NewRowOK
    <3>3. CASE j \in NewIn(h, g) /\ k \in Accepted(h) \ {p}
      <4>1. ~Overlaps(g[k], g[j])
        BY <1>1, <1>2, <2>1, <3>3 DEF NewRowOK
      <4> QED
        BY <4>1 DEF Overlaps
    <3>4. CASE j \in Accepted(h) \ {p} /\ k \in Accepted(h) \ {p}
      BY <1>1, <1>2, <2>1, <3>4 DEF HistoryOK, Disjoint
    <3> QED
      BY <1>1, <3>1, <3>2, <3>3, <3>4
  <2> QED
    BY <2>1 DEF Disjoint
<1>6. OneSourceState(g)
  <2>1. \A k \in DOMAIN g : g[k].family = SourceFamily => g[k].kind # "deletion"
    BY <1>1, <1>2 DEF HistoryOK, OneSourceState, NewRowOK
  <2>2. ASSUME NEW j \in Accepted(g), NEW k \in Accepted(g),
               g[j].family = SourceFamily, g[k].family = SourceFamily
        PROVE  j = k
    <3>1. CASE f = SourceFamily
      <4>1. NewIn(h, g) = {Len(h) + 1} /\ \A i \in Accepted(h) : i # p => h[i].family # f
        BY <1>1, <1>2, <3>1 DEF Extension
      <4> QED
        BY <1>1, <1>2, <2>2, <3>1, <4>1
    <3>2. CASE f # SourceFamily
      BY <1>1, <1>2, <2>2, <3>2 DEF HistoryOK, OneSourceState, NewRowOK
    <3> QED
      BY <3>1, <3>2
  <2> QED
    BY <2>1, <2>2 DEF OneSourceState
<1>7. MetOnlySuperseded(g)
  <2> SUFFICES ASSUME NEW j \in DOMAIN g, NEW k \in DOMAIN g, j < k,
                      g[j].family = g[k].family, Overlaps(g[j], g[k]), g[k].supersedes # j
               PROVE  \E m \in j + 1 .. k - 1 : g[m].supersedes = j
    BY DEF MetOnlySuperseded
  <2>1. CASE k \in DOMAIN h
    <3>1. j \in DOMAIN h
      BY <1>1, <1>2, <2>1
    <3>2. PICK m \in j + 1 .. k - 1 : h[m].supersedes = j
      BY <1>2, <2>1, <3>1 DEF HistoryOK, MetOnlySuperseded
    <3>3. m \in DOMAIN h
      BY <1>2, <2>1, <3>1
    <3> QED
      BY <1>2, <3>2, <3>3
  <2>2. CASE k \in NewIn(h, g)
    <3>1. j \in DOMAIN h
      BY <1>1, <2>2 DEF Extension
    <3>2. g[k].supersedes = p /\ g[k].family = f /\ g[j] = h[j] /\ j # p
      BY <1>2, <2>2, <3>1 DEF NewRowOK
    <3>3. j \notin Accepted(h)
      BY <1>2, <2>2, <3>2 DEF NewRowOK
    <3>4. PICK m \in DOMAIN h : h[m].supersedes = j
      BY <3>1, <3>3 DEF Accepted, SupersededIn
    <3>5. j < m
      BY <3>4 DEF HistoryOK, BackReferences
    <3>6. m \in j + 1 .. k - 1
      BY <1>1, <1>2, <2>2, <3>1, <3>4, <3>5
    <3> QED
      BY <1>2, <3>4, <3>6
  <2> QED
    BY <1>1, <2>1, <2>2
<1> QED
  BY <1>3, <1>5, <1>6, <1>7 DEF HistoryOK

\* As of a known time before the extension's own, nothing changes.
LEMMA ExtensionKeepsThePast ==
  ASSUME TypeOK, NEW h \in Seq(Assertion), HistoryOK(h),
         NEW g, NEW f, NEW p, NEW now \in KnownTimes, Extension(h, g, f, p, now),
         NEW known \in Int, known < now
  PROVE  \A act : Visible(g, act, known) = Visible(h, act, known)
<1>1. DOMAIN g = DOMAIN h \cup NewIn(h, g) /\ \A k \in DOMAIN h : g[k] = h[k]
  BY AcceptedOfExtension DEF HistoryOK, Extension
<1>2. \A k \in NewIn(h, g) : ~(g[k].recorded <= known)
  BY DEF Extension, NewRowOK, KnownTimes
<1>3. {k \in DOMAIN g : g[k].recorded <= known} = {k \in DOMAIN h : h[k].recorded <= known}
  BY <1>1, <1>2
<1>4. SupersededAsOf(g, known) = SupersededAsOf(h, known)
  <2> DEFINE G == {k \in DOMAIN g : g[k].recorded <= known}
             H == {k \in DOMAIN h : h[k].recorded <= known}
  <2>1. SupersededAsOf(g, known) = {g[k].supersedes : k \in G}
    BY DEF SupersededAsOf
  <2>2. SupersededAsOf(h, known) = {h[k].supersedes : k \in H}
    BY DEF SupersededAsOf
  <2>3. G = H /\ \A k \in H : g[k].supersedes = h[k].supersedes
    BY <1>1, <1>3
  <2> HIDE DEF G, H
  <2> QED
    BY <2>1, <2>2, <2>3
<1> QED
  BY <1>1, <1>2, <1>4 DEF Visible, IsVisible

LEMMA ExtensionKeepsSerial ==
  ASSUME TypeOK, NEW h \in Seq(Assertion), HistoryOK(h), SerialHistoryOK(h),
         NEW g, NEW f, NEW p, NEW now \in KnownTimes, Extension(h, g, f, p, now),
         \A k \in DOMAIN h : h[k].recorded <= now
  PROVE  SerialHistoryOK(g)
<1>1. /\ NewIn(h, g) = Len(h) + 1 .. Len(g) /\ DOMAIN g = DOMAIN h \cup NewIn(h, g)
      /\ \A k \in DOMAIN h : g[k] = h[k]
      /\ \A k \in NewIn(h, g) : g[k].recorded = now
      /\ DOMAIN h = 1 .. Len(h) /\ Len(h) \in Nat /\ now \in Int
      /\ \A k \in DOMAIN h : h[k].recorded \in Int
  <2>1. /\ NewIn(h, g) = Len(h) + 1 .. Len(g) /\ DOMAIN g = DOMAIN h \cup NewIn(h, g)
    BY AcceptedOfExtension DEF HistoryOK
  <2>2. /\ \A k \in DOMAIN h : g[k] = h[k]
        /\ \A k \in NewIn(h, g) : g[k].recorded = now
    BY DEF Extension, NewRowOK
  <2>3. \A k \in DOMAIN h : h[k].recorded \in Int
    BY RowType DEF KnownTimes
  <2> QED
    BY <2>1, <2>2, <2>3 DEF KnownTimes
<1> QED
  BY <1>1 DEF SerialHistoryOK

-----------------------------------------------------------------------------
(* What the writers append.                                                *)

\* The bounds of a row and of an interval.
LEMMA TimesType ==
  ASSUME TypeOK
  PROVE  /\ setting.last \in MaxClock .. MaxTime /\ setting.callers \subseteq Callers
         /\ KnownTimes \subseteq Times /\ Times \subseteq Int /\ Open \in Int
         /\ \A t \in Times : t < Open
         /\ \A i \in Interval : /\ i.from \in Times /\ i.until \in Times \cup {Open}
                                /\ i.from < i.until
BY TemporalAssumption DEF TypeOK, KnownTimes, Times, Open, Interval

LEMMA NewRowFields ==
  ASSUME NEW f, NEW kind, NEW p, NEW i, NEW now
  PROVE  LET r == NewRow(f, kind, p, i, now)
         IN  /\ r.family = f /\ r.kind = kind /\ r.supersedes = p /\ r.recorded = now
             /\ r.from = i.from /\ r.until = i.until
BY DEF NewRow

LEMMA NewRowType ==
  ASSUME NEW f \in Families, NEW kind \in Kinds, NEW p \in 0 .. MaxRevisions,
         NEW i, i.from \in Times, i.until \in Times \cup {Open}, NEW now \in KnownTimes
  PROVE  NewRow(f, kind, p, i, now) \in Assertion
BY DEF NewRow, Assertion

\* One row appended under _guard_unambiguous.
LEMMA AppendedExtends ==
  ASSUME TypeOK, NEW h \in Seq(Assertion), NEW f \in Families \ {SourceFamily},
         NEW kind \in Kinds, NEW p \in 0 .. MaxRevisions,
         p \in DOMAIN h \cup {NotGiven}, p \in DOMAIN h => h[p].family = f,
         NEW i, NEW now \in KnownTimes, Appended(h, f, kind, p, i, now) # Refused
  PROVE  /\ Extension(h, Appended(h, f, kind, p, i, now), f, p, now)
         /\ \A k \in NewIn(h, Appended(h, f, kind, p, i, now)) :
              Appended(h, f, kind, p, i, now)[k].kind = kind
<1> DEFINE row == NewRow(f, kind, p, i, now)
           g == Append(h, row)
<1>1. /\ Appended(h, f, kind, p, i, now) = g
      /\ i \in Interval /\ Unambiguous(h, f, i, p)
  BY DEF Appended, Refused
<1>2. row \in Assertion
  BY <1>1, TimesType, NewRowType
<1>3. /\ row.family = f /\ row.kind = kind /\ row.supersedes = p /\ row.recorded = now
      /\ row.from = i.from /\ row.until = i.until
  BY NewRowFields
<1>4. row.from < row.until
  BY <1>1, <1>3, TimesType
<1>5. \A k \in Accepted(h) : h[k].family = f /\ k # p => ~Overlaps(h[k], row)
  BY <1>1, <1>3 DEF Unambiguous, Overlaps
<1> HIDE DEF row
<1>6. /\ g \in Seq(Assertion) /\ Len(g) = Len(h) + 1 /\ Len(h) < Len(g)
      /\ \A k \in DOMAIN h : g[k] = h[k]
      /\ NewIn(h, g) = {Len(h) + 1} /\ g[Len(h) + 1] = row
  BY <1>2 DEF NewIn
<1> HIDE DEF g
<1>7. \A k \in NewIn(h, g) : NewRowOK(h, g, f, p, now, k)
  BY <1>3, <1>4, <1>5, <1>6 DEF NewRowOK
<1>8. Extension(h, g, f, p, now)
  BY <1>6, <1>7 DEF Extension
<1> QED
  BY <1>1, <1>3, <1>6, <1>8

-----------------------------------------------------------------------------
(* _split.                                                                 *)

LeftRow(h, p, window, now) ==
  NewRow(h[p].family, h[p].kind, p,
         [from |-> h[p].from, until |-> Clipped(window, h[p]).from], now)
MiddleRow(h, p, window, kind, now) ==
  NewRow(h[p].family, kind, p, Clipped(window, h[p]), now)
RightRow(h, p, window, now) ==
  NewRow(h[p].family, h[p].kind, p,
         [from |-> Clipped(window, h[p]).until, until |-> h[p].until], now)

Holds(row, t) == row.from <= t /\ t < row.until

\* The rows q that replace row p of h: each instant of p is held once, no other
\* is, and one of them makes the new claim.
Replacement(h, p, kind, q) ==
  /\ \A j, k \in DOMAIN q : j # k => ~Overlaps(q[j], q[k])
  /\ \E m \in DOMAIN q : \A k \in DOMAIN q : k # m => q[k].kind = h[p].kind
  /\ \A k \in DOMAIN q : q[k].kind \in {kind, h[p].kind}
  /\ \A t \in Int :
       IF Holds(h[p], t) THEN \E m \in DOMAIN q : {k \in DOMAIN q : Holds(q[k], t)} = {m}
       ELSE {k \in DOMAIN q : Holds(q[k], t)} = {}

LEMMA ReplacementRows ==
  ASSUME NEW h, NEW p, NEW kind, NEW L, NEW M, NEW R,
         h[p].from \in Int, h[p].until \in Int, M.from \in Int, M.until \in Int,
         L.from = h[p].from, L.until = M.from, R.from = M.until, R.until = h[p].until,
         h[p].from <= M.from, M.from < M.until, M.until <= h[p].until,
         L.kind = h[p].kind, R.kind = h[p].kind, M.kind = kind
  PROVE  /\ ~(L.from < L.until) /\ ~(R.from < R.until) => Replacement(h, p, kind, <<M>>)
         /\ L.from < L.until /\ ~(R.from < R.until) => Replacement(h, p, kind, <<L, M>>)
         /\ ~(L.from < L.until) /\ R.from < R.until => Replacement(h, p, kind, <<M, R>>)
         /\ L.from < L.until /\ R.from < R.until => Replacement(h, p, kind, <<L, M, R>>)
<1>1. ASSUME ~(L.from < L.until), ~(R.from < R.until)
      PROVE  Replacement(h, p, kind, <<M>>)
  BY <1>1 DEF Replacement, Holds, Overlaps
<1>2. ASSUME L.from < L.until, ~(R.from < R.until)
      PROVE  Replacement(h, p, kind, <<L, M>>)
  BY <1>2 DEF Replacement, Holds, Overlaps
<1>3. ASSUME ~(L.from < L.until), R.from < R.until
      PROVE  Replacement(h, p, kind, <<M, R>>)
  BY <1>3 DEF Replacement, Holds, Overlaps
<1>4. ASSUME L.from < L.until, R.from < R.until
      PROVE  Replacement(h, p, kind, <<L, M, R>>)
  BY <1>4 DEF Replacement, Holds, Overlaps
<1> QED
  BY <1>1, <1>2, <1>3, <1>4

LEMMA Appended2 == ASSUME NEW a, NEW b PROVE Append(<<a>>, b) = <<a, b>>
<1> DEFINE S == {a, b}
           s == Append(<<a>>, b)
           t == <<a, b>>
<1>1. s \in Seq(S) /\ t \in Seq(S) /\ Len(s) = 2 /\ Len(t) = 2
  OBVIOUS
<1>2. s[1] = t[1] /\ s[2] = t[2]
  OBVIOUS
<1>3. \A i \in 1 .. Len(s) : s[i] = t[i]
  BY <1>1, <1>2
<1> HIDE DEF s, t, S
<1>4. s = t
  BY <1>1, <1>3, SeqEqual
<1> QED
  BY <1>4 DEF s, t

LEMMA Appended3 == ASSUME NEW a, NEW b, NEW c PROVE Append(<<a, b>>, c) = <<a, b, c>>
<1> DEFINE S == {a, b, c}
           s == Append(<<a, b>>, c)
           t == <<a, b, c>>
<1>1. s \in Seq(S) /\ t \in Seq(S) /\ Len(s) = 3 /\ Len(t) = 3
  OBVIOUS
<1>2. s[1] = t[1] /\ s[2] = t[2] /\ s[3] = t[3]
  OBVIOUS
<1>3. \A i \in 1 .. Len(s) : s[i] = t[i]
  BY <1>1, <1>2
<1> HIDE DEF s, t, S
<1>4. s = t
  BY <1>1, <1>3, SeqEqual
<1> QED
  BY <1>4 DEF s, t

LEMMA Tuples ==
  ASSUME NEW L, NEW M, NEW R
  PROVE  /\ << >> \o <<M>> \o << >> = <<M>> /\ <<L>> \o <<M>> \o << >> = <<L, M>>
         /\ << >> \o <<M>> \o <<R>> = <<M, R>> /\ <<L>> \o <<M>> \o <<R>> = <<L, M, R>>
<1> DEFINE S == {L, M, R}
<1>1. << >> \in Seq(S) /\ <<L>> \in Seq(S) /\ <<M>> \in Seq(S) /\ <<L, M>> \in Seq(S)
  OBVIOUS
<1>2. L \in S /\ M \in S /\ R \in S
  OBVIOUS
<1> HIDE DEF S
<1>3. <<L>> \o <<M>> = Append(<<L>>, M) /\ <<M>> \o <<R>> = Append(<<M>>, R)
      /\ <<L, M>> \o <<R>> = Append(<<L, M>>, R)
  BY <1>1, <1>2, AppendIsConcat
<1>4. Append(<<L>>, M) = <<L, M>>
  BY Appended2
<1>5. Append(<<M>>, R) = <<M, R>>
  BY Appended2
<1>6. Append(<<L, M>>, R) = <<L, M, R>>
  BY Appended3
<1>7. /\ << >> \o <<M>> = <<M>> /\ <<M>> \o << >> = <<M>> /\ <<L, M>> \o << >> = <<L, M>>
  BY <1>1, ConcatEmptySeq
<1> QED
  BY <1>3, <1>4, <1>5, <1>6, <1>7

LEMMA OneElement ==
  ASSUME NEW S, NEW M \in S, NEW q, q = <<M>>
  PROVE  q \in Seq(S) /\ Len(q) = 1 /\ \A k \in DOMAIN q : q[k] = M
<1>1. <<M>> \in Seq(S) /\ Len(<<M>>) = 1 /\ \A k \in DOMAIN <<M>> : <<M>>[k] = M
  OBVIOUS
<1> QED
  BY <1>1, Zenon

LEMMA TwoElements ==
  ASSUME NEW S, NEW L \in S, NEW M \in S, NEW q, q = <<L, M>>
  PROVE  q \in Seq(S) /\ Len(q) = 2 /\ \A k \in DOMAIN q : q[k] = L \/ q[k] = M
<1>1. /\ <<L, M>> \in Seq(S) /\ Len(<<L, M>>) = 2
      /\ \A k \in DOMAIN <<L, M>> : <<L, M>>[k] = L \/ <<L, M>>[k] = M
  OBVIOUS
<1> QED
  BY <1>1, Zenon

LEMMA ThreeElements ==
  ASSUME NEW S, NEW L \in S, NEW M \in S, NEW R \in S, NEW q, q = <<L, M, R>>
  PROVE  q \in Seq(S) /\ Len(q) = 3 /\ \A k \in DOMAIN q : q[k] = L \/ q[k] = M \/ q[k] = R
<1>1. DOMAIN <<L, M, R>> = 1 .. 3 /\ <<L, M, R>> \in Seq(S) /\ Len(<<L, M, R>>) = 3
  OBVIOUS
<1>2. <<L, M, R>>[1] = L /\ <<L, M, R>>[2] = M /\ <<L, M, R>>[3] = R
  OBVIOUS
<1>3. \A k \in DOMAIN <<L, M, R>> :
        <<L, M, R>>[k] = L \/ <<L, M, R>>[k] = M \/ <<L, M, R>>[k] = R
  BY <1>1, <1>2
<1> QED
  BY <1>1, <1>3, Zenon

\* The row of M between those of L and R, which may be missing.
Between(c, L, M, d, R) ==
  (IF c THEN <<L>> ELSE << >>) \o <<M>> \o (IF d THEN <<R>> ELSE << >>)

LEMMA Pieces ==
  ASSUME NEW L, NEW M, NEW R, NEW c \in BOOLEAN, NEW d \in BOOLEAN
  PROVE  /\ ~c /\ ~d => Between(c, L, M, d, R) = <<M>>
         /\ c /\ ~d => Between(c, L, M, d, R) = <<L, M>>
         /\ ~c /\ d => Between(c, L, M, d, R) = <<M, R>>
         /\ c /\ d => Between(c, L, M, d, R) = <<L, M, R>>
<1>1. ASSUME ~c, ~d PROVE Between(c, L, M, d, R) = <<M>>
  <2>1. Between(c, L, M, d, R) = << >> \o <<M>> \o << >>
    BY <1>1, Zenon DEF Between
  <2> QED
    BY <2>1, Tuples, Zenon
<1>2. ASSUME c, ~d PROVE Between(c, L, M, d, R) = <<L, M>>
  <2>1. Between(c, L, M, d, R) = <<L>> \o <<M>> \o << >>
    BY <1>2, Zenon DEF Between
  <2> QED
    BY <2>1, Tuples, Zenon
<1>3. ASSUME ~c, d PROVE Between(c, L, M, d, R) = <<M, R>>
  <2>1. Between(c, L, M, d, R) = << >> \o <<M>> \o <<R>>
    BY <1>3, Zenon DEF Between
  <2> QED
    BY <2>1, Tuples, Zenon
<1>4. ASSUME c, d PROVE Between(c, L, M, d, R) = <<L, M, R>>
  <2>1. Between(c, L, M, d, R) = <<L>> \o <<M>> \o <<R>>
    BY <1>4, Zenon DEF Between
  <2>2. <<L>> \o <<M>> \o <<R>> = <<L, M, R>>
    BY Tuples
  <2> QED
    BY <2>1, <2>2, Zenon
<1> QED
  BY <1>1, <1>2, <1>3, <1>4, Zenon

\* g is h with row p replaced by the rows q.
SplitOf(h, g, p, kind, now, q) ==
  /\ g = h \o q /\ Len(q) \in Nat \ {0}
  /\ Replacement(h, p, kind, q)
  /\ \A k \in DOMAIN q :
       /\ q[k].family = h[p].family /\ q[k].supersedes = p /\ q[k].recorded = now
       /\ q[k].from < q[k].until
       /\ \A j \in Accepted(h) : j # p /\ h[j].family = h[p].family => ~Overlaps(h[j], q[k])

LEMMA SplitRows ==
  ASSUME TypeOK, NEW h \in Seq(Assertion), NEW p \in DOMAIN h,
         h[p].from < h[p].until, p \in 0 .. MaxRevisions,
         NEW window, NEW kind \in Kinds, NEW now \in KnownTimes,
         Split(h, p, window, kind, now) # Refused
  PROVE  \E q \in Seq(Assertion) : SplitOf(h, Split(h, p, window, kind, now), p, kind, now, q)
<1> DEFINE C == Clipped(window, h[p])
           left == [from |-> h[p].from, until |-> C.from]
           right == [from |-> C.until, until |-> h[p].until]
           L == NewRow(h[p].family, h[p].kind, p, left, now)
           M == NewRow(h[p].family, kind, p, C, now)
           R == NewRow(h[p].family, h[p].kind, p, right, now)
           row(i, k) == IF i.from < i.until THEN <<NewRow(h[p].family, k, p, i, now)>> ELSE << >>
           q == row(left, h[p].kind) \o row(C, kind) \o row(right, h[p].kind)
<1>1. /\ Split(h, p, window, kind, now) = h \o q
      /\ window \in Interval /\ C.from < C.until
      /\ \A k \in DOMAIN q : Unambiguous(h, h[p].family, q[k], p)
  BY DEF Split, Segments, Refused
<1>2. /\ h[p] \in Assertion /\ h[p].from \in Times /\ h[p].until \in Times \cup {Open}
      /\ h[p].family \in Families /\ h[p].kind \in Kinds
  <2>1. h[p] \in Assertion
    OBVIOUS
  <2> QED
    BY <2>1 DEF Assertion
<1>3. /\ window.from \in Times /\ window.until \in Times \cup {Open}
      /\ Times \subseteq Int /\ Open \in Int /\ \A t \in Times : t < Open
  BY <1>1, TimesType
<1>4. /\ C.from = Larger(window.from, h[p].from)
      /\ C.until = Smaller(window.until, h[p].until)
  BY DEF Clipped
<1> HIDE DEF C
<1>5. /\ C.from \in Times /\ C.until \in Times \cup {Open}
      /\ h[p].from <= C.from /\ C.until <= h[p].until
      /\ C.from \in Int /\ C.until \in Int /\ h[p].from \in Int /\ h[p].until \in Int
  <2>1. /\ window.from \in Int /\ window.until \in Int
        /\ h[p].from \in Int /\ h[p].until \in Int
    BY <1>2, <1>3
  <2>2. C.from \in {window.from, h[p].from} /\ C.until \in {window.until, h[p].until}
    BY <1>4 DEF Larger, Smaller
  <2>3. h[p].from <= C.from /\ C.until <= h[p].until
    BY <1>4, <2>1 DEF Larger, Smaller
  <2> QED
    BY <1>2, <1>3, <2>1, <2>2, <2>3
<1>6. /\ left.from = h[p].from /\ left.until = C.from
      /\ right.from = C.until /\ right.until = h[p].until
  OBVIOUS
<1> HIDE DEF left, right
<1>7. /\ L.family = h[p].family /\ L.kind = h[p].kind /\ L.supersedes = p /\ L.recorded = now
      /\ L.from = left.from /\ L.until = left.until
      /\ M.family = h[p].family /\ M.kind = kind /\ M.supersedes = p /\ M.recorded = now
      /\ M.from = C.from /\ M.until = C.until
      /\ R.family = h[p].family /\ R.kind = h[p].kind /\ R.supersedes = p /\ R.recorded = now
      /\ R.from = right.from /\ R.until = right.until
  BY NewRowFields
<1>8. /\ left.from < left.until => L \in Assertion
      /\ M \in Assertion
      /\ right.from < right.until => R \in Assertion
  <2>1. M \in Assertion
    BY <1>2, <1>5, NewRowType
  <2>2. left.from < left.until => L \in Assertion
    BY <1>2, <1>5, <1>6, NewRowType
  <2>3. ASSUME right.from < right.until PROVE R \in Assertion
    <3>1. right.from \in Times /\ right.until \in Times \cup {Open}
      <4>1. right.from < right.until /\ right.until <= Open
        <5>1. h[p].until <= Open
          <6>1. h[p].until \in Times => h[p].until < Open /\ h[p].until \in Int
            BY <1>3
          <6> QED
            BY <1>2, <1>3, <6>1
        <5> QED
          BY <1>6, <2>3, <5>1
      <4>2. right.from # Open
        BY <1>3, <1>5, <1>6, <4>1
      <4> QED
        BY <1>2, <1>5, <1>6, <4>2
    <3> QED
      BY <1>2, <3>1, NewRowType
  <2> QED
    BY <2>1, <2>2, <2>3
<1>9. q = (IF L.from < L.until THEN <<L>> ELSE << >>) \o <<M>>
             \o (IF R.from < R.until THEN <<R>> ELSE << >>)
  <2>1. row(C, kind) = <<M>>
    BY <1>1
  <2>2. row(left, h[p].kind) = IF L.from < L.until THEN <<L>> ELSE << >>
    BY <1>7
  <2>3. row(right, h[p].kind) = IF R.from < R.until THEN <<R>> ELSE << >>
    BY <1>7
  <2> HIDE DEF row, L, M, R
  <2> QED
    BY <2>1, <2>2, <2>3
<1>10. /\ \A k \in DOMAIN q : \A j \in Accepted(h) :
            j # p /\ h[j].family = h[p].family => ~Overlaps(h[j], q[k])
  BY <1>1 DEF Unambiguous
<1> HIDE DEF row, q, L, M, R
<1>c. \E c, d \in BOOLEAN : (c <=> L.from < L.until) /\ (d <=> R.from < R.until)
  <2>1. (L.from < L.until) \in BOOLEAN /\ (R.from < R.until) \in BOOLEAN
    OBVIOUS
  <2> QED
    BY <2>1
<1>d. PICK c \in BOOLEAN, d \in BOOLEAN : (c <=> L.from < L.until) /\ (d <=> R.from < R.until)
  BY <1>c
<1>e. q = Between(c, L, M, d, R)
  BY <1>9, <1>d DEF Between
<1>11. /\ ~(L.from < L.until) /\ ~(R.from < R.until) => q = <<M>>
       /\ L.from < L.until /\ ~(R.from < R.until) => q = <<L, M>>
       /\ ~(L.from < L.until) /\ R.from < R.until => q = <<M, R>>
       /\ L.from < L.until /\ R.from < R.until => q = <<L, M, R>>
  <2>1. /\ ~c /\ ~d => q = <<M>>
        /\ c /\ ~d => q = <<L, M>>
        /\ ~c /\ d => q = <<M, R>>
        /\ c /\ d => q = <<L, M, R>>
    BY <1>e, Pieces
  <2> QED
    BY <1>d, <2>1, Zenon
<1>12. Replacement(h, p, kind, q)
  <2>1. /\ L.from = h[p].from /\ L.until = M.from /\ R.from = M.until /\ R.until = h[p].until
        /\ h[p].from <= M.from /\ M.from < M.until /\ M.until <= h[p].until
        /\ h[p].from \in Int /\ h[p].until \in Int /\ M.from \in Int /\ M.until \in Int
    BY <1>1, <1>5, <1>6, <1>7
  <2>2. /\ ~(L.from < L.until) /\ ~(R.from < R.until) => Replacement(h, p, kind, <<M>>)
        /\ L.from < L.until /\ ~(R.from < R.until) => Replacement(h, p, kind, <<L, M>>)
        /\ ~(L.from < L.until) /\ R.from < R.until => Replacement(h, p, kind, <<M, R>>)
        /\ L.from < L.until /\ R.from < R.until => Replacement(h, p, kind, <<L, M, R>>)
    BY <1>7, <2>1, ReplacementRows
  <2> QED
    BY <1>11, <2>2
<1>13. /\ q \in Seq(Assertion) /\ Len(q) \in Nat \ {0}
       /\ \A k \in DOMAIN q :
            (L.from < L.until /\ q[k] = L) \/ q[k] = M \/ (R.from < R.until /\ q[k] = R)
  <2>1. M \in Assertion /\ 1 \in Nat \ {0} /\ 2 \in Nat \ {0} /\ 3 \in Nat \ {0}
    BY <1>8
  <2>2. CASE ~(L.from < L.until) /\ ~(R.from < R.until)
    BY <1>11, <2>1, <2>2, OneElement, ZenonT(30)
  <2>3. CASE L.from < L.until /\ ~(R.from < R.until)
    <3>1. L \in Assertion
      BY <1>7, <1>8, <2>3
    <3>2. q = <<L, M>>
      BY <1>11, <2>3
    <3>3. q \in Seq(Assertion) /\ Len(q) = 2 /\ \A k \in DOMAIN q : q[k] = L \/ q[k] = M
      BY <2>1, <3>1, <3>2, TwoElements
    <3> QED
      BY <2>1, <2>3, <3>3
  <2>4. CASE ~(L.from < L.until) /\ R.from < R.until
    <3>1. R \in Assertion
      BY <1>7, <1>8, <2>4
    <3>2. q = <<M, R>>
      BY <1>11, <2>4
    <3>3. q \in Seq(Assertion) /\ Len(q) = 2 /\ \A k \in DOMAIN q : q[k] = M \/ q[k] = R
      BY <2>1, <3>1, <3>2, TwoElements
    <3> QED
      BY <2>1, <2>4, <3>3
  <2>5. CASE L.from < L.until /\ R.from < R.until
    <3>1. L \in Assertion /\ R \in Assertion
      BY <1>7, <1>8, <2>5
    <3>2. q = <<L, M, R>>
      BY <1>11, <2>5
    <3>3. q \in Seq(Assertion) /\ Len(q) = 3 /\ \A k \in DOMAIN q : q[k] = L \/ q[k] = M \/ q[k] = R
      BY <2>1, <3>1, <3>2, ThreeElements
    <3> QED
      BY <2>1, <2>5, <3>3
  <2> QED
    BY <2>2, <2>3, <2>4, <2>5
<1>14. \A k \in DOMAIN q : /\ q[k].family = h[p].family /\ q[k].supersedes = p
                            /\ q[k].recorded = now /\ q[k].from < q[k].until
  BY <1>1, <1>7, <1>13
<1> QED
  BY <1>1, <1>10, <1>12, <1>13, <1>14 DEF SplitOf

\* The replaced row's instants are covered once by the new rows, no other instant
\* is, and one new row at most differs in kind.
KeepsTheRest(h, g, p) ==
  /\ \A t \in Times :
       Cardinality({k \in NewIn(h, g) : Holds(g[k], t)}) = IF Holds(h[p], t) THEN 1 ELSE 0
  /\ Cardinality({k \in NewIn(h, g) : g[k].kind # h[p].kind}) <= 1

LEMMA AtMostOne ==
  ASSUME NEW S, \A a, b \in S : a = b
  PROVE  Cardinality(S) <= 1
<1>1. CASE S = {}
  BY <1>1, FS_EmptySet
<1>2. CASE S # {}
  <2>1. PICK a : S = {a}
    BY <1>2
  <2> QED
    BY <2>1, FS_Singleton
<1> QED
  BY <1>1, <1>2

LEMMA SplitExtends ==
  ASSUME TypeOK, NEW h \in Seq(Assertion), NEW p \in DOMAIN h,
         h[p].from < h[p].until, p \in 0 .. MaxRevisions, h[p].family # SourceFamily,
         NEW window, NEW kind \in Kinds, NEW now \in KnownTimes,
         Split(h, p, window, kind, now) # Refused
  PROVE  /\ Extension(h, Split(h, p, window, kind, now), h[p].family, p, now)
         /\ KeepsTheRest(h, Split(h, p, window, kind, now), p)
         /\ \A k \in NewIn(h, Split(h, p, window, kind, now)) :
              Split(h, p, window, kind, now)[k].kind \in {kind, h[p].kind}
<1> DEFINE g == Split(h, p, window, kind, now)
           n == Len(h)
<1>a. PICK q \in Seq(Assertion) : SplitOf(h, g, p, kind, now, q)
  BY SplitRows
<1> HIDE DEF g
<1>1. /\ g = h \o q /\ Len(q) \in Nat \ {0}
      /\ Replacement(h, p, kind, q)
      /\ \A k \in DOMAIN q :
           /\ q[k].family = h[p].family /\ q[k].supersedes = p /\ q[k].recorded = now
           /\ q[k].from < q[k].until
           /\ \A j \in Accepted(h) : j # p /\ h[j].family = h[p].family => ~Overlaps(h[j], q[k])
  BY <1>a DEF SplitOf
<1>2. /\ g \in Seq(Assertion) /\ Len(g) = n + Len(q) /\ n \in Nat /\ n < Len(g)
      /\ \A k \in 1 .. n + Len(q) : g[k] = IF k <= n THEN h[k] ELSE q[k - n]
      /\ DOMAIN h = 1 .. n /\ DOMAIN q = 1 .. Len(q) /\ DOMAIN g = 1 .. n + Len(q)
  BY <1>1, ConcatProperties
<1>3. /\ NewIn(h, g) = n + 1 .. n + Len(q)
      /\ \A k \in NewIn(h, g) : k - n \in DOMAIN q /\ g[k] = q[k - n]
      /\ \A m \in DOMAIN q : n + m \in NewIn(h, g) /\ g[n + m] = q[m]
      /\ \A k \in DOMAIN h : g[k] = h[k]
  <2>1. NewIn(h, g) = n + 1 .. n + Len(q)
    BY <1>1, <1>2 DEF NewIn
  <2>2. \A k \in n + 1 .. n + Len(q) : k - n \in 1 .. Len(q) /\ ~(k <= n) /\ k \in 1 .. n + Len(q)
    BY <1>1, <1>2
  <2>3. \A m \in 1 .. Len(q) : n + m \in n + 1 .. n + Len(q) /\ (n + m) - n = m
    BY <1>1, <1>2
  <2>4. \A k \in DOMAIN h : k <= n /\ k \in 1 .. n + Len(q)
    BY <1>1, <1>2
  <2> QED
    BY <1>2, <2>1, <2>2, <2>3, <2>4
<1>4. \A k \in NewIn(h, g) : NewRowOK(h, g, h[p].family, p, now, k)
  BY <1>1, <1>3 DEF NewRowOK
<1>5. \A j, k \in NewIn(h, g) : j # k => ~Overlaps(g[j], g[k])
  <2>1. \A j, k \in NewIn(h, g) : j # k => j - n # k - n
    BY <1>2, <1>3
  <2> QED
    BY <1>1, <1>3, <2>1 DEF Replacement
<1>6. Extension(h, g, h[p].family, p, now)
  BY <1>2, <1>3, <1>4, <1>5 DEF Extension
<1>7. \A k \in NewIn(h, g) : g[k].kind \in {kind, h[p].kind}
  BY <1>1, <1>3 DEF Replacement
<1>8. ASSUME NEW t \in Times
      PROVE  Cardinality({k \in NewIn(h, g) : Holds(g[k], t)}) = IF Holds(h[p], t) THEN 1 ELSE 0
  <2>1. t \in Int
    BY TimesType
  <2>2. CASE Holds(h[p], t)
    <3>1. PICK m \in DOMAIN q : {k \in DOMAIN q : Holds(q[k], t)} = {m}
      BY <1>1, <2>1, <2>2 DEF Replacement
    <3>2. {k \in NewIn(h, g) : Holds(g[k], t)} = {n + m}
      <4>1. \A k \in NewIn(h, g) : Holds(g[k], t) <=> k - n = m
        BY <1>3, <3>1
      <4>2. \A k \in NewIn(h, g) : k - n = m <=> k = n + m
        BY <1>2, <1>3
      <4> QED
        BY <1>3, <4>1, <4>2
    <3> QED
      BY <2>2, <3>2, FS_Singleton
  <2>3. CASE ~Holds(h[p], t)
    <3>1. {k \in DOMAIN q : Holds(q[k], t)} = {}
      BY <1>1, <2>1, <2>3 DEF Replacement
    <3>2. {k \in NewIn(h, g) : Holds(g[k], t)} = {}
      BY <1>3, <3>1
    <3> QED
      BY <2>3, <3>2, FS_EmptySet
  <2> QED
    BY <2>2, <2>3
<1>9. Cardinality({k \in NewIn(h, g) : g[k].kind # h[p].kind}) <= 1
  <2>1. PICK m \in DOMAIN q : \A k \in DOMAIN q : k # m => q[k].kind = h[p].kind
    BY <1>1 DEF Replacement
  <2>2. \A k \in NewIn(h, g) : g[k].kind # h[p].kind => k - n = m
    BY <1>3, <2>1
  <2>3. \A j, k \in NewIn(h, g) : j - n = k - n => j = k
    BY <1>2, <1>3
  <2>4. \A j, k \in {i \in NewIn(h, g) : g[i].kind # h[p].kind} : j = k
    BY <2>2, <2>3
  <2> QED
    BY <2>4, AtMostOne
<1> QED
  BY <1>6, <1>7, <1>8, <1>9 DEF KeepsTheRest, g

-----------------------------------------------------------------------------
(* One object's part of a commit.                                          *)

Written(h, g, now) ==
  \E f \in Families, p \in Nat :
    Extension(h, g, f, p, now) /\ (Serial => p \in Accepted(h) \cup {NotGiven})

LEMMA HistoryTypes ==
  ASSUME TemporalInv, NEW o \in Objects
  PROVE  /\ TypeOK /\ assertions[o] \in Seq(Assertion)
         /\ DOMAIN assertions[o] \subseteq 1 .. MaxRevisions
         /\ Len(assertions[o]) \in Nat /\ HistoryOK(assertions[o])
         /\ \A k \in DOMAIN assertions[o] :
              /\ assertions[o][k].from < assertions[o][k].until /\ k \in Nat /\ k # NotGiven
              /\ assertions[o][k] \in Assertion /\ assertions[o][k].family \in Families
              /\ assertions[o][k].kind \in Kinds
<1>1. TypeOK /\ HistoryOK(assertions[o]) /\ assertions[o] \in Seq(Assertion)
  BY DEF TemporalInv, ObjectOK, TypeOK
<1>2. /\ Len(assertions[o]) <= MaxRevisions
      /\ \A k \in DOMAIN assertions[o] : assertions[o][k].from < assertions[o][k].until
  BY <1>1 DEF TypeOK
<1>3. /\ Len(assertions[o]) \in Nat /\ DOMAIN assertions[o] = 1 .. Len(assertions[o])
      /\ \A k \in DOMAIN assertions[o] : assertions[o][k] \in Assertion
  BY <1>1
<1>4. DOMAIN assertions[o] \subseteq 1 .. MaxRevisions
  BY <1>2, <1>3, TemporalAssumption
<1>5. \A k \in DOMAIN assertions[o] : k \in Nat /\ k # NotGiven
  BY <1>3 DEF NotGiven
<1> QED
  BY <1>1, <1>2, <1>3, <1>4, <1>5 DEF Assertion

\* A transaction in progress.
LEMMA TxTypes ==
  ASSUME TemporalInv, NEW w \in setting.callers, tx[w].pc # "none"
  PROVE  /\ w \in Callers /\ tx[w].started \in KnownTimes /\ tx[w].started <= clock
         /\ tx[w].started \in Int /\ tx[w].object \in Objects /\ clock \in KnownTimes
         /\ tx[w].pc = "checked" =>
              /\ tx[w].prior \in DOMAIN assertions[tx[w].object]
              /\ assertions[tx[w].object][tx[w].prior].family \in ServiceFamilies
              /\ Serial => tx[w].prior \in Accepted(assertions[tx[w].object])
<1>1. w \in Callers /\ TypeOK /\ TxOK(w) /\ (Serial => SerialTxOK(w))
  BY TimesType DEF TemporalInv
<1>2. clock \in KnownTimes /\ tx[w].started \in 1 .. clock /\ tx[w].object \in Objects
  BY <1>1 DEF TypeOK, TxOK, Transaction
<1>3. tx[w].started \in KnownTimes /\ tx[w].started <= clock /\ tx[w].started \in Int
  BY <1>2, TemporalAssumption DEF KnownTimes
<1> QED
  BY <1>1, <1>2, <1>3 DEF TxOK, SerialTxOK

LEMMA AppendedWritten ==
  ASSUME TemporalInv, NEW o \in Objects, NEW f \in Families \ {SourceFamily},
         NEW kind \in Kinds, NEW p, NEW i, NEW now \in KnownTimes,
         p \in DOMAIN assertions[o] \cup {NotGiven},
         p \in DOMAIN assertions[o] => assertions[o][p].family = f,
         Serial => p \in Accepted(assertions[o]) \cup {NotGiven},
         Appended(assertions[o], f, kind, p, i, now) # Refused
  PROVE  Written(assertions[o], Appended(assertions[o], f, kind, p, i, now), now)
<1>1. /\ TypeOK /\ assertions[o] \in Seq(Assertion) /\ p \in 0 .. MaxRevisions /\ p \in Nat
  BY HistoryTypes, TemporalAssumption DEF NotGiven
<1> DEFINE h == assertions[o]
           g == Appended(h, f, kind, p, i, now)
<1>2. Extension(h, g, f, p, now) /\ \A k \in NewIn(h, g) : g[k].kind = kind
  BY <1>1, AppendedExtends
<1> HIDE DEF g
<1>3. Written(h, g, now)
  BY <1>1, <1>2 DEF Written
<1> QED
  BY <1>3 DEF g

LEMMA SplitWritten ==
  ASSUME TemporalInv, NEW o \in Objects, NEW p \in DOMAIN assertions[o],
         NEW window, NEW kind \in Kinds, NEW now \in KnownTimes,
         assertions[o][p].family # SourceFamily,
         Serial => p \in Accepted(assertions[o]),
         Split(assertions[o], p, window, kind, now) # Refused
  PROVE  Written(assertions[o], Split(assertions[o], p, window, kind, now), now)
<1> DEFINE h == assertions[o]
           g == Split(h, p, window, kind, now)
<1>1. /\ TypeOK /\ h \in Seq(Assertion) /\ p \in 0 .. MaxRevisions /\ p \in Nat
      /\ h[p].from < h[p].until /\ h[p].family \in Families
  BY HistoryTypes, TemporalAssumption
<1>2. Extension(h, g, h[p].family, p, now) /\ KeepsTheRest(h, g, p)
  BY <1>1, SplitExtends
<1> HIDE DEF g
<1>3. Written(h, g, now)
  BY <1>1, <1>2 DEF Written
<1> QED
  BY <1>3 DEF g

\* Both branches of _delete_one.
LEMMA DeletedWritten ==
  ASSUME TemporalInv, NEW o \in Objects, NEW f \in Families \ {SourceFamily},
         NEW from, NEW until, NEW now \in KnownTimes,
         Deleted(assertions[o], f, from, until, now) # Refused
  PROVE  Written(assertions[o], Deleted(assertions[o], f, from, until, now), now)
<1> DEFINE h == assertions[o]
           targets == DeletionTargets(h, f, from, until)
           p == CHOOSE k \in targets : TRUE
           i == [from |-> Given(from, now), until |-> Given(until, Open)]
           window == [from |-> Given(from, h[p].from), until |-> Given(until, h[p].until)]
<1>1. \A k \in targets : k = NotGiven \/ k \in AcceptedClaims(h, f)
  BY DEF DeletionTargets
<1>2. targets # {}
  BY DEF Deleted
<1> HIDE DEF targets
<1>3. p \in targets
  BY <1>2
<1>4. CASE p = NotGiven
  <2>1. Deleted(h, f, from, until, now) = Appended(h, f, "deletion", NotGiven, i, now)
    BY <1>2, <1>4 DEF Deleted, targets
  <2>2. NotGiven \notin DOMAIN h /\ "deletion" \in Kinds
    BY HistoryTypes DEF Kinds
  <2> HIDE DEF i, p
  <2>3. Written(h, Appended(h, f, "deletion", NotGiven, i, now), now)
    BY <2>1, <2>2, AppendedWritten
  <2> QED
    BY <2>1, <2>3
<1>5. CASE p # NotGiven
  <2>1. Deleted(h, f, from, until, now) = Split(h, p, window, "deletion", now)
    BY <1>2, <1>5 DEF Deleted, targets
  <2>2. p \in Accepted(h) /\ p \in DOMAIN h /\ h[p].family = f
    BY <1>1, <1>3, <1>5 DEF AcceptedClaims, Accepted
  <2> HIDE DEF window, p
  <2> QED
    BY <2>1, <2>2, SplitWritten DEF Kinds
<1> QED
  BY <1>4, <1>5

\* The row of _append_source_state.
LEMMA SourceStateWritten ==
  ASSUME TemporalInv, NEW o \in Objects, NEW now \in KnownTimes, NEW p, NEW kind,
         kind \in {"payload", "supersession"},
         AcceptedClaims(assertions[o], SourceFamily) = {} => p = NotGiven,
         AcceptedClaims(assertions[o], SourceFamily) # {} =>
           p \in AcceptedClaims(assertions[o], SourceFamily)
  PROVE  Written(assertions[o],
                 Append(assertions[o], NewRow(SourceFamily, kind, p, [from |-> now, until |-> Open], now)),
                 now)
<1> DEFINE h == assertions[o]
           i == [from |-> now, until |-> Open]
           row == NewRow(SourceFamily, kind, p, i, now)
           g == Append(h, row)
<1>1. /\ TypeOK /\ h \in Seq(Assertion) /\ Len(h) \in Nat /\ DOMAIN h \subseteq 1 .. MaxRevisions
      /\ HistoryOK(h)
  BY HistoryTypes
<1>2. /\ p \in Accepted(h) \cup {NotGiven} /\ Accepted(h) \subseteq DOMAIN h
      /\ p \in DOMAIN h => h[p].family = SourceFamily
  <2>1. NotGiven \notin DOMAIN h
    BY HistoryTypes
  <2> QED
    BY <2>1 DEF AcceptedClaims, Accepted
<1>3. p \in 0 .. MaxRevisions /\ p \in Nat
  BY <1>1, <1>2, TemporalAssumption DEF NotGiven
<1>4. i.from = now /\ i.until = Open /\ now \in Times /\ now < Open
  BY <1>1, TimesType
<1> HIDE DEF i
<1>5. row \in Assertion
  BY <1>3, <1>4, NewRowType, TemporalAssumption DEF Kinds
<1>6. /\ row.family = SourceFamily /\ row.kind = kind /\ row.supersedes = p /\ row.recorded = now
      /\ row.from < row.until
  BY <1>4, NewRowFields
<1>7. \A j \in Accepted(h) : j # p => h[j].family # SourceFamily
  <2>1. \A j \in Accepted(h) : h[j].family = SourceFamily => j \in AcceptedClaims(h, SourceFamily)
    BY <1>1, <1>2 DEF HistoryOK, OneSourceState, AcceptedClaims
  <2>2. \A j, k \in AcceptedClaims(h, SourceFamily) : j = k
    BY <1>1 DEF HistoryOK, OneSourceState, AcceptedClaims
  <2> QED
    BY <2>1, <2>2
<1> HIDE DEF row
<1>8. /\ g \in Seq(Assertion) /\ Len(g) = Len(h) + 1 /\ Len(h) < Len(g)
      /\ \A k \in DOMAIN h : g[k] = h[k]
      /\ NewIn(h, g) = {Len(h) + 1} /\ g[Len(h) + 1] = row
  BY <1>1, <1>5 DEF NewIn
<1> HIDE DEF g
<1>9. \A k \in NewIn(h, g) : NewRowOK(h, g, SourceFamily, p, now, k)
  BY <1>6, <1>7, <1>8 DEF NewRowOK
<1>10. Extension(h, g, SourceFamily, p, now)
  BY <1>2, <1>7, <1>8, <1>9 DEF Extension
<1>11. Written(h, g, now)
  BY <1>2, <1>3, <1>10, TemporalAssumption DEF Written
<1> QED
  BY <1>11 DEF g, row, i

-----------------------------------------------------------------------------
(* Steps.                                                                  *)

\* The service leaves the source states to _append_source_state.
SeparateFamilies == SourceFamily \notin ServiceFamilies

\* A commit of w: each object's history stands or is extended at w's now().
CommitOf(w) ==
  /\ tx[w].pc # "none" /\ tx' = [tx EXCEPT ![w] = NoTransaction]
  /\ UNCHANGED <<clock, setting>>
  /\ DOMAIN assertions' = Objects /\ assertions' = [o \in Objects |-> assertions'[o]]
  /\ \A o \in Objects :
       \/ assertions'[o] = assertions[o]
       \/ /\ Written(assertions[o], assertions'[o], tx[w].started)
          /\ Len(assertions'[o]) <= MaxRevisions

LEMMA CommitWrites ==
  ASSUME NEW w, tx[w].pc # "none", NEW os \in SUBSET Objects, NEW result, Commit(w, os, result),
         \A o \in os : result[o] # Refused => Written(assertions[o], result[o], tx[w].started)
  PROVE  CommitOf(w)
BY DEF Commit, CommitOf

LEMMA CommitOneWrites ==
  ASSUME NEW w, tx[w].pc # "none", NEW o \in Objects, NEW result, CommitOne(w, o, result),
         result # Refused => Written(assertions[o], result, tx[w].started)
  PROVE  CommitOf(w)
<1> DEFINE f == [x \in {o} |-> result]
<1>1. Commit(w, {o}, f) /\ f[o] = result
  BY DEF CommitOne
<1> HIDE DEF f
<1>2. \A x \in {o} : f[x] # Refused => Written(assertions[x], f[x], tx[w].started)
  BY <1>1
<1> QED
  BY <1>1, <1>2, CommitWrites

\* A correction acts on a checked prior in a family of the service.
LEMMA PriorOK ==
  ASSUME SeparateFamilies, TemporalInv, NEW w \in setting.callers, tx[w].pc = "checked"
  PROVE  LET h == assertions[tx[w].object]
             p == tx[w].prior
         IN  /\ tx[w].object \in Objects /\ p \in DOMAIN h /\ p # NotGiven
             /\ h[p].family \in Families \ {SourceFamily}
             /\ (Serial => p \in Accepted(h)) /\ tx[w].started \in KnownTimes
<1>1. /\ tx[w].object \in Objects /\ tx[w].started \in KnownTimes
      /\ tx[w].prior \in DOMAIN assertions[tx[w].object]
      /\ assertions[tx[w].object][tx[w].prior].family \in ServiceFamilies
      /\ Serial => tx[w].prior \in Accepted(assertions[tx[w].object])
  BY TxTypes
<1> QED
  BY <1>1, HistoryTypes, TemporalAssumption DEF SeparateFamilies

LEMMA OperationsCommit ==
  ASSUME SeparateFamilies, TemporalInv, NEW w \in setting.callers,
         Operate(w) \/ \E o \in Objects : AppendSourceState(w, o)
  PROVE  CommitOf(w)
<1> DEFINE t == tx[w]
<1>1. ASSUME NEW o \in Objects, NEW f \in ServiceFamilies, NEW kind \in CreateKinds,
             NEW i \in Interval, CreateAssertion(w, o, f, kind, i)
      PROVE  CommitOf(w)
  <2>1. /\ f \in Families \ {SourceFamily} /\ kind \in Kinds /\ t.pc # "none"
        /\ NotGiven \notin DOMAIN assertions[o] /\ t.started \in KnownTimes
    BY <1>1, TxTypes, HistoryTypes, TemporalAssumption DEF SeparateFamilies, CreateAssertion
  <2> DEFINE g == Appended(assertions[o], f, kind, NotGiven, i, t.started)
  <2>2. g # Refused => Written(assertions[o], g, t.started)
    BY <2>1, AppendedWritten
  <2>3. CommitOne(w, o, g)
    BY <1>1 DEF CreateAssertion
  <2> HIDE DEF g
  <2> QED
    BY <2>1, <2>2, <2>3, CommitOneWrites
<1>2. ASSUME NEW kind \in SupersedeKinds \cup {"interval_boundary"}, NEW from, NEW until,
             SupersedeAssertion(w, kind, from, until)
      PROVE  CommitOf(w)
  <2> DEFINE h == assertions[t.object]
             i == [from |-> Given(from, h[t.prior].from), until |-> Given(until, h[t.prior].until)]
             g == Appended(h, h[t.prior].family, kind, t.prior, i, t.started)
  <2>1. t.pc = "checked" /\ CommitOne(w, t.object, g)
    BY <1>2 DEF SupersedeAssertion
  <2>2. kind \in Kinds
    BY TemporalAssumption DEF Kinds
  <2> HIDE DEF i
  <2>3. g # Refused => Written(h, g, t.started)
    BY <2>1, <2>2, PriorOK, AppendedWritten
  <2> HIDE DEF g
  <2> QED
    BY <2>1, <2>3, PriorOK, CommitOneWrites
<1>3. ASSUME NEW window, ReplaceInterval(w, window) PROVE CommitOf(w)
  <2> DEFINE h == assertions[t.object]
             g == Split(h, t.prior, window, "supersession", t.started)
  <2>1. t.pc = "checked" /\ CommitOne(w, t.object, g)
    BY <1>3 DEF ReplaceInterval
  <2>2. "supersession" \in Kinds
    BY DEF Kinds
  <2>3. g # Refused => Written(h, g, t.started)
    BY <2>1, <2>2, PriorOK, SplitWritten
  <2> HIDE DEF g
  <2> QED
    BY <2>1, <2>3, PriorOK, CommitOneWrites
<1>4. ASSUME RestoreDeletion(w) PROVE CommitOf(w)
  <2> DEFINE h == assertions[t.object]
             i == [from |-> h[t.prior].from, until |-> h[t.prior].until]
             g == Appended(h, h[t.prior].family, "restoration", t.prior, i, t.started)
  <2>1. t.pc = "checked" /\ CommitOne(w, t.object, g)
    BY <1>4 DEF RestoreDeletion
  <2>2. "restoration" \in Kinds
    BY DEF Kinds
  <2> HIDE DEF i
  <2>3. g # Refused => Written(h, g, t.started)
    BY <2>1, <2>2, PriorOK, AppendedWritten
  <2> HIDE DEF g
  <2> QED
    BY <2>1, <2>3, PriorOK, CommitOneWrites
<1>5. ASSUME NEW os \in SUBSET Objects, NEW f \in ServiceFamilies, NEW from, NEW until,
             SoftDelete(w, os, f, from, until)
      PROVE  CommitOf(w)
  <2>1. f \in Families \ {SourceFamily} /\ t.pc # "none" /\ t.started \in KnownTimes
    BY <1>5, TxTypes, TemporalAssumption DEF SeparateFamilies, SoftDelete
  <2> DEFINE result == [o \in os |-> Deleted(assertions[o], f, from, until, t.started)]
  <2>2. Commit(w, os, result)
    BY <1>5 DEF SoftDelete
  <2>3. \A o \in os : result[o] # Refused => Written(assertions[o], result[o], t.started)
    <3>1. ASSUME NEW o \in os, Deleted(assertions[o], f, from, until, t.started) # Refused
          PROVE  Written(assertions[o], Deleted(assertions[o], f, from, until, t.started), t.started)
      BY <2>1, <3>1, DeletedWritten
    <3> QED
      BY <3>1
  <2> HIDE DEF result
  <2> QED
    BY <2>1, <2>2, <2>3, CommitWrites
<1>6. ASSUME NEW o \in Objects, AppendSourceState(w, o) PROVE CommitOf(w)
  <2> DEFINE h == assertions[o]
             now == t.started
             states == AcceptedClaims(h, SourceFamily)
             newest == {k \in states : \A j \in states : j <= k}
             p == IF states = {} THEN NotGiven ELSE CHOOSE k \in newest : TRUE
             kind == IF states = {} THEN "payload" ELSE "supersession"
             g == Append(h, NewRow(SourceFamily, kind, p, [from |-> now, until |-> Open], now))
  <2>1. t.pc # "none" /\ t.started \in KnownTimes /\ CommitOne(w, o, g)
    BY <1>6, TxTypes DEF AppendSourceState
  <2>2. states # {} => p \in states
    <3>1. ASSUME states # {} PROVE newest # {}
      <4>1. PICK k \in states : TRUE
        BY <3>1
      <4>2. \A j \in states : j = k
        BY HistoryTypes DEF HistoryOK, OneSourceState, AcceptedClaims
      <4>3. k \in Nat
        BY HistoryTypes DEF AcceptedClaims, Accepted
      <4>4. k \in newest
        BY <4>2, <4>3
      <4> QED
        BY <4>4
    <3> HIDE DEF states
    <3> QED
      BY <3>1
  <2>3. kind \in {"payload", "supersession"} /\ (states = {} => p = NotGiven)
    OBVIOUS
  <2> HIDE DEF p, kind
  <2>4. Written(h, g, now)
    BY <2>1, <2>2, <2>3, SourceStateWritten
  <2> HIDE DEF g
  <2> QED
    BY <2>1, <2>4, CommitOneWrites
<1> QED
  BY <1>1, <1>2, <1>3, <1>4, <1>5, <1>6 DEF Operate, Correct

LEMMA WrittenKeeps ==
  ASSUME TypeOK, NEW h \in Seq(Assertion), HistoryOK(h), NEW g, NEW now \in KnownTimes,
         Written(h, g, now)
  PROVE  /\ g \in Seq(Assertion) /\ HistoryOK(g)
         /\ \A k \in DOMAIN h : k \in DOMAIN g /\ g[k] = h[k]
         /\ \A k \in DOMAIN g : k \in DOMAIN h \/ g[k].recorded = now
         /\ \A k \in DOMAIN g : k \in DOMAIN h \/ g[k].from < g[k].until
         /\ SerialHistoryOK(h) /\ (\A k \in DOMAIN h : h[k].recorded <= now) => SerialHistoryOK(g)
<1>1. PICK f \in Families, p \in Nat : Extension(h, g, f, p, now)
  BY DEF Written
<1>2. /\ DOMAIN g = DOMAIN h \cup NewIn(h, g) /\ g \in Seq(Assertion)
      /\ \A k \in DOMAIN h : g[k] = h[k]
      /\ \A k \in NewIn(h, g) : g[k].recorded = now /\ g[k].from < g[k].until
  <2>1. DOMAIN g = DOMAIN h \cup NewIn(h, g)
    BY <1>1, AcceptedOfExtension DEF HistoryOK
  <2>2. /\ g \in Seq(Assertion) /\ \A k \in DOMAIN h : g[k] = h[k]
        /\ \A k \in NewIn(h, g) : g[k].recorded = now /\ g[k].from < g[k].until
    BY <1>1 DEF Extension, NewRowOK
  <2> QED
    BY <2>1, <2>2
<1>3. HistoryOK(g)
  BY <1>1, ExtensionKeepsHistory
<1>4. SerialHistoryOK(h) /\ (\A k \in DOMAIN h : h[k].recorded <= now) => SerialHistoryOK(g)
  BY <1>1, ExtensionKeepsSerial
<1> QED
  BY <1>2, <1>3, <1>4

\* The axes of a behaviour are fixed.
LEMMA SameAxes ==
  ASSUME UNCHANGED setting
  PROVE  /\ Assertion' = Assertion /\ Times' = Times /\ (Serial' <=> Serial)
BY DEF Assertion, Times, Serial

LEMMA AloneWhenSerial ==
  ASSUME TypeOK, Serial, NEW v \in setting.callers, NEW w \in setting.callers
  PROVE  v = w
<1>1. IsFiniteSet(setting.callers)
  BY TimesType, TemporalAssumption, FS_Subset
<1> QED
  BY <1>1, FS_Singleton DEF Serial

LEMMA CommitKeeps ==
  ASSUME TemporalInv, NEW w \in setting.callers, CommitOf(w)
  PROVE  TemporalInv'
<1> DEFINE now == tx[w].started
<1>1. /\ TypeOK /\ w \in Callers /\ now \in KnownTimes /\ now <= clock /\ now \in Int
      /\ clock \in KnownTimes /\ tx[w].pc # "none"
  BY TxTypes DEF TemporalInv, CommitOf
<1>2. /\ UNCHANGED <<clock, setting>> /\ tx' = [tx EXCEPT ![w] = NoTransaction]
      /\ assertions' = [o \in Objects |-> assertions'[o]]
      /\ \A o \in Objects : \/ assertions'[o] = assertions[o]
                            \/ /\ Written(assertions[o], assertions'[o], now)
                               /\ Len(assertions'[o]) <= MaxRevisions
      /\ Assertion' = Assertion /\ Times' = Times /\ (Serial' <=> Serial)
  BY SameAxes DEF CommitOf
<1>3. ASSUME NEW o \in Objects
      PROVE  /\ assertions'[o] \in Seq(Assertion) /\ Len(assertions'[o]) <= MaxRevisions
             /\ \A k \in DOMAIN assertions'[o] : /\ assertions'[o][k].from < assertions'[o][k].until
                                                 /\ assertions'[o][k].recorded <= clock
             /\ HistoryOK(assertions'[o])
             /\ Serial => SerialHistoryOK(assertions'[o])
             /\ \A k \in DOMAIN assertions[o] :
                  k \in DOMAIN assertions'[o] /\ assertions'[o][k] = assertions[o][k]
  <2>1. /\ assertions[o] \in Seq(Assertion) /\ HistoryOK(assertions[o])
        /\ Len(assertions[o]) <= MaxRevisions
        /\ \A k \in DOMAIN assertions[o] : /\ assertions[o][k].from < assertions[o][k].until
                                           /\ assertions[o][k].recorded <= clock
        /\ Serial => SerialHistoryOK(assertions[o])
    BY DEF TemporalInv, ObjectOK, TypeOK
  <2>2. CASE assertions'[o] = assertions[o]
    BY <2>1, <2>2
  <2>3. CASE Written(assertions[o], assertions'[o], now) /\ Len(assertions'[o]) <= MaxRevisions
    <3>1. Serial => \A k \in DOMAIN assertions[o] : assertions[o][k].recorded <= now
      BY <1>1 DEF TemporalInv, SerialTxOK
    <3> HIDE DEF now
    <3> QED
      BY <1>1, <2>1, <2>3, <3>1, WrittenKeeps
  <2> QED
    BY <1>2, <2>2, <2>3
<1>4. NoTransaction \in Transaction /\ NoTransaction.pc = "none"
  BY TemporalAssumption DEF NoTransaction, Transaction
<1>5. /\ tx' \in [Callers -> Transaction] /\ tx'[w].pc = "none"
      /\ \A v \in Callers \ {w} : tx'[v] = tx[v]
  <2>1. tx \in [Callers -> Transaction]
    BY <1>1 DEF TypeOK
  <2> QED
    BY <1>1, <1>2, <1>4, <2>1
<1>6. TypeOK'
  <2>1. assertions' \in [Objects -> Seq(Assertion)]
    BY <1>2, <1>3
  <2>2. \A o \in Objects : /\ Len(assertions'[o]) <= MaxRevisions
                           /\ \A k \in DOMAIN assertions'[o] : assertions'[o][k].from < assertions'[o][k].until
    BY <1>3
  <2>3. (clock \in KnownTimes /\ setting \in Settings)'
    BY <1>1, <1>2 DEF TypeOK
  <2>4. tx' \in [Callers -> Transaction']
    BY <1>5 DEF Transaction
  <2> QED
    BY <1>2, <2>1, <2>2, <2>3, <2>4 DEF TypeOK
<1>7. \A o \in Objects : ObjectOK(o)'
  BY <1>2, <1>3 DEF ObjectOK
<1>8. \A v \in Callers : TxOK(v)'
  <2>1. ASSUME NEW v \in Callers, v # w PROVE TxOK(v)'
    <3>1. TxOK(v) /\ tx'[v] = tx[v] /\ (tx[v].pc = "checked" => tx[v].object \in Objects)
      BY <1>5, <2>1 DEF TemporalInv, TypeOK, Transaction
    <3> QED
      BY <1>2, <1>3, <3>1 DEF TxOK
  <2>2. TxOK(w)'
    BY <1>5 DEF TxOK
  <2> QED
    BY <2>1, <2>2
<1>9. ASSUME Serial' PROVE \A v \in Callers : SerialTxOK(v)'
  <2>1. \A v \in Callers : tx'[v].pc = "none"
    <3>1. ASSUME NEW v \in Callers, v # w PROVE tx[v].pc = "none"
      <4>1. TxOK(v) /\ Serial
        BY <1>2, <1>9 DEF TemporalInv
      <4> QED
        BY <1>1, <3>1, <4>1, AloneWhenSerial DEF TxOK
    <3> QED
      BY <1>5, <3>1
  <2> QED
    BY <2>1 DEF SerialTxOK
<1> QED
  BY <1>6, <1>7, <1>8, <1>9 DEF TemporalInv

\* A step that leaves the histories alone: a begin, a check, a rollback.
LEMMA TransactionKeeps ==
  ASSUME TemporalInv, NEW w \in setting.callers, NEW t \in Transaction,
         tx' = [tx EXCEPT ![w] = t], UNCHANGED <<assertions, clock, setting>>,
         t.pc # "none" => t.started \in 1 .. clock,
         t.pc # "none" => \A o \in Objects, k \in 1 .. MaxRevisions :
           Serial /\ k \in DOMAIN assertions[o] => assertions[o][k].recorded <= t.started,
         t.pc = "checked" =>
           /\ t.prior \in DOMAIN assertions[t.object]
           /\ assertions[t.object][t.prior].family \in ServiceFamilies
           /\ Serial => t.prior \in Accepted(assertions[t.object])
  PROVE  TemporalInv'
<1>1. /\ TypeOK /\ w \in Callers
      /\ Assertion' = Assertion /\ Times' = Times /\ (Serial' <=> Serial)
  BY TimesType, SameAxes DEF TemporalInv
<1>2. tx' \in [Callers -> Transaction] /\ tx'[w] = t /\ \A v \in Callers \ {w} : tx'[v] = tx[v]
  BY <1>1 DEF TypeOK
<1>3. TypeOK'
  BY <1>1, <1>2 DEF TypeOK, Transaction
<1>4. \A o \in Objects : ObjectOK(o)'
  BY <1>1 DEF TemporalInv, ObjectOK
<1>5. \A v \in Callers : TxOK(v)'
  BY <1>2 DEF TemporalInv, TxOK
<1>6. ASSUME Serial' PROVE \A v \in Callers : SerialTxOK(v)'
  <2>1. ASSUME NEW v \in Callers, v # w PROVE SerialTxOK(v)'
    BY <1>1, <1>2, <1>6, <2>1 DEF TemporalInv, SerialTxOK
  <2>2. SerialTxOK(w)'
    <3>1. \A o \in Objects : DOMAIN assertions[o] \subseteq 1 .. MaxRevisions
      BY HistoryTypes
    <3> QED
      BY <1>1, <1>2, <1>6, <3>1 DEF SerialTxOK
  <2> QED
    BY <2>1, <2>2
<1> QED
  BY <1>3, <1>4, <1>5, <1>6 DEF TemporalInv

LEMMA TickKeeps == ASSUME TemporalInv, Tick PROVE TemporalInv'
<1>1. /\ TypeOK /\ UNCHANGED <<assertions, tx, setting>> /\ clock' \in KnownTimes
      /\ clock \in Int /\ clock' = clock + 1
      /\ Assertion' = Assertion /\ Times' = Times /\ (Serial' <=> Serial)
  BY SameAxes, TemporalAssumption DEF TemporalInv, TypeOK, Tick, KnownTimes
<1>2. TypeOK'
  BY <1>1 DEF TypeOK, Transaction
<1>3. \A o \in Objects : ObjectOK(o)'
  <2>1. ASSUME NEW o \in Objects PROVE ObjectOK(o)'
    <3>1. \A k \in DOMAIN assertions[o] :
            assertions[o][k].recorded <= clock /\ assertions[o][k].recorded \in Int
      <4>1. assertions[o] \in Seq(Assertion)
        BY HistoryTypes
      <4> QED
        BY <1>1, <4>1, RowType DEF TemporalInv, ObjectOK, KnownTimes
    <3> QED
      BY <1>1, <3>1 DEF TemporalInv, ObjectOK
  <2> QED
    BY <2>1
<1>4. \A v \in Callers : TxOK(v)' /\ (Serial' => SerialTxOK(v)')
  BY <1>1 DEF TemporalInv, TxOK, SerialTxOK
<1> QED
  BY <1>2, <1>3, <1>4 DEF TemporalInv

LEMMA TemporalStep ==
  ASSUME SeparateFamilies, TemporalInv, [Next]_temporalVars
  PROVE  TemporalInv'
<1>1. CASE UNCHANGED temporalVars
  <2>1. /\ Assertion' = Assertion /\ Times' = Times /\ (Serial' <=> Serial)
        /\ UNCHANGED <<assertions, clock, tx, setting>>
    BY <1>1, SameAxes DEF temporalVars
  <2>2. TypeOK'
    BY <2>1 DEF TemporalInv, TypeOK, Transaction
  <2>3. \A o \in Objects : ObjectOK(o)'
    BY <2>1 DEF TemporalInv, ObjectOK
  <2>4. \A v \in Callers : TxOK(v)' /\ (Serial' => SerialTxOK(v)')
    BY <2>1 DEF TemporalInv, TxOK, SerialTxOK
  <2> QED
    BY <2>2, <2>3, <2>4 DEF TemporalInv
<1>2. CASE Next
  <2>0. TypeOK /\ setting.callers \subseteq Callers /\ tx \in [Callers -> Transaction]
    BY TimesType DEF TemporalInv, TypeOK
  <2>1. ASSUME NEW w \in setting.callers, Begin(w) PROVE TemporalInv'
    <3> DEFINE t == [tx[w] EXCEPT !.pc = "begun", !.started = clock]
    <3>1. tx' = [tx EXCEPT ![w] = t] /\ UNCHANGED <<assertions, clock, setting>>
      BY <2>1, <2>0 DEF Begin
    <3>2. /\ t \in Transaction /\ t.pc = "begun" /\ t.started = clock
          /\ clock \in 1 .. clock
      <4>1. clock \in KnownTimes /\ w \in Callers /\ tx[w] \in Transaction
        BY <2>0 DEF TypeOK
      <4>2. clock \in 1 .. clock
        BY <4>1, TemporalAssumption DEF KnownTimes
      <4> QED
        BY <4>1, <4>2 DEF Transaction
    <3>3. \A o \in Objects, k \in 1 .. MaxRevisions :
            Serial /\ k \in DOMAIN assertions[o] => assertions[o][k].recorded <= clock
      BY DEF TemporalInv, ObjectOK
    <3> HIDE DEF t
    <3> QED
      BY <3>1, <3>2, <3>3, TransactionKeeps
  <2>2. ASSUME NEW w \in setting.callers, NEW o \in Objects, NEW p \in DOMAIN assertions[o],
               CheckPrior(w, o, p)
        PROVE  TemporalInv'
    <3> DEFINE t == [tx[w] EXCEPT !.pc = "checked", !.object = o, !.prior = p]
    <3>1. tx' = [tx EXCEPT ![w] = t] /\ UNCHANGED <<assertions, clock, setting>>
      BY <2>0, <2>2 DEF CheckPrior
    <3>2. /\ t \in Transaction /\ t.pc = "checked" /\ t.started = tx[w].started
          /\ t.object = o /\ t.prior = p
      <4>1. p \in 0 .. MaxRevisions
        BY HistoryTypes, TemporalAssumption
      <4> QED
        BY <2>0, <4>1 DEF Transaction
    <3>3. /\ tx[w].pc = "begun" /\ assertions[o][p].family \in ServiceFamilies
          /\ p \in Accepted(assertions[o]) /\ tx[w].started \in 1 .. clock
      BY <2>0, <2>2 DEF CheckPrior, TemporalInv, TxOK
    <3>4. \A x \in Objects, k \in 1 .. MaxRevisions :
            Serial /\ k \in DOMAIN assertions[x] => assertions[x][k].recorded <= tx[w].started
      BY <2>0, <3>3 DEF TemporalInv, SerialTxOK
    <3> HIDE DEF t
    <3> QED
      BY <3>1, <3>2, <3>3, <3>4, TransactionKeeps
  <2>3. ASSUME NEW w \in setting.callers, Abort(w) PROVE TemporalInv'
    <3>1. NoTransaction \in Transaction /\ NoTransaction.pc = "none"
      BY TemporalAssumption DEF NoTransaction, Transaction
    <3>2. tx' = [tx EXCEPT ![w] = NoTransaction] /\ UNCHANGED <<assertions, clock, setting>>
      BY <2>3 DEF Abort
    <3> QED
      BY <3>1, <3>2, TransactionKeeps
  <2>4. ASSUME NEW w \in setting.callers,
               Operate(w) \/ \E o \in Objects : AppendSourceState(w, o)
        PROVE  TemporalInv'
    BY <2>4, OperationsCommit, CommitKeeps
  <2> QED
    BY <1>2, <2>1, <2>2, <2>3, <2>4, TickKeeps DEF Next
<1> QED
  BY <1>1, <1>2


LEMMA TemporalInit == ASSUME Init PROVE TemporalInv
<1>1. TypeOK
  <2>1. NoTransaction \in Transaction /\ 1 \in KnownTimes
    BY TemporalAssumption DEF NoTransaction, Transaction, KnownTimes
  <2>2. << >> \in Seq(Assertion) /\ Len(<< >>) = 0 /\ DOMAIN << >> = {}
    OBVIOUS
  <2>3. \A o \in Objects : assertions[o] = << >>
    BY DEF Init
  <2>4. assertions \in [Objects -> Seq(Assertion)] /\ tx \in [Callers -> Transaction]
    BY <2>1, <2>2 DEF Init
  <2>5. \A o \in Objects : Len(assertions[o]) <= MaxRevisions
    BY <2>2, <2>3, TemporalAssumption
  <2>6. \A o \in Objects : DOMAIN assertions[o] = {}
    BY <2>2, <2>3
  <2> QED
    BY <2>1, <2>4, <2>5, <2>6 DEF Init, TypeOK
<1>2. ASSUME NEW o \in Objects PROVE ObjectOK(o)
  <2>1. DOMAIN assertions[o] = {}
    BY DEF Init
  <2>2. HistoryOK(assertions[o])
    BY <2>1 DEF HistoryOK, BackReferences, Disjoint, OneSourceState, MetOnlySuperseded, Accepted
  <2>3. SerialHistoryOK(assertions[o])
    BY <2>1 DEF SerialHistoryOK
  <2> QED
    BY <2>1, <2>2, <2>3 DEF ObjectOK
<1>3. \A w \in Callers : tx[w].pc = "none"
  BY DEF Init, NoTransaction
<1>4. \A w \in Callers : TxOK(w) /\ (Serial => SerialTxOK(w))
  BY <1>3 DEF TxOK, SerialTxOK
<1> QED
  BY <1>1, <1>2, <1>4 DEF TemporalInv

\* A transaction that is checked, begun, aborted or ticked past writes nothing;
\* the rest are commits of a transaction in progress.
LEMMA WritesAreCommits ==
  ASSUME SeparateFamilies, TemporalInv, [Next]_temporalVars
  PROVE  /\ UNCHANGED setting
         /\ \/ UNCHANGED assertions
            \/ \E w \in setting.callers : CommitOf(w)
<1>1. CASE UNCHANGED temporalVars
  BY <1>1 DEF temporalVars
<1>2. CASE Tick
  BY <1>2 DEF Tick
<1>3. ASSUME NEW w \in setting.callers,
             \/ Begin(w) \/ Abort(w)
             \/ \E o \in Objects : \E p \in DOMAIN assertions[o] : CheckPrior(w, o, p)
      PROVE  UNCHANGED <<assertions, setting>>
  BY <1>3 DEF Begin, Abort, CheckPrior
<1>4. ASSUME NEW w \in setting.callers,
             Operate(w) \/ \E o \in Objects : AppendSourceState(w, o)
      PROVE  CommitOf(w) /\ UNCHANGED setting
  <2>1. CommitOf(w)
    BY <1>4, OperationsCommit
  <2> QED
    BY <2>1 DEF CommitOf
<1> QED
  BY <1>1, <1>2, <1>3, <1>4 DEF Next

-----------------------------------------------------------------------------
(* Theorems.                                                               *)

LEMMA TemporalAlways ==
  ASSUME SeparateFamilies
  PROVE  Spec => []TemporalInv
<1>1. Init => TemporalInv
  BY TemporalInit
<1>2. TemporalInv /\ [Next]_temporalVars => TemporalInv'
  BY TemporalStep
<1> QED
  BY <1>1, <1>2, PTL DEF Spec

\* However the transactions of create, supersede, close, replace, restore, delete
\* and _append_source_state interleave, _guard_unambiguous under the registry
\* lock keeps the accepted assertions of an object and family disjoint, although
\* the prior a correction ignores was checked before the lock.
THEOREM DisjointHistories ==
  ASSUME SeparateFamilies
  PROVE  Spec => []AcceptedDisjoint
<1>1. TemporalInv => AcceptedDisjoint
  BY DEF TemporalInv, ObjectOK, HistoryOK, Disjoint, AcceptedDisjoint
<1> QED
  BY <1>1, TemporalAlways, PTL

LEMMA AmbiguityIsExplained ==
  ASSUME TypeOK, NEW h \in Seq(Assertion), HistoryOK(h), Serial => SerialHistoryOK(h),
         NEW act \in Times, NEW known \in KnownTimes,
         NEW j \in Visible(h, act, known), NEW k \in Visible(h, act, known),
         j < k, h[j].family = h[k].family
  PROVE  ~Serial /\ \E m \in j + 1 .. k - 1 : h[m].supersedes = j /\ known < h[m].recorded
<1>1. /\ j \in DOMAIN h /\ k \in DOMAIN h /\ j \notin SupersededAsOf(h, known)
      /\ h[j].from <= act /\ act < h[j].until /\ h[k].from <= act /\ act < h[k].until
      /\ h[k].recorded <= known
  BY DEF Visible, IsVisible
<1>2. /\ h[j].from \in Int /\ h[j].until \in Int /\ h[k].from \in Int /\ h[k].until \in Int
      /\ act \in Int /\ j \in Nat /\ k \in Nat /\ k <= Len(h) /\ Len(h) \in Nat
      /\ DOMAIN h = 1 .. Len(h) /\ known \in Int
  BY <1>1, RowType, TimesType DEF KnownTimes
<1>3. Overlaps(h[j], h[k])
  BY <1>1, <1>2 DEF Overlaps
<1>4. \A m \in DOMAIN h : h[m].supersedes = j => ~(h[m].recorded <= known)
  BY <1>1 DEF SupersededAsOf
<1>5. PICK m \in j + 1 .. k - 1 : h[m].supersedes = j
  BY <1>1, <1>3, <1>4 DEF HistoryOK, MetOnlySuperseded
<1>6. m \in DOMAIN h /\ m <= k
  BY <1>2, <1>5
<1>7. /\ h[m].recorded \in Int /\ h[k].recorded \in Int
      /\ known < h[m].recorded /\ ~(h[m].recorded <= h[k].recorded)
  <2>1. h[m].recorded \in Int /\ h[k].recorded \in Int
    BY <1>1, <1>6, RowType DEF KnownTimes
  <2> QED
    BY <1>1, <1>2, <1>4, <1>5, <1>6, <2>1
<1>8. ~Serial
  BY <1>1, <1>6, <1>7 DEF SerialHistoryOK
<1> QED
  BY <1>5, <1>7, <1>8

\* Whatever transactions overlap, select_visible_assertion finds two survivors of one
\* family only at a known time between the start of a transaction and that of another,
\* which overtook it and superseded the older survivor before it committed the younger.
THEOREM AsOfCorrect ==
  ASSUME SeparateFamilies
  PROVE  Spec => []AsOfInv
<1>1. TemporalInv => AsOfInv
  <2> SUFFICES ASSUME TemporalInv PROVE AsOfInv
    OBVIOUS
  <2>1. TypeOK
    BY DEF TemporalInv
  <2>2. ASSUME NEW o \in Objects, NEW act \in Times, NEW known \in KnownTimes,
               NEW j \in Visible(assertions[o], act, known),
               NEW k \in Visible(assertions[o], act, known),
               j < k, assertions[o][j].family = assertions[o][k].family
        PROVE  /\ ~Serial
               /\ \E m \in j + 1 .. k - 1 :
                    assertions[o][m].supersedes = j /\ known < assertions[o][m].recorded
    <3>1. /\ assertions[o] \in Seq(Assertion) /\ HistoryOK(assertions[o])
          /\ Serial => SerialHistoryOK(assertions[o])
      BY <2>1 DEF TemporalInv, ObjectOK, TypeOK
    <3> QED
      BY <2>1, <2>2, <3>1, AmbiguityIsExplained
  <2> QED
    BY <2>1, <2>2 DEF AsOfInv, AsOfUnambiguous
<1> QED
  BY <1>1, TemporalAlways, PTL

LEMMA CommitSettles ==
  ASSUME TemporalInv, NEW w \in setting.callers, CommitOf(w),
         NEW known \in 1 .. clock - 1, known < tx[w].started,
         NEW o \in Objects, NEW act
  PROVE  Visible(assertions'[o], act, known) = Visible(assertions[o], act, known)
<1>1. /\ assertions[o] \in Seq(Assertion) /\ TypeOK /\ HistoryOK(assertions[o])
      /\ tx[w].started \in KnownTimes /\ known \in Int
  BY HistoryTypes, TxTypes DEF CommitOf
<1>2. CASE assertions'[o] = assertions[o]
  BY <1>2
<1>3. CASE Written(assertions[o], assertions'[o], tx[w].started)
  <2>1. PICK e \in Families, p \in Nat :
          Extension(assertions[o], assertions'[o], e, p, tx[w].started)
    BY <1>3 DEF Written
  <2> QED
    BY <1>1, <2>1, ExtensionKeepsThePast
<1> QED
  BY <1>2, <1>3 DEF CommitOf

\* A commit of any writer records its rows at its transaction's now(): what was
\* visible as of a known time before the clock and before every open
\* transaction's start is what will always be visible as of it.
THEOREM TheSettledPastIsKept ==
  ASSUME SeparateFamilies
  PROVE  Spec => SettledTimesStable
<1> DEFINE Step == \A known \in 1 .. clock - 1 :
             (\A w \in Callers : tx[w].pc # "none" => known < tx[w].started)
             => \A o \in Objects, act \in Times :
                  Visible(assertions'[o], act, known)
                    = Visible(assertions[o], act, known)
<1>1. TemporalInv /\ [Next]_temporalVars => Step
  <2> SUFFICES ASSUME TemporalInv, [Next]_temporalVars,
                      NEW known \in 1 .. clock - 1,
                      \A w \in Callers : tx[w].pc # "none" => known < tx[w].started,
                      NEW o \in Objects, NEW act \in Times
               PROVE  Visible(assertions'[o], act, known)
                        = Visible(assertions[o], act, known)
    OBVIOUS
  <2>1. CASE UNCHANGED assertions
    BY <2>1
  <2>2. ASSUME NEW w \in setting.callers, CommitOf(w)
        PROVE  Visible(assertions'[o], act, known)
                 = Visible(assertions[o], act, known)
    <3>1. w \in Callers
      BY TimesType DEF TemporalInv
    <3>2. known < tx[w].started
      BY <2>2, <3>1 DEF CommitOf
    <3> QED
      BY <2>2, <3>2, CommitSettles
  <2> QED
    BY <2>1, <2>2, WritesAreCommits
<1>2. Spec => [][Step]_temporalVars
  <2> HIDE DEF Step
  <2> QED
    BY <1>1, TemporalAlways, PTL DEF Spec
<1> QED
  BY <1>2 DEF SettledTimesStable

LEMMA CommitSupersedesAccepted ==
  ASSUME TemporalInv, NEW w \in setting.callers, CommitOf(w), Serial,
         NEW o \in Objects, NEW c \in NewRows(o)
  PROVE  assertions'[o][c].supersedes \in Accepted(assertions[o]) \cup {NotGiven}
<1>1. c \in NewIn(assertions[o], assertions'[o])
  BY DEF NewRows, NewIn
<1>2. Written(assertions[o], assertions'[o], tx[w].started)
  BY <1>1 DEF CommitOf, NewIn
<1> QED
  BY <1>1, <1>2 DEF Written, Extension, NewRowOK

\* What a committed _split leaves of the row it replaced.
LEMMA SplitReplaces ==
  ASSUME TemporalInv, NEW o \in Objects, NEW p \in DOMAIN assertions[o],
         NEW window, NEW kind \in Kinds, NEW now \in KnownTimes,
         assertions[o][p].family # SourceFamily,
         assertions'[o] = Split(assertions[o], p, window, kind, now),
         assertions'[o] # Refused
  PROVE  Replaces(o, p)
<1> DEFINE h == assertions[o]
           g == assertions'[o]
<1>1. TypeOK /\ h \in Seq(Assertion) /\ p \in 0 .. MaxRevisions /\ h[p].from < h[p].until
  BY HistoryTypes, TemporalAssumption
<1>2. Extension(h, g, h[p].family, p, now) /\ KeepsTheRest(h, g, p)
  <2> DEFINE split == Split(h, p, window, kind, now)
  <2>1. Extension(h, split, h[p].family, p, now) /\ KeepsTheRest(h, split, p)
    BY <1>1, SplitExtends
  <2>2. g = split
    OBVIOUS
  <2> HIDE DEF split, g
  <2> QED
    BY <2>1, <2>2
<1>3. NewRows(o) = NewIn(h, g)
  BY DEF NewRows, NewIn
<1>4. g[p] = h[p] /\ \A k \in NewIn(h, g) : g[k].supersedes = p
  BY <1>2 DEF Extension, NewRowOK
<1> QED
  BY <1>2, <1>3, <1>4 DEF Replaces, KeepsTheRest, Holds

\* Both parts of SplitKeepsTheRest.
LEMMA ReplacementsReplace ==
  ASSUME SeparateFamilies, TemporalInv, NEW w \in setting.callers, NEW window,
         ReplaceInterval(w, window)
  PROVE  Replaces(tx[w].object, tx[w].prior)
<1> DEFINE o == tx[w].object
           p == tx[w].prior
           g == Split(assertions[o], p, window, "supersession", tx[w].started)
<1>1. tx[w].pc = "checked" /\ CommitOne(w, o, g)
  BY DEF ReplaceInterval
<1>2. /\ o \in Objects /\ p \in DOMAIN assertions[o] /\ tx[w].started \in KnownTimes
      /\ assertions[o][p].family # SourceFamily /\ "supersession" \in Kinds
  BY <1>1, PriorOK DEF Kinds
<1> HIDE DEF g
<1>3. assertions'[o] = g /\ g # Refused
  BY <1>1, <1>2 DEF CommitOne, Commit
<1> QED
  BY <1>2, <1>3, SplitReplaces DEF g

LEMMA DeletionsReplace ==
  ASSUME SeparateFamilies, TemporalInv, NEW w \in setting.callers, NEW os \in SUBSET Objects,
         NEW f \in ServiceFamilies, NEW from, NEW until, SoftDelete(w, os, f, from, until),
         NEW o \in os, NEW p \in DeletionTargets(assertions[o], f, from, until) \ {NotGiven}
  PROVE  Replaces(o, p)
<1> DEFINE h == assertions[o]
           targets == DeletionTargets(h, f, from, until)
           window == [from |-> Given(from, h[p].from), until |-> Given(until, h[p].until)]
           now == tx[w].started
<1>1. targets \subseteq AcceptedClaims(h, f) /\ \A q \in targets : q = p
  <2> DEFINE claims == AcceptedClaims(h, f)
             within == [from |-> from, until |-> until]
             hit == IF from = NotGiven THEN claims
                    ELSE IF until # NotGiven THEN {k \in claims : Overlaps(h[k], within)}
                    ELSE {k \in claims : h[k].from <= from /\ from < h[k].until}
  <2>1. /\ claims # {} /\ Cardinality(hit) = 1
        /\ targets = {k \in hit : from # NotGiven /\ until # NotGiven => Contains(h[k], within)}
    BY DEF DeletionTargets
  <2>2. hit \subseteq claims /\ targets \subseteq hit
    BY <2>1
  <2>3. IsFiniteSet(hit)
    <3>1. DOMAIN h \subseteq 1 .. MaxRevisions /\ claims \subseteq DOMAIN h
      BY HistoryTypes DEF AcceptedClaims, Accepted
    <3>2. IsFiniteSet(1 .. MaxRevisions)
      BY FS_Interval, TemporalAssumption
    <3> HIDE DEF claims, hit, h
    <3> QED
      BY <2>2, <3>1, <3>2, FS_Subset
  <2>4. p \in targets
    OBVIOUS
  <2> HIDE DEF hit, targets
  <2>5. PICK q : hit = {q}
    BY <2>1, <2>3, FS_Singleton
  <2> QED
    BY <2>2, <2>4, <2>5
<1>2. p \in targets /\ p # NotGiven
  OBVIOUS
<1>3. p \in DOMAIN h /\ h[p].family = f /\ o \in Objects /\ f # SourceFamily
  BY <1>1, <1>2 DEF AcceptedClaims, Accepted, SeparateFamilies
<1>4. Deleted(h, f, from, until, now) = Split(h, p, window, "deletion", now)
  <2> DEFINE q == CHOOSE k \in targets : TRUE
  <2> HIDE DEF targets
  <2>1. q = p /\ targets # {}
    BY <1>1, <1>2
  <2> QED
    BY <1>2, <2>1 DEF Deleted, targets
<1>5. assertions'[o] = Deleted(h, f, from, until, now) /\ assertions'[o] # Refused
  BY <1>3 DEF SoftDelete, Commit
<1>6. now \in KnownTimes /\ "deletion" \in Kinds
  BY TxTypes DEF SoftDelete, Kinds
<1> HIDE DEF window, now
<1> QED
  BY <1>3, <1>4, <1>5, <1>6, SplitReplaces

\* supersede, close, replace, restore, delete and _append_source_state supersede
\* an accepted row when callers come in turn, whatever kinds callers pass, and _split
\* leaves each instant of the row it replaces in force once, with one claim changed at
\* most.
THEOREM CorrectionsExact ==
  ASSUME SeparateFamilies
  PROVE  Spec => CorrectionsAreExact
<1> DEFINE Accepts ==
             Serial => \A o \in Objects : \A k \in NewRows(o) :
               assertions'[o][k].supersedes \in Accepted(assertions[o]) \cup {NotGiven}
           Keeps ==
             \A w \in setting.callers :
               /\ (\E window \in Interval : ReplaceInterval(w, window)) =>
                    Replaces(tx[w].object, tx[w].prior)
               /\ \A os \in SUBSET Objects, f \in ServiceFamilies,
                     from \in Times \cup {NotGiven}, until \in Times \cup {NotGiven, Open} :
                    SoftDelete(w, os, f, from, until) =>
                      \A o \in os : \A p \in DeletionTargets(assertions[o], f, from, until) \ {NotGiven} :
                        Replaces(o, p)
<1>1. TemporalInv /\ [Next]_temporalVars => Accepts
  <2> SUFFICES ASSUME TemporalInv, [Next]_temporalVars, Serial,
                      NEW o \in Objects, NEW k \in NewRows(o)
               PROVE  assertions'[o][k].supersedes \in Accepted(assertions[o]) \cup {NotGiven}
    OBVIOUS
  <2>1. PICK w \in setting.callers : CommitOf(w)
    BY WritesAreCommits DEF NewRows
  <2> QED
    BY <2>1, CommitSupersedesAccepted
<1>2. TemporalInv => Keeps
  BY ReplacementsReplace, DeletionsReplace
<1>3. Spec => [][Accepts]_temporalVars /\ [][Keeps]_temporalVars
  <2> HIDE DEF Accepts, Keeps
  <2> QED
    BY <1>1, <1>2, TemporalAlways, PTL DEF Spec
<1>4. Spec => SupersedesAccepted
  BY <1>3 DEF SupersedesAccepted
<1>5. Spec => SplitKeepsTheRest
  BY <1>3 DEF SplitKeepsTheRest
<1> QED
  BY <1>4, <1>5 DEF CorrectionsAreExact

=============================================================================
