-------------------------- MODULE TemporalAssertions --------------------------
(***************************************************************************)
(* The append-only bitemporal history of runtime/temporal_assertions.py,   *)
(* its second writer _append_source_state of ingestion/runtime_boundary.py *)
(* and the as-of resolution of commands/retrieval_commands.py.             *)
(*                                                                         *)
(* A write is one transaction.  PostgreSQL fixes now() when it begins;     *)
(* operations that correct an assertion check it before they lock the      *)
(* object's registry row, everything after the lock is one atomic step.    *)
(***************************************************************************)
EXTENDS Integers, Sequences, FiniteSets

CONSTANTS
  Objects,         \* entity_uuid_registry.entity_id
  Families,        \* payload families of an object
  SourceFamily,    \* the family _append_source_state writes
  ServiceFamilies, \* families callers of TemporalAssertionService write
  CreateKinds,     \* assertion kinds callers of create_assertion pass
  SupersedeKinds,  \* assertion kinds callers of supersede_assertion pass
  Callers,         \* concurrent transactions
  Settings,        \* bounds: who calls, and the last effective instant they name
  MaxTime,         \* bound: last instant of the effective axis
  MaxClock,        \* bound: last instant of the transaction axis
  MaxRevisions     \* bound: assertions of one object

Kinds == {"payload", "interval_boundary", "supersession", "deletion", "restoration"}

ASSUME TemporalAssumption ==
  /\ Objects # {} /\ IsFiniteSet(Callers)
  /\ SourceFamily \in Families
  /\ ServiceFamilies \subseteq Families
  /\ CreateKinds \subseteq Kinds /\ SupersedeKinds \subseteq Kinds
  /\ MaxTime \in Nat \ {0}
  /\ MaxClock \in 1 .. MaxTime
  /\ Settings \subseteq [callers : SUBSET Callers, last : MaxClock .. MaxTime]
  /\ MaxRevisions \in Nat \ {0}

VARIABLES
  assertions,  \* temporal_assertions: each object's rows by revision_no
  clock,       \* the database clock
  tx,          \* each caller's transaction
  setting      \* the bounds of this behaviour; never changes

temporalVars == <<assertions, clock, tx, setting>>

Times == 1 .. setting.last
KnownTimes == 1 .. MaxClock
Open == MaxTime + 1   \* effective_until IS NULL
NotGiven == 0         \* an argument left out; no superseded assertion

\* Half-open effective intervals.
Interval == {i \in [from : Times, until : Times \cup {Open}] : i.from < i.until}

Assertion == [family : Families, kind : Kinds, supersedes : 0 .. MaxRevisions,
              from : Times, until : Times \cup {Open}, recorded : KnownTimes]

\* started is now(); object and prior are what a correction has checked.
Transaction == [pc : {"none", "begun", "checked"}, started : KnownTimes \cup {0},
                object : Objects, prior : 0 .. MaxRevisions]

NoTransaction == [pc |-> "none", started |-> 0,
                  object |-> CHOOSE o \in Objects : TRUE, prior |-> 0]

TypeOK ==
  /\ assertions \in [Objects -> Seq(Assertion)]
  /\ \A o \in Objects :
       /\ Len(assertions[o]) <= MaxRevisions
       /\ \A k \in DOMAIN assertions[o] : assertions[o][k].from < assertions[o][k].until
  /\ clock \in KnownTimes
  /\ tx \in [Callers -> Transaction]
  /\ setting \in Settings

Init ==
  /\ assertions = [o \in Objects |-> << >>]
  /\ clock = 1
  /\ tx = [w \in Callers |-> NoTransaction]
  /\ setting \in Settings

-----------------------------------------------------------------------------
(* Intervals. *)

Overlaps(i, j) == i.from < j.until /\ j.from < i.until

Larger(m, n) == IF m < n THEN n ELSE m
Smaller(m, n) == IF m < n THEN m ELSE n

Clipped(window, i) ==
  [from |-> Larger(window.from, i.from), until |-> Smaller(window.until, i.until)]

\* Mutant of Segments: the right remainder is forgotten.
SegmentsWithoutRight(original, corrected) ==
  [left |-> [from |-> original.from, until |-> corrected.from],
   corrected |-> corrected,
   right |-> [from |-> corrected.until, until |-> corrected.until]]

\* The three pieces _split replaces an original by; an empty one is skipped.
Segments(original, corrected) ==
  [left |-> [from |-> original.from, until |-> corrected.from],
   corrected |-> corrected,
   right |-> [from |-> corrected.until, until |-> original.until]]

Contains(i, j) == i.from <= j.from /\ j.until <= i.until

-----------------------------------------------------------------------------
(* Rows.  h is the history of one object; a refused operation has no result. *)

Refused == << >>

SupersededIn(h) == {h[k].supersedes : k \in DOMAIN h}

\* Rows that no row supersedes, deletions included.
Accepted(h) == DOMAIN h \ SupersededIn(h)

AcceptedClaims(h, f) == {k \in Accepted(h) : h[k].family = f /\ h[k].kind # "deletion"}

\* Mutant of Unambiguous: only a row containing the interval is a clash.
UnambiguousInside(h, f, i, ignore) ==
  \A k \in Accepted(h) : h[k].family = f /\ k # ignore => ~Contains(h[k], i)

\* _guard_unambiguous.
Unambiguous(h, f, i, ignore) ==
  \A k \in Accepted(h) : h[k].family = f /\ k # ignore => ~Overlaps(h[k], i)

\* Mutant of NewRow: recorded_at is the effective time of the claim.
RowRecordedWhenEffective(f, kind, supersedes, i, now) ==
  [family |-> f, kind |-> kind, supersedes |-> supersedes,
   from |-> i.from, until |-> i.until, recorded |-> Smaller(i.from, MaxClock)]

\* Mutant of NewRow: effective_until is stored as the last instant inside.
RowWithClosedInterval(f, kind, supersedes, i, now) ==
  [family |-> f, kind |-> kind, supersedes |-> supersedes,
   from |-> i.from, until |-> i.until - 1, recorded |-> now]

\* The row _append inserts: recorded_at is the transaction's now().
NewRow(f, kind, supersedes, i, now) ==
  [family |-> f, kind |-> kind, supersedes |-> supersedes,
   from |-> i.from, until |-> i.until, recorded |-> now]

\* _append of one row superseding row p (NotGiven: none), which it ignores.
Appended(h, f, kind, p, i, now) ==
  IF i \in Interval /\ Unambiguous(h, f, i, p)
  THEN Append(h, NewRow(f, kind, p, i, now))
  ELSE Refused

\* _split: replace row p over the window, keeping the rest as copies.
Split(h, p, window, kind, now) ==
  LET f == h[p].family
      pieces == Segments([from |-> h[p].from, until |-> h[p].until], Clipped(window, h[p]))
      row(i, k) == IF i.from < i.until THEN <<NewRow(f, k, p, i, now)>> ELSE << >>
      rows == row(pieces.left, h[p].kind) \o row(pieces.corrected, kind)
                \o row(pieces.right, h[p].kind)
  IN  IF /\ window \in Interval
         /\ pieces.corrected.from < pieces.corrected.until
         /\ \A k \in DOMAIN rows : Unambiguous(h, f, rows[k], p)
      THEN h \o rows
      ELSE Refused

\* The claims a deletion may act on: the only one, the one the window lies in
\* or the one the instant falls in; {} refuses, {NotGiven} means no claim at all.
DeletionTargets(h, f, from, until) ==
  LET claims == AcceptedClaims(h, f)
      window == [from |-> from, until |-> until]
      hit == IF from = NotGiven THEN claims
             ELSE IF until # NotGiven THEN {k \in claims : Overlaps(h[k], window)}
             ELSE {k \in claims : h[k].from <= from /\ from < h[k].until}
  IN  IF claims = {} THEN {NotGiven}
      ELSE IF Cardinality(hit) = 1
      THEN {k \in hit : from # NotGiven /\ until # NotGiven => Contains(h[k], window)}
      ELSE {}

\* An argument or, when it is left out, a default.
Given(argument, default) == IF argument = NotGiven THEN default ELSE argument

\* _delete_one.
Deleted(h, f, from, until, now) ==
  LET targets == DeletionTargets(h, f, from, until)
      p == CHOOSE k \in targets : TRUE
  IN  IF targets = {} THEN Refused
      ELSE IF p = NotGiven
      THEN Appended(h, f, "deletion", NotGiven,
                    [from |-> Given(from, now), until |-> Given(until, Open)], now)
      ELSE Split(h, p, [from |-> Given(from, h[p].from), until |-> Given(until, h[p].until)],
                 "deletion", now)

-----------------------------------------------------------------------------
(* Transactions. *)

Begin(w) ==
  /\ tx[w].pc = "none"
  /\ tx' = [tx EXCEPT ![w].pc = "begun", ![w].started = clock]
  /\ UNCHANGED <<assertions, clock, setting>>

\* Mutant of CheckPrior: ASSERTION_ALREADY_SUPERSEDED is never raised.
CheckExists(w, o, p) ==
  /\ tx[w].pc = "begun"
  /\ assertions[o][p].family \in ServiceFamilies
  /\ p \in DOMAIN assertions[o]
  /\ tx' = [tx EXCEPT ![w].pc = "checked", ![w].object = o, ![w].prior = p]
  /\ UNCHANGED <<assertions, clock, setting>>

\* _acceptable_prior, before the registry row is locked.
CheckPrior(w, o, p) ==
  /\ tx[w].pc = "begun"
  /\ assertions[o][p].family \in ServiceFamilies
  /\ p \in Accepted(assertions[o])
  /\ tx' = [tx EXCEPT ![w].pc = "checked", ![w].object = o, ![w].prior = p]
  /\ UNCHANGED <<assertions, clock, setting>>

\* Rollback: a refused argument, a clash, or the victim of a deadlock.
Abort(w) ==
  /\ tx[w].pc # "none"
  /\ tx' = [tx EXCEPT ![w] = NoTransaction]
  /\ UNCHANGED <<assertions, clock, setting>>

\* With the objects locked: the results are written and committed together.
Commit(w, os, result) ==
  /\ \A o \in os : result[o] # Refused /\ Len(result[o]) <= MaxRevisions
  /\ assertions' = [o \in Objects |-> IF o \in os THEN result[o] ELSE assertions[o]]
  /\ tx' = [tx EXCEPT ![w] = NoTransaction]
  /\ UNCHANGED <<clock, setting>>

CommitOne(w, o, result) == Commit(w, {o}, [x \in {o} |-> result])

CreateAssertion(w, o, f, kind, i) ==
  /\ tx[w].pc = "begun"
  /\ CommitOne(w, o, Appended(assertions[o], f, kind, NotGiven, i, tx[w].started))

\* supersede_assertion, and close_interval with kind "interval_boundary".
SupersedeAssertion(w, kind, from, until) ==
  LET t == tx[w]
      h == assertions[t.object]
      i == [from |-> Given(from, h[t.prior].from), until |-> Given(until, h[t.prior].until)]
  IN  /\ t.pc = "checked"
      /\ CommitOne(w, t.object, Appended(h, h[t.prior].family, kind, t.prior, i, t.started))

ReplaceInterval(w, window) ==
  LET t == tx[w]
  IN  /\ t.pc = "checked"
      /\ CommitOne(w, t.object,
                   Split(assertions[t.object], t.prior, window, "supersession", t.started))

RestoreDeletion(w) ==
  LET t == tx[w]
      h == assertions[t.object]
      i == [from |-> h[t.prior].from, until |-> h[t.prior].until]
  IN  /\ t.pc = "checked"
      /\ h[t.prior].kind = "deletion"
      /\ CommitOne(w, t.object,
                   Appended(h, h[t.prior].family, "restoration", t.prior, i, t.started))

\* soft_delete of all resolved targets, in one transaction.
SoftDelete(w, os, f, from, until) ==
  /\ tx[w].pc = "begun"
  /\ Commit(w, os, [o \in os |-> Deleted(assertions[o], f, from, until, tx[w].started)])

\* _append_source_state: under the lock, supersede the newest accepted state
\* by one in force from now on.  It does not call _guard_unambiguous.
AppendSourceState(w, o) ==
  LET h == assertions[o]
      now == tx[w].started
      states == AcceptedClaims(h, SourceFamily)
      newest == {k \in states : \A j \in states : j <= k}
      p == IF states = {} THEN NotGiven ELSE CHOOSE k \in newest : TRUE
      kind == IF states = {} THEN "payload" ELSE "supersession"
  IN  /\ tx[w].pc = "begun"
      /\ CommitOne(w, o, Append(h, NewRow(SourceFamily, kind, p,
                                          [from |-> now, until |-> Open], now)))

Tick == clock < MaxClock /\ clock' = clock + 1 /\ UNCHANGED <<assertions, tx, setting>>

Correct(w) ==
  \/ \E kind \in SupersedeKinds \cup {"interval_boundary"},
        from \in Times \cup {NotGiven}, until \in Times \cup {NotGiven, Open} :
       SupersedeAssertion(w, kind, from, until)
  \/ \E window \in Interval : ReplaceInterval(w, window)
  \/ RestoreDeletion(w)

\* The service's operations on the families it owns.
Operate(w) ==
  \/ \E o \in Objects, f \in ServiceFamilies, kind \in CreateKinds, i \in Interval :
       CreateAssertion(w, o, f, kind, i)
  \/ Correct(w)
  \/ \E os \in (SUBSET Objects) \ {{}}, f \in ServiceFamilies,
        from \in Times \cup {NotGiven}, until \in Times \cup {NotGiven, Open} :
       SoftDelete(w, os, f, from, until)

Next ==
  \/ Tick
  \/ \E w \in setting.callers :
       \/ Begin(w)
       \/ \E o \in Objects : \E p \in DOMAIN assertions[o] : CheckPrior(w, o, p)
       \/ Abort(w)
       \/ Operate(w)
       \/ \E o \in Objects : AppendSourceState(w, o)

Spec == Init /\ [][Next]_temporalVars

-----------------------------------------------------------------------------
(* As-of resolution: the survivors of select_visible_assertion. *)

\* _is_visible, at act_date `act` and known_at `known`.
IsVisible(row, act, known) ==
  row.recorded <= known /\ row.from <= act /\ act < row.until

\* Mutant of SupersededAsOf: a correction hides its prior from the next instant on.
SupersededBefore(h, known) ==
  {h[k].supersedes : k \in {j \in DOMAIN h : h[j].recorded < known}}

SupersededAsOf(h, known) ==
  {h[k].supersedes : k \in {j \in DOMAIN h : h[j].recorded <= known}}

\* The rows of an object that are left, of all families together; two are ambiguous.
Visible(h, act, known) ==
  {k \in DOMAIN h \ SupersededAsOf(h, known) : IsVisible(h[k], act, known)}

-----------------------------------------------------------------------------
(* Properties. *)

\* _guard_unambiguous is enough: the accepted assertions of an object and
\* family never overlap, although the assertion a correction supersedes was
\* checked before the lock was taken and is exempt from the guard.
AcceptedDisjoint ==
  \A o \in Objects : LET h == assertions[o] IN
    \A j, k \in Accepted(h) :
      j # k /\ h[j].family = h[k].family => ~Overlaps(h[j], h[k])

\* The rows a step appended to an object's history.
NewRows(o) == DOMAIN assertions'[o] \ DOMAIN assertions[o]

\* The rows a step appended to an object's history replace row p: they supersede it,
\* cover exactly its interval, each instant once, and one at most makes a new claim.
Replaces(o, p) ==
  LET h == assertions'[o]
  IN  /\ \A k \in NewRows(o) : h[k].supersedes = p
      /\ \A t \in Times :
           Cardinality({k \in NewRows(o) : h[k].from <= t /\ t < h[k].until})
             = IF h[p].from <= t /\ t < h[p].until THEN 1 ELSE 0
      /\ Cardinality({k \in NewRows(o) : h[k].kind # h[p].kind}) <= 1

\* temporal_assertions.py:31-33: "The three appended segments are non-overlapping and
\* together cover exactly the original interval", of a replacement and of a deletion
\* inside a claim.
SplitKeepsTheRest ==
  [][\A w \in setting.callers :
       /\ (\E window \in Interval : ReplaceInterval(w, window)) => Replaces(tx[w].object, tx[w].prior)
       /\ \A os \in SUBSET Objects, f \in ServiceFamilies,
             from \in Times \cup {NotGiven}, until \in Times \cup {NotGiven, Open} :
            SoftDelete(w, os, f, from, until) =>
              \A o \in os : \A p \in DeletionTargets(assertions[o], f, from, until) \ {NotGiven} :
                Replaces(o, p)]_temporalVars

\* A known time earlier than the clock and than the start of every open
\* transaction is settled: no commit changes what is visible as of it.
SettledTimesStable ==
  [][\A known \in 1 .. clock - 1 :
       (\A w \in Callers : tx[w].pc # "none" => known < tx[w].started)
       => \A o \in Objects, act \in Times :
            Visible(assertions'[o], act, known) = Visible(assertions[o], act, known)]_temporalVars

Serial == Cardinality(setting.callers) = 1

\* Two assertions of an object are visible together at any pair of times only if they
\* are of two families, or if the first was superseded between them by a transaction
\* that began later than the second one's, and committed before it: the known time lies
\* between the two starts. Callers in turn and reads at the present time meet no
\* ambiguity within a family.
AsOfUnambiguous ==
  \A o \in Objects, act \in Times, known \in KnownTimes : LET h == assertions[o] IN
    \A j, k \in Visible(h, act, known) : j < k /\ h[j].family = h[k].family =>
      /\ ~Serial
      /\ \E m \in j + 1 .. k - 1 : h[m].supersedes = j /\ known < h[m].recorded

\* temporal_assertions.py:738 "that assertion has already been superseded;
\* correct its successor instead": with one caller at a time, only an accepted
\* assertion is superseded. Two callers may both pass the check before the lock.
SupersedesAccepted ==
  [][Serial => \A o \in Objects : \A k \in NewRows(o) :
       assertions'[o][k].supersedes \in Accepted(assertions[o]) \cup {NotGiven}]_temporalVars

\* What as-of reads rely on.
AsOfInv == TypeOK /\ AsOfUnambiguous

\* What a correction may replace, and what it puts in its place.
CorrectionsAreExact == SupersedesAccepted /\ SplitKeepsTheRest

-----------------------------------------------------------------------------
(* Statements of the documentation that the code does not keep.             *)

\* The code's word: "for one logical object at most one TemporalAssertion version is
\* visible" (retrieval_commands.py:17). A source state and an assertion of another
\* family of one object are.
OneVersionVisible ==
  \A o \in Objects, act \in Times, known \in KnownTimes :
    Cardinality(Visible(assertions[o], act, known)) <= 1

\* The code's word: "accepted order and transaction-time order agree"
\* (temporal_assertions.py:34).
OrdersAgree ==
  \A o \in Objects : \A j, k \in DOMAIN assertions[o] :
    j < k => assertions[o][j].recorded <= assertions[o][k].recorded

=============================================================================
