----------------------- MODULE EntityLifecycleProofs -----------------------
(***************************************************************************)
(* Theorems of EntityLifecycle, for any rows, owners, foreign keys,        *)
(* callers and bounds.                                                     *)
(*                                                                         *)
(* A mark is right because its last pass of SELECTs finds nothing new: the *)
(* set it has collected is then closed under every edge that has stayed,   *)
(* and a statement per table writes the rows it leads to.  A hard delete   *)
(* goes on when none of the SELECTs of its check has found another row, so *)
(* every edge that was there from the first of them leads into the set it  *)
(* deletes.  It also removes rows it never collected, those that cascade:  *)
(* they came below its rows after the check had looked there, so nothing   *)
(* can have linked them before, and what hangs below them cascades too.    *)
(***************************************************************************)
EXTENDS EntityLifecycle, TLAPS

-----------------------------------------------------------------------------
(* The inductive invariant.                                                 *)

Closing == {"mark", "delete"}

\* What a row names by foreign keys.
Named(e) == FkParents[e] \cup Uses[e]

\* The row a call of one statement writes; what it creates names no other.
OneRow(t) ==
  t.op \notin Closing =>
    /\ t.next = None
    /\ \E x \in Entities : t.roots = {x} /\ (t.op = "create" => Named(x) = {})

\* Rows are locked by the transaction that wrote them, until it ends.
LocksInv ==
  \A c \in Callers :
    /\ call[c].pc # "write" => call[c].locks = {} /\ call[c].done = {}
    /\ call[c].locks \subseteq Rows
    /\ \A d \in Callers \ {c} : call[c].locks \cap call[d].locks = {}

\* The foreign keys hold, and a DELETE has taken along what cascades; of a
\* dictionary row nothing is left that uses it.
ForeignKeysInv ==
  /\ \A e \in Rows : Named(e) \subseteq Rows
  /\ \A c \in Callers : call[c].op = "delete" =>
       \A p \in call[c].locks : \A e \in Rows :
         p \in Named(e) => e \in call[c].locks

\* The edges a caller could find are there; of the rows they lead to, the
\* statement for their table has written those that were collected, and what it
\* has written was collected or cascades from what was.
WrittenOK(c) ==
  /\ since[c] \subseteq Edges
  /\ call[c].op \in Closing /\ call[c].pc = "write" =>
       /\ \A f \in since[c] :
            f[3] \in call[c].refs /\ Kind[f[3]] \in call[c].done => f[3] \in call[c].locks
       /\ \A x \in call[c].locks :
            x \in call[c].refs \/ FkParents[x] \cap call[c].refs # {}

\* The rows an edge leads to are collected, or its SELECT is still to come.
Collected(t, f) ==
  \/ f[3] \in t.refs
  \/ t.pc = "closure" /\ <<f[1], f[2]>> \in t.todo

\* What a mark has collected is closed under the edges below it, but for the
\* reads its pass still has to make, or for another pass.
ClosureOK(c) ==
  call[c].op = "mark" =>
    /\ call[c].roots \subseteq call[c].refs
    /\ call[c].pc = "closure" \/ ~call[c].changed
    /\ call[c].pc # "check"
    /\ call[c].pc # "idle" /\ ~call[c].changed =>
         \A f \in since[c] :
           f[1] \in call[c].refs /\ f[2] \in ToSet(Followed[Kind[f[1]]])
             => Collected(call[c], f)

\* What a hard delete checks: every row that names one of its rows is one of them,
\* or its SELECT is still to come, or the call is going to be refused.  A linked
\* chunk that hangs below its rows is among the rows the check should find.
CheckedOK(c) ==
  call[c].op = "delete" /\ call[c].pc \in {"check", "write"} =>
    \A f \in since[c] :
      /\ f[1] \in call[c].refs /\ f[2] \in Checked[Kind[f[1]]] =>
           \/ f[3] \in call[c].refs
           \/ call[c].pc = "check" /\ (call[c].changed \/ <<f[1], f[2]>> \in call[c].todo)
      /\ f[2] = "link" /\ f[1] \in Rows =>
           \A p \in FkParents[f[1]] \cap call[c].refs : <<p, Kind[f[1]], f[1]>> \in since[c]

CallOK(c) == OneRow(call[c]) /\ WrittenOK(c) /\ ClosureOK(c) /\ CheckedOK(c)

CallsInv == \A c \in Callers : CallOK(c)

IInv == TypeOK /\ LocksInv /\ ForeignKeysInv /\ CallsInv

-----------------------------------------------------------------------------
(* Relations, edges and the rows that name a row.                           *)

\* What _closure reads of a row, and what references_to checks.
LEMMA RelationsOfKinds ==
  ASSUME NEW k \in ToSet(Tables)
  PROVE  /\ ToSet(Followed[k]) \subseteq Relations
         /\ Checked[k] \subseteq Relations
         /\ ToSet(Followed[k]) \subseteq Checked[k]
         /\ k \in {"chapters", "paragraphs"} => Checked[k] \subseteq ForeignKeys
         /\ k = "semantic_chunks" => Checked[k] = {"link"}
<1>1. /\ ToSet(<<>>) = {}
      /\ ToSet(<<"owner">>) = {"owner"}
      /\ ToSet(<<"owner", "member">>) = {"owner", "member"}
      /\ ToSet(<<"owner", "chapters", "paragraphs", "semantic_chunks">>)
           = {"owner", "chapters", "paragraphs", "semantic_chunks"}
      /\ ToSet(<<"paragraphs", "semantic_chunks">>) = {"paragraphs", "semantic_chunks"}
      /\ ToSet(<<"semantic_chunks">>) = {"semantic_chunks"}
      /\ Relations = {"owner", "member", "chapters", "paragraphs", "semantic_chunks",
                      "link", "use"}
  BY DEF ToSet, Relations, Selects
<1>2. /\ k = "projects" => Followed[k] = <<"owner", "member">>
      /\ k = "files" => Followed[k] = <<"owner">>
      /\ k = "documents" => Followed[k] = <<"owner", "chapters", "paragraphs", "semantic_chunks">>
      /\ k = "chapters" => Followed[k] = <<"paragraphs", "semantic_chunks">>
      /\ k = "paragraphs" => Followed[k] = <<"semantic_chunks">>
      /\ k \notin {"projects", "files", "documents", "chapters", "paragraphs"} => Followed[k] = <<>>
  BY DEF Followed
<1>3. Checked[k] = ToSet(Followed[k]) \cup CASE k = "semantic_chunks" -> {"link"}
                                            [] k = "dictionaries" -> {"use"}
                                            [] OTHER -> {}
  BY DEF Checked
<1>4. /\ k = "semantic_chunks" => Checked[k] = ToSet(Followed[k]) \cup {"link"}
      /\ k = "dictionaries" => Checked[k] = ToSet(Followed[k]) \cup {"use"}
      /\ k \notin {"semantic_chunks", "dictionaries"} => Checked[k] = ToSet(Followed[k])
  BY <1>3
<1> QED BY <1>1, <1>2, <1>4 DEF ForeignKeys

\* The table of a row is one that both read for what the row names.
LEMMA KindsRead ==
  ASSUME NEW e \in Entities, NEW x \in FkParents[e]
  PROVE  /\ x \in Entities
         /\ Kind[e] \in {"chapters", "paragraphs", "semantic_chunks"}
         /\ Kind[e] \in ToSet(Followed[Kind[x]])
         /\ Kind[e] \in Checked[Kind[x]]
BY LifecycleAssumption, RelationsOfKinds

LEMMA RelationsAre ==
  Relations = {"owner", "member", "chapters", "paragraphs", "semantic_chunks", "link", "use"}
BY DEF Relations, Selects, ToSet

\* Rows that name a row are rows.
LEMMA NamingRows ==
  ASSUME TypeOK, NEW x, NEW r \in Relations
  PROVE  Naming(x, r) \subseteq Rows
BY RelationsAre DEF TypeOK, Naming, Rows

RowsTyped ==
  /\ row \in [Entities -> {"absent", "live", "deleted"}]
  /\ owner \in [Entities -> Entities \cup {None}]
  /\ member \in [Entities -> Entities \cup {None}]
  /\ links \in SUBSET (Rows \X Entities)

\* An edge is typed, and its row is read by the SELECT for it.
LEMMA EdgeRows ==
  ASSUME RowsTyped, NEW f \in Edges
  PROVE  /\ f \in Entities \X Relations \X Entities
         /\ f[3] \in Rows
         /\ f[3] \in Naming(f[1], f[2])
         /\ f[2] = "link" => <<f[3], f[1]>> \in links
         /\ f[2] \in ForeignKeys => f[1] \in Named(f[3])
<1> USE RelationsAre DEF ForeignKeys, Named
<1>1. CASE \E e \in Rows : owner[e] # None /\ f = <<owner[e], "owner", e>>
  BY <1>1 DEF RowsTyped, Naming, Rows
<1>2. CASE \E e \in Rows : member[e] \in Rows /\ f = <<member[e], "member", e>>
  BY <1>2 DEF RowsTyped, Naming, Rows
<1>3. CASE \E e \in Rows : \E x \in FkParents[e] : f = <<x, Kind[e], e>>
  <2>1. PICK e \in Rows : \E x \in FkParents[e] : f = <<x, Kind[e], e>>
    BY <1>3
  <2>2. PICK x \in FkParents[e] : f = <<x, Kind[e], e>>
    BY <2>1
  <2>3. e \in Entities /\ x \in Entities /\ Kind[e] \in {"chapters", "paragraphs", "semantic_chunks"}
    BY KindsRead DEF Rows
  <2>4. e \in Naming(x, Kind[e])
    BY <2>3 DEF Naming
  <2> QED BY <2>2, <2>3, <2>4
<1>5. CASE \E e \in Rows : \E x \in Uses[e] : f = <<x, "use", e>>
  BY <1>5, LifecycleAssumption DEF Naming, Rows
<1>4. CASE \E l \in links : f = <<l[2], "link", l[1]>>
  <2>1. PICK l \in links : f = <<l[2], "link", l[1]>>
    BY <1>4
  <2>2. l \in Rows \X Entities /\ Rows \subseteq Entities
    BY DEF RowsTyped, Rows
  <2>3. l = <<l[1], l[2]>> /\ l[1] \in Rows /\ l[2] \in Entities
    BY <2>2
  <2>4. f[1] = l[2] /\ f[2] = "link" /\ f[3] = l[1]
    BY <2>1
  <2>5. l[1] \in Naming(l[2], "link")
    BY DEF Naming
  <2>6. f \in Entities \X Relations \X Entities
    BY <2>1, <2>2, <2>3
  <2>7. <<f[3], f[1]>> \in links
    BY <2>3, <2>4
  <2>8. f[3] \in Naming(f[1], f[2]) /\ f[3] \in Rows
    BY <2>3, <2>4, <2>5
  <2> QED BY <2>4, <2>6, <2>7, <2>8
<1> QED BY <1>1, <1>2, <1>3, <1>4, <1>5 DEF Edges

\* The edges, for the state after a step too.
LEMMA EdgesTyped == RowsTyped => Edges \subseteq Entities \X Relations \X Entities
BY EdgeRows

-----------------------------------------------------------------------------
(* The steps of a call.                                                     *)

\* A pass that has found a row is followed by another one.
Again(t, found) == t.changed \/ ~(found \subseteq t.refs)

\* The transaction that goes on after its closure.
LEMMA ClosureEnds ==
  ASSUME NEW t \in Call
  PROVE  /\ AfterClosure(t) \in Call
         /\ AfterClosure(t).op = t.op /\ AfterClosure(t).roots = t.roots
         /\ AfterClosure(t).refs = t.refs /\ AfterClosure(t).next = t.next
         /\ AfterClosure(t).locks = t.locks /\ AfterClosure(t).done = t.done
         /\ ~AfterClosure(t).changed
         /\ AfterClosure(t).pc = IF t.op = "delete" THEN "check" ELSE "write"
         /\ AfterClosure(t).todo = IF t.op = "delete" THEN Checks(t.refs) ELSE {}
BY DEF AfterClosure, Call, Checks

\* What one SELECT of _closure leaves: its pass goes on, ends, or another begins.
ReadLeaves(t, p, found, u) ==
  /\ u.op = t.op /\ u.roots = t.roots /\ u.refs = t.refs \cup found
  /\ u.locks = t.locks /\ u.done = t.done /\ u.next = t.next
  /\ u.changed => Again(t, found) /\ t.todo # {p}
  /\ Again(t, found) /\ t.todo # {p} => u.changed
  /\ u.pc = IF t.todo = {p} /\ ~Again(t, found)
            THEN IF t.op = "delete" THEN "check" ELSE "write"
            ELSE "closure"
  /\ u.todo = IF t.todo # {p} THEN t.todo \ {p}
              ELSE IF Again(t, found) THEN PassOver(u.refs)
              ELSE IF t.op = "delete" THEN Checks(u.refs) ELSE {}

\* ReadChildren in these terms.
LEMMA ReadShape ==
  ASSUME TypeOK, NEW c \in Callers, ReadChildren(c)
  PROVE  /\ call[c].pc = "closure"
         /\ UNCHANGED <<rows, calls, edits>>
         /\ \E p \in call[c].todo, u \in Call :
              /\ call' = [call EXCEPT ![c] = u]
              /\ ReadLeaves(call[c], p, Naming(p[1], p[2]), u)
<1> DEFINE t == call[c]
<1>0. t \in Call /\ t.pc = "closure" /\ UNCHANGED <<rows, calls, edits>>
  BY DEF TypeOK, ReadChildren, ReadChildrenIf
<1>p. PICK p \in t.todo :
        LET found == Naming(p[1], p[2])
            w     == [t EXCEPT !.refs = t.refs \cup found]
        IN  call' = [call EXCEPT ![c] =
              IF t.todo # {p} THEN [w EXCEPT !.todo = t.todo \ {p}, !.changed = Again(t, found)]
              ELSE IF Again(t, found) THEN [w EXCEPT !.todo = PassOver(w.refs), !.changed = FALSE]
              ELSE AfterClosure(w)]
  BY DEF ReadChildren, ReadChildrenIf, NextReads, Again
<1> DEFINE found == Naming(p[1], p[2])
           w == [t EXCEPT !.refs = t.refs \cup found]
           v == [w EXCEPT !.todo = t.todo \ {p}, !.changed = Again(t, found)]
           x == [w EXCEPT !.todo = PassOver(w.refs), !.changed = FALSE]
<1>f. found \subseteq Entities
  BY <1>0, NamingRows DEF Call, Reads, Rows
<1>2. call' = [call EXCEPT ![c] = IF t.todo # {p} THEN v ELSE IF Again(t, found) THEN x
                                  ELSE AfterClosure(w)]
  BY <1>p
<1> SUFFICES \E u \in Call : call' = [call EXCEPT ![c] = u] /\ ReadLeaves(t, p, found, u)
  BY <1>0
<1> HIDE DEF t, found
<1>1. /\ w \in Call /\ w.op = t.op /\ w.roots = t.roots /\ w.refs = t.refs \cup found
      /\ w.locks = t.locks /\ w.done = t.done /\ w.next = t.next /\ w.pc = "closure"
  BY <1>0, <1>f DEF Call
<1> HIDE DEF w
<1>3. t.todo \subseteq Reads /\ PassOver(w.refs) \subseteq Reads
  BY <1>0 DEF Call, PassOver
<1>4. /\ v \in Call /\ v.op = w.op /\ v.roots = w.roots /\ v.refs = w.refs
      /\ v.locks = w.locks /\ v.done = w.done /\ v.next = w.next /\ v.pc = w.pc
      /\ v.todo = t.todo \ {p}
      /\ v.changed => Again(t, found)
      /\ Again(t, found) => v.changed
  BY <1>1, <1>3 DEF Call, Again
<1>5. /\ x \in Call /\ x.op = w.op /\ x.roots = w.roots /\ x.refs = w.refs
      /\ x.locks = w.locks /\ x.done = w.done /\ x.next = w.next /\ x.pc = w.pc
      /\ x.todo = PassOver(w.refs) /\ ~x.changed
  BY <1>1, <1>3 DEF Call
<1> HIDE DEF v, x
<1>6. CASE t.todo # {p}
  BY <1>1, <1>2, <1>4, <1>6 DEF ReadLeaves
<1>7. CASE t.todo = {p} /\ Again(t, found)
  BY <1>1, <1>2, <1>5, <1>7 DEF ReadLeaves
<1>8. CASE t.todo = {p} /\ ~Again(t, found)
  <2> DEFINE z == AfterClosure(w)
  <2>1. /\ z \in Call /\ z.op = w.op /\ z.roots = w.roots /\ z.refs = w.refs
        /\ z.next = w.next /\ z.locks = w.locks /\ z.done = w.done /\ ~z.changed
        /\ z.pc = IF w.op = "delete" THEN "check" ELSE "write"
        /\ z.todo = IF w.op = "delete" THEN Checks(w.refs) ELSE {}
    BY <1>1, ClosureEnds
  <2>2. call' = [call EXCEPT ![c] = z]
    BY <1>2, <1>8
  <2> HIDE DEF z
  <2> QED BY <1>1, <1>8, <2>1, <2>2 DEF ReadLeaves
<1> QED BY <1>6, <1>7, <1>8

\* A read of references_to: the next one follows, the call is refused, or it goes on.
LEMMA CheckShape ==
  ASSUME TypeOK, NEW c \in Callers, CheckReferences(c)
  PROVE  /\ call[c].pc = "check" /\ UNCHANGED <<rows, calls, edits>>
         /\ \/ call' = [call EXCEPT ![c] = Idle]
            \/ \E p \in call[c].todo, u \in Call :
                 /\ call' = [call EXCEPT ![c] = u]
                 /\ u.op = call[c].op /\ u.roots = call[c].roots /\ u.refs = call[c].refs
                 /\ u.locks = call[c].locks /\ u.done = call[c].done /\ u.next = call[c].next
                 /\ u.todo = call[c].todo \ {p}
                 /\ u.pc = IF u.todo = {} THEN "write" ELSE "check"
                 /\ u.pc = "write" => ~call[c].changed /\ ~u.changed
                 /\ ~u.changed => ~call[c].changed /\ Naming(p[1], p[2]) \subseteq call[c].refs
<1> DEFINE t == call[c]
<1>1. t \in Call /\ t.pc = "check" /\ UNCHANGED <<rows, calls, edits>>
  BY DEF TypeOK, CheckReferences
<1>2. PICK p \in t.todo, blocked \in BOOLEAN :
        /\ blocked = (t.changed \/ ~(Naming(p[1], p[2]) \subseteq t.refs))
        /\ call' = [call EXCEPT ![c] =
             IF t.todo # {p} THEN [t EXCEPT !.todo = t.todo \ {p}, !.changed = blocked]
             ELSE IF blocked THEN Idle
             ELSE [t EXCEPT !.todo = {}, !.pc = "write"]]
  BY DEF CheckReferences, NextReads
<1> HIDE DEF t
<1>3. CASE t.todo # {p}
  <2> DEFINE u == [t EXCEPT !.todo = t.todo \ {p}, !.changed = blocked]
  <2>1. /\ u \in Call /\ u.op = t.op /\ u.roots = t.roots /\ u.refs = t.refs
        /\ u.locks = t.locks /\ u.done = t.done /\ u.next = t.next
        /\ u.todo = t.todo \ {p} /\ u.pc = "check" /\ u.changed = blocked
    BY <1>1 DEF Call
  <2>2. call' = [call EXCEPT ![c] = u] /\ t.todo \ {p} # {}
    BY <1>2, <1>3
  <2> HIDE DEF u
  <2> QED BY <1>1, <1>2, <2>1, <2>2 DEF t
<1>4. CASE t.todo = {p} /\ ~blocked
  <2> DEFINE u == [t EXCEPT !.todo = {}, !.pc = "write"]
  <2>1. /\ u \in Call /\ u.op = t.op /\ u.roots = t.roots /\ u.refs = t.refs
        /\ u.locks = t.locks /\ u.done = t.done /\ u.next = t.next
        /\ u.todo = {} /\ u.pc = "write" /\ u.changed = t.changed
    BY <1>1 DEF Call
  <2>2. call' = [call EXCEPT ![c] = u] /\ t.todo \ {p} = {}
    BY <1>2, <1>4
  <2> HIDE DEF u
  <2> QED BY <1>1, <1>2, <1>4, <2>1, <2>2 DEF t
<1>5. CASE t.todo = {p} /\ blocked
  BY <1>1, <1>2, <1>5 DEF t
<1> QED BY <1>2, <1>3, <1>4, <1>5

-----------------------------------------------------------------------------
(* Types.                                                                   *)

\* The locals of a caller that asks for nothing.
LEMMA IdleTyped == Idle \in Call
BY DEF Idle, Call, Operations

\* The locals of a new call.
LEMMA ClosureTyped ==
  ASSUME NEW op \in Closing, NEW roots \in SUBSET Entities, NEW flag \in {"live", "deleted"}
  PROVE  /\ StartClosure(op, roots, flag) \in Call
         /\ StartClosure(op, roots, flag).op = op
         /\ StartClosure(op, roots, flag).pc # "idle"
         /\ StartClosure(op, roots, flag).pc = "write" => op = "mark"
         /\ StartClosure(op, roots, flag).roots = roots
         /\ StartClosure(op, roots, flag).refs = roots
         /\ ~StartClosure(op, roots, flag).changed
         /\ StartClosure(op, roots, flag).done = {} /\ StartClosure(op, roots, flag).locks = {}
         /\ StartClosure(op, roots, flag).pc = "closure" =>
              StartClosure(op, roots, flag).todo = PassOver(roots)
         /\ StartClosure(op, roots, flag).pc = "write" => PassOver(roots) = {}
         /\ StartClosure(op, roots, flag).pc = "check" =>
              StartClosure(op, roots, flag).todo = Checks(roots)
<1> DEFINE t == [Idle EXCEPT !.op = op, !.flag = flag, !.roots = roots, !.refs = roots]
           u == [t EXCEPT !.pc = "closure", !.todo = PassOver(roots)]
<1>1. /\ t \in Call /\ t.op = op /\ t.roots = roots /\ t.refs = roots /\ ~t.changed
      /\ t.done = {} /\ t.locks = {}
  BY IdleTyped DEF Idle, Call, Operations, Closing
<1>2. StartClosure(op, roots, flag) = IF PassOver(roots) = {} THEN AfterClosure(t) ELSE u
  BY DEF StartClosure
<1> HIDE DEF t
<1>3. PassOver(roots) \subseteq Reads
  BY DEF PassOver
<1>4. /\ u \in Call /\ u.op = op /\ u.roots = roots /\ u.refs = roots /\ ~u.changed
      /\ u.done = {} /\ u.locks = {} /\ u.pc = "closure" /\ u.todo = PassOver(roots)
  BY <1>1, <1>3 DEF Call
<1> HIDE DEF u
<1>5. CASE PassOver(roots) = {}
  <2>1. op = "delete" \/ op = "mark"
    BY DEF Closing
  <2> QED BY <1>1, <1>2, <1>5, <2>1, ClosureEnds
<1>6. CASE PassOver(roots) # {}
  BY <1>2, <1>4, <1>6
<1> QED BY <1>5, <1>6

\* What the program starts from is typed.
LEMMA TypeInit == Init => TypeOK
<1> SUFFICES ASSUME Init PROVE TypeOK
  OBVIOUS
<1>1. PICK start \in Starts :
        /\ row = [e \in Entities |-> IF e \in start THEN "live" ELSE "absent"]
        /\ owner = [e \in Entities |-> IF e \in start THEN InitOwner[e] ELSE None]
  BY DEF Init
<1> QED BY <1>1, IdleTyped, LifecycleAssumption DEF Init, TypeOK

\* Steps that change nothing but the locals of a call.
LEMMA LocalTyped ==
  ASSUME TypeOK, UNCHANGED <<rows, edits>>, NEW c \in Callers, NEW t \in Call,
         call' = [call EXCEPT ![c] = t],
         calls' = calls \/ (calls[c] < MaxCalls /\ calls' = [calls EXCEPT ![c] = @ + 1])
  PROVE  /\ row' = row /\ Rows' = Rows /\ Edges' = Edges
         /\ call' \in [Callers -> Call]
         /\ calls' \in [Callers -> 0 .. MaxCalls]
BY LifecycleAssumption DEF TypeOK, rows, Rows, Edges

\* A new call has typed locals, and its row or rows are named.
LEMMA NewCallShape ==
  ASSUME TypeOK, NEW c \in Callers, NewCall(c)
  PROVE  /\ call[c].pc = "idle" /\ UNCHANGED <<rows, edits>>
         /\ calls[c] < MaxCalls /\ calls' = [calls EXCEPT ![c] = @ + 1]
         /\ \E t \in Call :
              /\ call' = [call EXCEPT ![c] = t]
              /\ \/ \E op \in Closing, flag \in {"live", "deleted"}, roots \in SUBSET Entities :
                      t = StartClosure(op, roots, flag)
                 \/ /\ t.op \notin Closing /\ t.pc = "write" /\ OneRow(t)
                    /\ t.locks = {} /\ t.next = None
<1> USE DEF Begin
<1>1. Targets["mark"] \subseteq Entities /\ Targets["flag"] \subseteq Entities
      /\ Targets["delete"] \subseteq Entities /\ Targets["rebind"] \subseteq Entities
      /\ Targets["create"] \subseteq Entities
      /\ NewOwners \subseteq Entities \cup {None}
  BY LifecycleAssumption DEF Operations
<1>2. ASSUME NEW flag \in {"live", "deleted"}, NEW x \in Targets["mark"], MarkDeleted(c, x, flag)
      PROVE  /\ call' = [call EXCEPT ![c] = StartClosure("mark", RootsFor(x), flag)]
             /\ RootsFor(x) \in SUBSET Entities
  BY <1>1, <1>2 DEF MarkDeleted, RootsFor
<1>3. ASSUME NEW x \in Targets["delete"], HardDelete(c, x)
      PROVE  /\ call' = [call EXCEPT ![c] = StartClosure("delete", RootsFor(x), "deleted")]
             /\ RootsFor(x) \in SUBSET Entities
  BY <1>1, <1>3 DEF HardDelete, RootsFor
<1>4. ASSUME NEW flag \in {"live", "deleted"}, NEW x \in Targets["flag"], UpdateFlag(c, x, flag)
      PROVE  \E t \in Call : call' = [call EXCEPT ![c] = t] /\ t.op \notin Closing
                             /\ t.pc = "write" /\ OneRow(t) /\ t.locks = {} /\ t.next = None
  <2> DEFINE t == [Idle EXCEPT !.op = "flag", !.pc = "write", !.roots = {x}, !.flag = flag]
  <2>1. t \in Call
    BY <1>1, IdleTyped DEF Call, Operations
  <2> QED BY <1>1, <1>4, <2>1 DEF UpdateFlag, Idle, OneRow, Closing
<1>5. ASSUME NEW o \in NewOwners, NEW x \in Targets["rebind"], RebindOwner(c, x, o)
      PROVE  \E t \in Call : call' = [call EXCEPT ![c] = t] /\ t.op \notin Closing
                             /\ t.pc = "write" /\ OneRow(t) /\ t.locks = {} /\ t.next = None
  <2> DEFINE t == [Idle EXCEPT !.op = "rebind", !.pc = "write", !.roots = {x}, !.owner = o]
  <2>1. t \in Call
    BY <1>1, IdleTyped DEF Call, Operations
  <2> QED BY <1>1, <1>5, <2>1 DEF RebindOwner, Idle, OneRow, Closing
<1>6. ASSUME NEW o \in NewOwners, NEW x \in Targets["create"], CreateEntity(c, x, o)
      PROVE  \E t \in Call : call' = [call EXCEPT ![c] = t] /\ t.op \notin Closing
                             /\ t.pc = "write" /\ OneRow(t) /\ t.locks = {} /\ t.next = None
  <2> DEFINE t == [Idle EXCEPT !.op = "create", !.pc = "write", !.roots = {x}, !.owner = o]
  <2>1. t \in Call
    BY <1>1, IdleTyped DEF Call, Operations
  <2>2. Named(x) = {}
    <3> SUFFICES ASSUME NEW p \in Named(x) PROVE FALSE
      OBVIOUS
    <3> USE DEF Named
    <3> Kind[x] \in {"chapters", "paragraphs", "semantic_chunks"}
      BY <1>1, LifecycleAssumption
    <3> QED BY <1>6 DEF CreateEntity
  <2> QED BY <1>1, <1>6, <2>1, <2>2 DEF CreateEntity, Idle, OneRow, Closing
<1>7. call[c].pc = "idle" /\ UNCHANGED <<rows, edits>>
      /\ calls[c] < MaxCalls /\ calls' = [calls EXCEPT ![c] = @ + 1]
  BY DEF NewCall, MarkDeleted, HardDelete, UpdateFlag, RebindOwner, CreateEntity
<1>8. CASE \E flag \in {"live", "deleted"} : \E x \in Targets["mark"] : MarkDeleted(c, x, flag)
  BY <1>2, <1>7, <1>8, ClosureTyped DEF Closing
<1>9. CASE \E x \in Targets["delete"] : HardDelete(c, x)
  BY <1>3, <1>7, <1>9, ClosureTyped DEF Closing
<1> QED BY <1>4, <1>5, <1>6, <1>7, <1>8, <1>9 DEF NewCall

\* A statement writes rows that are there.
LEMMA WrittenRows ==
  ASSUME NEW c, NEW k
  PROVE  Written(c, k) \subseteq Rows
BY DEF Written

\* The locals a step of a call leaves are typed.
LEMMA LocalsTyped ==
  ASSUME TypeOK, NEW c \in Callers, Step(c)
  PROVE  \E t \in Call : call' = [call EXCEPT ![c] = t]
<1>0. call[c] \in Call
  BY DEF TypeOK
<1>1. CASE ReadChildren(c)
  BY <1>1, ReadShape
<1>2. CASE CheckReferences(c)
  BY <1>2, CheckShape, IdleTyped
<1>3. CASE ChooseTable(c)
  <2>1. \A k \in Candidates(call[c]) : k \in ToSet(Tables) \cup {LinkTable}
    BY <1>0, LifecycleAssumption DEF Candidates, Call
  <2> QED BY <1>0, <1>3, <2>1 DEF ChooseTable, Call
<1>4. CASE WriteTable(c)
  <2>1. Written(c, call[c].next) \subseteq Entities
    BY WrittenRows DEF Rows
  <2>2. call[c].next \in ToSet(Tables) \cup {LinkTable}
    BY <1>0, <1>4 DEF WriteTable, Call
  <2>3. Cut(c, call[c].next) \subseteq Entities \X Entities
    BY DEF Cut, TypeOK, Rows
  <2> QED BY <1>0, <1>4, <2>1, <2>2, <2>3, IdleTyped DEF WriteTable, Call
<1>5. CASE Commit(c) \/ AbortDeadlocked(c) \/ WriteRow(c)
  BY <1>5, IdleTyped DEF Commit, AbortDeadlocked, WriteRow
<1> QED BY <1>1, <1>2, <1>3, <1>4, <1>5 DEF Step

\* What a transaction deletes when it commits.
Gone(t) == IF t.op = "delete" THEN t.locks ELSE {}

\* A COMMIT, row by row.
LEMMA CommitRows ==
  ASSUME TypeOK, NEW c \in Callers, Commit(c)
  PROVE  /\ AllWritten(call[c])
         /\ row' = [e \in Entities |-> IF e \in Gone(call[c]) THEN "absent"
                                       ELSE IF e \in call[c].locks THEN call[c].flag ELSE row[e]]
         /\ row' \in [Entities -> {"absent", "live", "deleted"}]
         /\ Rows' = (Rows \cup call[c].locks) \ Gone(call[c])
         /\ owner' = [e \in Entities |-> IF e \in Gone(call[c]) THEN None ELSE owner[e]]
         /\ member' = [e \in Entities |-> IF e \in Gone(call[c]) THEN None ELSE member[e]]
         /\ links' = LinksAfter(call[c], Gone(call[c]))
         /\ call' = [call EXCEPT ![c] = Idle]
<1>0. call[c] \in Call
  BY DEF TypeOK
<1>1. /\ row' = [e \in Entities |-> IF e \in Gone(call[c]) THEN "absent"
                                       ELSE IF e \in call[c].locks THEN call[c].flag ELSE row[e]]
      /\ owner' = [e \in Entities |-> IF e \in Gone(call[c]) THEN None ELSE owner[e]]
      /\ member' = [e \in Entities |-> IF e \in Gone(call[c]) THEN None ELSE member[e]]
      /\ links' = LinksAfter(call[c], Gone(call[c]))
      /\ call' = [call EXCEPT ![c] = Idle] /\ AllWritten(call[c])
  BY DEF Commit, Gone
<1>2. row' \in [Entities -> {"absent", "live", "deleted"}]
  BY <1>0, <1>1 DEF TypeOK, Call
<1>3. Rows' = (Rows \cup call[c].locks) \ Gone(call[c])
  <2>1. call[c].flag # "absent" /\ call[c].locks \subseteq Entities
    BY <1>0 DEF Call
  <2>2. \A e \in Entities : row'[e] # "absent" <=> e \in (Rows \cup call[c].locks) \ Gone(call[c])
    BY <1>1, <2>1 DEF Rows
  <2> QED BY <2>1, <2>2 DEF Rows
<1> QED BY <1>1, <1>2, <1>3

\* The single statement of the other calls.
LEMMA WriteRowRows ==
  ASSUME TypeOK, NEW c \in Callers, OneRow(call[c]), WriteRow(c)
  PROVE  /\ row' \in [Entities -> {"absent", "live", "deleted"}]
         /\ owner' \in [Entities -> Entities \cup {None}]
         /\ \/ Rows' = Rows
            \/ \E x \in Entities : Rows' = Rows \cup {x} /\ Named(x) = {}
         /\ member' = member /\ links' = links
         /\ call[c].pc = "write" /\ call[c].op \notin Closing
         /\ call' = [call EXCEPT ![c] = Idle]
<1>1. call[c].op \notin Closing /\ call[c].flag \in {"live", "deleted"}
      /\ call[c].owner \in Entities \cup {None} /\ call[c].pc = "write"
  BY DEF WriteRow, Closing, TypeOK, Call
<1>2. PICK x \in Entities : /\ call[c].roots = {x}
                            /\ call[c].op = "create" => Named(x) = {}
  BY <1>1 DEF OneRow
<1>3. (CHOOSE e \in call[c].roots : TRUE) = x
  BY <1>2
<1>4. \/ call[c].op = "rebind" /\ owner' = [owner EXCEPT ![x] = call[c].owner] /\ row' = row
      \/ call[c].op = "flag" /\ x \in Rows /\ row' = [row EXCEPT ![x] = call[c].flag] /\ owner' = owner
      \/ call[c].op = "create" /\ row' = [row EXCEPT ![x] = "live"]
           /\ owner' = [owner EXCEPT ![x] = call[c].owner]
      \/ row' = row /\ owner' = owner
  BY <1>3 DEF WriteRow
<1>5. member' = member /\ links' = links /\ call' = [call EXCEPT ![c] = Idle]
  BY DEF WriteRow
<1>6. /\ row' \in [Entities -> {"absent", "live", "deleted"}]
      /\ owner' \in [Entities -> Entities \cup {None}]
      /\ \/ Rows' = Rows
         \/ Rows' = Rows \cup {x} /\ call[c].op = "create"
  BY <1>1, <1>4 DEF TypeOK, Rows
<1> QED BY <1>1, <1>2, <1>5, <1>6

\* What others write: rows are added, never removed, none below a locked row.
LEMMA OthersRows ==
  ASSUME TypeOK, Others
  PROVE  /\ row' \in [Entities -> {"absent", "live", "deleted"}]
         /\ owner' = owner
         /\ member' \in [Entities -> Entities \cup {None}]
         /\ links' \in SUBSET (Rows \X Entities)
         /\ edits < MaxEdits /\ edits' = edits + 1 /\ call' = call /\ calls' = calls
         /\ \/ Rows' = Rows
            \/ \E x \in Entities \ Rows :
                 /\ Rows' = Rows \cup {x} /\ Named(x) \subseteq Rows
                 /\ \A d \in Callers : call[d].op = "delete" =>
                      call[d].locks \cap Named(x) = {}
                 /\ links' = links /\ \A l \in links : l[2] # x
<1>1. PICK x \in Entities, y \in Entities : PublishRow(x) \/ JoinProject(x, y) \/ LinkChunks(x, y)
  BY DEF Others
<1>2. CASE PublishRow(x)
  BY <1>2 DEF PublishRow, Edit, TypeOK, Rows, Named
<1>3. CASE JoinProject(x, y)
  BY <1>3 DEF JoinProject, Edit, TypeOK, Rows
<1>4. CASE LinkChunks(x, y)
  BY <1>4 DEF LinkChunks, Edit, TypeOK, Rows
<1> QED BY <1>1, <1>2, <1>3, <1>4

\* Steps of a call that leave every row as it is.
Quietly(c) ==
  ReadChildren(c) \/ CheckReferences(c) \/ ChooseTable(c) \/ WriteTable(c) \/ AbortDeadlocked(c)

\* Every step leaves the rows and the locals typed.
LEMMA TypeStep ==
  ASSUME TypeOK, CallsInv, [Next]_vars
  PROVE  TypeOK'
<1>1. CASE UNCHANGED vars
  BY <1>1 DEF vars, rows, TypeOK, Rows
<1>2. CASE Next
  <2> DEFINE T == /\ row' \in [Entities -> {"absent", "live", "deleted"}]
                  /\ owner' \in [Entities -> Entities \cup {None}]
                  /\ member' \in [Entities -> Entities \cup {None}]
                  /\ links' \in SUBSET (Rows' \X Entities)
                  /\ call' \in [Callers -> Call]
                  /\ calls' \in [Callers -> 0 .. MaxCalls]
                  /\ edits' \in 0 .. MaxEdits
  <2>1. ASSUME NEW c \in Callers, Quietly(c) \/ NewCall(c)
        PROVE  T
    <3>1. CASE Quietly(c)
      <4>1. PICK t \in Call : call' = [call EXCEPT ![c] = t]
        BY <3>1, LocalsTyped DEF Quietly, Step
      <4>2. UNCHANGED <<rows, calls, edits>>
        BY <3>1, ReadShape, CheckShape
           DEF Quietly, ChooseTable, WriteTable, AbortDeadlocked
      <4> QED BY <4>1, <4>2 DEF TypeOK, rows, Rows
    <3>2. CASE NewCall(c)
      <4>1. PICK t \in Call : call' = [call EXCEPT ![c] = t]
        BY <3>2, NewCallShape
      <4>2. /\ UNCHANGED <<rows, edits>>
            /\ calls[c] < MaxCalls /\ calls' = [calls EXCEPT ![c] = @ + 1]
        BY <3>2, NewCallShape
      <4> QED BY <4>1, <4>2, LifecycleAssumption DEF TypeOK, rows, Rows
    <3> QED BY <2>1, <3>1, <3>2
  <2>2. ASSUME NEW c \in Callers, Commit(c)
        PROVE  T
    <3>2. links' \subseteq links /\ \A l \in links' : l[1] \notin Gone(call[c])
      BY <2>2, CommitRows DEF LinksAfter
    <3>3. links' \in SUBSET (Rows' \X Entities)
      BY <2>2, <3>2, CommitRows DEF TypeOK
    <3> QED BY <2>2, <3>3, CommitRows, IdleTyped DEF TypeOK, Commit
  <2>3. ASSUME NEW c \in Callers, WriteRow(c)
        PROVE  T
    <3>1. Rows \subseteq Rows'
      BY <2>3, WriteRowRows DEF CallsInv, CallOK
    <3> QED BY <2>3, <3>1, WriteRowRows, IdleTyped DEF CallsInv, CallOK, TypeOK, WriteRow
  <2>4. ASSUME Others PROVE T
    <3>1. Rows \subseteq Rows'
      BY <2>4, OthersRows
    <3> QED BY <2>4, <3>1, OthersRows, LifecycleAssumption DEF TypeOK
  <2>5. T
    BY <1>2, <2>1, <2>2, <2>3, <2>4 DEF Next, Step, Quietly
  <2>6. since' \in [Callers -> SUBSET (Entities \X Relations \X Entities)]
    <3>1. (RowsTyped => Edges \subseteq Entities \X Relations \X Entities)'
      BY EdgesTyped, PTL
    <3>2. Edges' \subseteq Entities \X Relations \X Entities
      BY <2>5, <3>1 DEF RowsTyped
    <3>3. Watch
      BY <1>2 DEF Next
    <3> QED BY <3>2, <3>3 DEF Watch, TypeOK
  <2> QED BY <2>5, <2>6 DEF TypeOK
<1> QED BY <1>1, <1>2 DEF vars

-----------------------------------------------------------------------------
(* The parts of the invariant that speak of one call.                       *)

\* A caller keeps the edges it could find since it began to watch.
LEMMA WatchFacts ==
  ASSUME TypeOK, Watch, NEW c \in Callers
  PROVE  /\ since'[c] \subseteq Edges'
         /\ Watching(call[c]) /\ Watching(call'[c]) => since'[c] = since[c] \cap Edges'
         /\ ~Watching(call[c]) /\ Watching(call'[c]) => since'[c] = Edges'
         /\ ~Watching(call'[c]) => since'[c] = {}
<1>1. since'[c] = IF ~Watching(call'[c]) THEN {}
                  ELSE IF Watching(call[c]) THEN since[c] \cap Edges' ELSE Edges'
  BY DEF Watch
<1> QED BY <1>1

\* A link edge is a row of semantic_chunk_links.
LEMMA LinkEdges == RowsTyped => \A f \in Edges : f[2] = "link" => <<f[3], f[1]>> \in links
BY EdgeRows

\* A row that is new hangs below nothing, or is not linked yet.
NewRowsFree ==
  \A f \in Edges' : f[2] = "link" /\ f[1] \in Rows' /\ Named(f[1]) # {} => f[1] \in Rows

\* Whatever a step inserts is new to every link.
LEMMA NewRows ==
  ASSUME IInv, TypeOK', Next
  PROVE  NewRowsFree
<1> USE DEF IInv
<1>1. CASE Rows' \subseteq Rows
  BY <1>1 DEF NewRowsFree
<1>2. ASSUME NEW c \in Callers, Quietly(c) \/ NewCall(c)
      PROVE  Rows' = Rows
  <2>1. CASE Quietly(c)
    BY <2>1, ReadShape, CheckShape
       DEF Quietly, ChooseTable, WriteTable, AbortDeadlocked, Rows, rows
  <2> QED BY <1>2, <2>1, NewCallShape DEF Rows, rows
<1>3. ASSUME NEW c \in Callers, Commit(c)
      PROVE  Rows' \subseteq Rows
  BY <1>3, CommitRows DEF LocksInv
<1>4. ASSUME NEW c \in Callers, WriteRow(c)
      PROVE  NewRowsFree
  BY <1>4, WriteRowRows DEF CallsInv, CallOK, NewRowsFree
<1>5. ASSUME Others
      PROVE  NewRowsFree
  <2>1. (RowsTyped => \A f \in Edges : f[2] = "link" => <<f[3], f[1]>> \in links)'
    BY LinkEdges, PTL
  <2>2. \A f \in Edges' : f[2] = "link" => <<f[3], f[1]>> \in links'
    BY <2>1 DEF RowsTyped, TypeOK
  <2> QED BY <1>5, <2>2, OthersRows DEF NewRowsFree
<1> QED BY <1>1, <1>2, <1>3, <1>4, <1>5 DEF Next, Step, Quietly

\* The edge of a foreign key is there as long as its row.
LEMMA KeyEdge == \A e \in Rows : \A x \in FkParents[e] : <<x, Kind[e], e>> \in Edges
BY DEF Edges

LEMMA KeyEdgeNext == \A e \in Rows' : \A x \in FkParents[e] : <<x, Kind[e], e>> \in Edges'
<1>1. (\A e \in Rows : \A x \in FkParents[e] : <<x, Kind[e], e>> \in Edges)'
  BY KeyEdge, PTL
<1> QED BY <1>1

\* Whatever others do.
LEMMA OthersKeep ==
  ASSUME IInv, TypeOK', Next, NEW d \in Callers, call'[d] = call[d]
  PROVE  CallOK(d)'
<1> USE DEF IInv
<1>1. Watch /\ NewRowsFree /\ CallOK(d)
  BY NewRows DEF Next, CallsInv
<1>2. since'[d] \subseteq Edges' /\ (Watching(call[d]) => since'[d] = since[d] \cap Edges')
      /\ (~Watching(call[d]) => since'[d] = {})
  BY <1>1, WatchFacts
<1>3. OneRow(call[d])'
  BY <1>1 DEF CallOK, OneRow
<1>4. WrittenOK(d)'
  BY <1>1, <1>2 DEF CallOK, WrittenOK, Watching
<1>5. ClosureOK(d)'
  BY <1>1, <1>2 DEF CallOK, ClosureOK, Watching, Collected
<1>6. CheckedOK(d)'
  <2> DEFINE t == call[d]
  <2>1. SUFFICES ASSUME t.op = "delete", t.pc \in {"check", "write"}, NEW f \in since'[d]
        PROVE  /\ f[1] \in t.refs /\ f[2] \in Checked[Kind[f[1]]] =>
                    \/ f[3] \in t.refs
                    \/ t.pc = "check" /\ (t.changed \/ <<f[1], f[2]>> \in t.todo)
               /\ f[2] = "link" /\ f[1] \in Rows' =>
                    \A p \in FkParents[f[1]] \cap t.refs : <<p, Kind[f[1]], f[1]>> \in since'[d]
    BY DEF CheckedOK
  <2>2. since'[d] = since[d] \cap Edges'
    BY <1>2, <2>1 DEF Watching
  <2>3. /\ f[1] \in t.refs /\ f[2] \in Checked[Kind[f[1]]] =>
                    \/ f[3] \in t.refs
                    \/ t.pc = "check" /\ (t.changed \/ <<f[1], f[2]>> \in t.todo)
        /\ f[2] = "link" /\ f[1] \in Rows =>
             \A p \in FkParents[f[1]] \cap t.refs : <<p, Kind[f[1]], f[1]>> \in since[d]
    BY <1>1, <2>1, <2>2 DEF CallOK, CheckedOK
  <2>4. ASSUME f[2] = "link", f[1] \in Rows', NEW p \in FkParents[f[1]] \cap t.refs
        PROVE  <<p, Kind[f[1]], f[1]>> \in since'[d]
    <3>1. f[1] \in Rows
      BY <1>1, <2>2, <2>4 DEF NewRowsFree, Named
    <3>2. <<p, Kind[f[1]], f[1]>> \in Edges'
      BY <2>4, KeyEdgeNext
    <3> QED BY <2>2, <2>3, <2>4, <3>1, <3>2
  <2> QED BY <2>3, <2>4
<1> QED BY <1>3, <1>4, <1>5, <1>6 DEF CallOK

\* A call that ended.
LEMMA IdleKeeps ==
  ASSUME IInv, Next, NEW c \in Callers, call'[c] = Idle
  PROVE  CallOK(c)'
<1>1. since'[c] \subseteq Edges'
  BY WatchFacts DEF Next, IInv
<1> QED BY <1>1 DEF CallOK, OneRow, WrittenOK, ClosureOK, CheckedOK, Idle, Closing

\* references_to begins: of the edges there are, every one is still to be read.
LEMMA WatchBegins ==
  ASSUME TypeOK', NEW c \in Callers,
         call'[c].op = "delete" /\ call'[c].pc \in {"check", "write"} =>
           /\ call'[c].pc = "check" /\ since'[c] = Edges'
           /\ call'[c].todo = Checks(call'[c].refs)
  PROVE  CheckedOK(c)'
<1>1. (RowsTyped => Edges \subseteq Entities \X Relations \X Entities)'
  BY EdgesTyped, PTL
<1>2. Edges' \subseteq Entities \X Relations \X Entities
  BY <1>1 DEF RowsTyped, TypeOK
<1>3. \A f \in Edges' : \A refs : f[1] \in refs /\ f[2] \in Checked[Kind[f[1]]]
        => <<f[1], f[2]>> \in Checks(refs)
  BY <1>2 DEF Checks, Reads
<1> QED BY <1>3, KeyEdgeNext DEF CheckedOK

\* Calls that begin: a closure may have nothing to read.
LEMMA BeginKeeps ==
  ASSUME IInv, TypeOK', Next, NEW c \in Callers, NewCall(c)
  PROVE  CallOK(c)'
<1> USE DEF IInv
<1>1. /\ since'[c] \subseteq Edges' /\ (~Watching(call'[c]) => since'[c] = {})
      /\ ~Watching(call[c]) /\ (Watching(call'[c]) => since'[c] = Edges')
  BY WatchFacts, NewCallShape DEF Next, Watching
<1>2. (RowsTyped => Edges \subseteq Entities \X Relations \X Entities)'
  BY EdgesTyped, PTL
<1>3. Edges' \subseteq Entities \X Relations \X Entities
  BY <1>2 DEF RowsTyped, TypeOK
<1>4. PICK t \in Call :
        /\ call' = [call EXCEPT ![c] = t]
        /\ \/ \E op \in Closing, flag \in {"live", "deleted"}, roots \in SUBSET Entities :
                t = StartClosure(op, roots, flag)
           \/ t.op \notin Closing /\ OneRow(t)
  BY NewCallShape
<1>5. call'[c] = t
  BY <1>4 DEF TypeOK
<1>6. CASE t.op \notin Closing /\ OneRow(t)
  BY <1>1, <1>5, <1>6 DEF CallOK, OneRow, WrittenOK, ClosureOK, CheckedOK, Closing
<1>7. ASSUME NEW op \in Closing, NEW flag \in {"live", "deleted"}, NEW roots \in SUBSET Entities,
             t = StartClosure(op, roots, flag)
      PROVE  CallOK(c)'
  <2>1. /\ t.op = op /\ t.roots = roots /\ t.refs = roots /\ (t.pc = "closure" => t.todo = PassOver(roots))
        /\ ~t.changed /\ t.done = {} /\ t.locks = {} /\ t.pc # "idle"
        /\ t.pc = "write" => t.op = "mark" /\ PassOver(roots) = {}
        /\ t.pc = "check" => t.op = "delete" /\ t.todo = Checks(roots)
        /\ t.op \in Closing
    <3>1. StartClosure(op, roots, flag).pc = "check" => op = "delete"
      <4>1. [Idle EXCEPT !.op = op, !.flag = flag, !.roots = roots, !.refs = roots].op = op
        BY DEF Idle
      <4> QED BY <4>1 DEF StartClosure, AfterClosure, Idle
    <3> QED BY <1>7, <3>1, ClosureTyped
  <2>2. ASSUME NEW f \in Edges', f[1] \in roots, f[2] \in ToSet(Followed[Kind[f[1]]])
        PROVE  <<f[1], f[2]>> \in PassOver(roots)
    <3>1. f[1] \in Entities /\ Kind[f[1]] \in ToSet(Tables)
      BY <1>3, LifecycleAssumption
    <3>2. f[2] \in Relations
      BY <2>2, <3>1, RelationsOfKinds
    <3> QED BY <2>2, <3>1, <3>2 DEF PassOver, Reads
  <2>3. WrittenOK(c)' /\ OneRow(call[c])'
    BY <1>1, <1>5, <2>1 DEF OneRow, WrittenOK, Closing
  <2>5. CheckedOK(c)'
    <3>1. t.op = "delete" /\ t.pc \in {"check", "write"} =>
            t.pc = "check" /\ since'[c] = Edges' /\ t.todo = Checks(t.refs)
      BY <1>1, <1>5, <2>1 DEF Watching
    <3> QED BY <1>5, <3>1, WatchBegins
  <2>4. ClosureOK(c)'
    <3>1. t.pc \in {"closure", "check", "write"}
      BY <2>1 DEF Call
    <3>4. \A f \in since'[c] :
            f[1] \in roots /\ f[2] \in ToSet(Followed[Kind[f[1]]]) => <<f[1], f[2]>> \in PassOver(roots)
      BY <1>1, <2>2
    <3>2. t.op = "mark" => \A f \in since'[c] :
            f[1] \in t.refs /\ f[2] \in ToSet(Followed[Kind[f[1]]]) => Collected(t, f)
      BY <2>1, <3>1, <3>4 DEF Collected
    <3>3. t.op = "mark" => t.pc # "check"
      BY <2>1
    <3> QED BY <1>5, <2>1, <3>2, <3>3 DEF ClosureOK, Collected
  <2> QED BY <2>3, <2>4, <2>5 DEF CallOK
<1> QED BY <1>4, <1>6, <1>7

\* A SELECT of _closure: a pass that found a row is followed by another one.
LEMMA ReadKeeps ==
  ASSUME IInv, TypeOK', Next, NEW c \in Callers, ReadChildren(c)
  PROVE  CallOK(c)'
<1> USE DEF IInv
<1> DEFINE t == call[c]
<1>1. PICK p \in t.todo, u \in Call :
        call' = [call EXCEPT ![c] = u] /\ ReadLeaves(t, p, Naming(p[1], p[2]), u)
  BY ReadShape
<1> DEFINE again == Again(t, Naming(p[1], p[2]))
<1>2. t \in Call /\ t.pc = "closure" /\ Edges' = Edges /\ rows' = rows
  BY ReadShape DEF TypeOK, Edges, Rows, rows
<1>3. /\ call'[c] = u /\ u.op = t.op /\ u.roots = t.roots
      /\ u.refs = t.refs \cup Naming(p[1], p[2]) /\ u.locks = t.locks /\ u.done = t.done
      /\ u.next = t.next
      /\ u.changed => again /\ t.todo # {p}
      /\ again /\ t.todo # {p} => u.changed
      /\ u.pc = IF t.todo = {p} /\ ~again
                THEN IF t.op = "delete" THEN "check" ELSE "write"
                ELSE "closure"
      /\ u.todo = IF t.todo # {p} THEN t.todo \ {p}
                  ELSE IF again THEN PassOver(u.refs)
                  ELSE IF t.op = "delete" THEN Checks(u.refs) ELSE {}
  <2>1. call'[c] = u
    BY <1>1 DEF TypeOK
  <2> HIDE DEF t
  <2> QED BY <1>1, <2>1 DEF ReadLeaves
<1>4. /\ since'[c] \subseteq Edges
      /\ Watching(call[c]) /\ Watching(call'[c]) => since'[c] \subseteq since[c]
      /\ ~Watching(call[c]) /\ Watching(call'[c]) => since'[c] = Edges
      /\ ~Watching(call'[c]) => since'[c] = {}
  BY <1>2, WatchFacts DEF Next
<1>5. /\ CallOK(c) /\ t.done = {} /\ t.locks = {}
  BY <1>2 DEF CallsInv, LocksInv
<1>6. OneRow(call[c])' /\ WrittenOK(c)'
  BY <1>2, <1>3, <1>4, <1>5 DEF CallOK, OneRow, WrittenOK
<1>7. CheckedOK(c)'
  <2>1. u.op = "delete" /\ u.pc \in {"check", "write"} =>
          u.pc = "check" /\ since'[c] = Edges' /\ u.todo = Checks(u.refs)
    BY <1>2, <1>3, <1>4 DEF Watching
  <2> QED BY <1>3, <2>1, WatchBegins
<1>8. ASSUME t.op = "mark", ~u.changed, NEW f \in since'[c],
             f[1] \in u.refs, f[2] \in ToSet(Followed[Kind[f[1]]])
      PROVE  Collected(u, f)
  <2>0. /\ f \in Edges /\ f \in since[c] /\ RowsTyped
    BY <1>2, <1>3, <1>4, <1>8 DEF Watching, TypeOK, RowsTyped
  <2>1. /\ f[1] \in Entities /\ f[3] \in Naming(f[1], f[2]) /\ Kind[f[1]] \in ToSet(Tables)
    BY <2>0, EdgeRows, LifecycleAssumption
  <2>2. f[2] \in Relations
    BY <1>8, <2>1, RelationsOfKinds
  <2>3. CASE again
    <3>1. t.todo = {p} /\ u.pc = "closure" /\ u.todo = PassOver(u.refs)
      BY <1>3, <1>8, <2>3
    <3>2. <<f[1], f[2]>> \in PassOver(u.refs)
      BY <1>8, <2>1, <2>2 DEF PassOver, Reads
    <3> QED BY <3>1, <3>2 DEF Collected
  <2>4. CASE ~again
    <3>1. ~t.changed /\ Naming(p[1], p[2]) \subseteq t.refs /\ u.refs = t.refs
      <4>1. ~t.changed /\ Naming(p[1], p[2]) \subseteq t.refs
        BY <2>4 DEF Again
      <4> QED BY <1>3, <4>1
    <3>2. Collected(t, f)
      BY <1>2, <1>5, <1>8, <2>0, <3>1 DEF CallOK, ClosureOK
    <3>3. CASE <<f[1], f[2]>> = p
      BY <2>1, <3>1, <3>3 DEF Collected
    <3>4. CASE <<f[1], f[2]>> # p
      BY <1>3, <2>4, <3>1, <3>2, <3>4 DEF Collected
    <3> QED BY <3>3, <3>4
  <2> QED BY <2>3, <2>4
<1>9. ClosureOK(c)'
  <2>1. t.op = "mark" => t.roots \subseteq t.refs
    BY <1>5 DEF CallOK, ClosureOK
  <2>2. u.pc = "closure" \/ ~u.changed
    BY <1>3
  <2>5. u.op = "mark" => u.pc # "check"
    BY <1>3
  <2>3. u.op = "mark" /\ ~u.changed => \A f \in since'[c] :
           f[1] \in u.refs /\ f[2] \in ToSet(Followed[Kind[f[1]]]) => Collected(u, f)
    BY <1>3, <1>8
  <2>4. u.roots = t.roots /\ u.op = t.op /\ t.refs \subseteq u.refs /\ call'[c] = u
    BY <1>3
  <2> HIDE DEF t
  <2> QED BY <2>1, <2>2, <2>3, <2>4, <2>5 DEF ClosureOK, Collected
<1> QED BY <1>6, <1>7, <1>9 DEF CallOK

\* A SELECT of references_to: what it should find it finds, or the call is refused.
LEMMA CheckKeeps ==
  ASSUME IInv, TypeOK', Next, NEW c \in Callers, CheckReferences(c)
  PROVE  CallOK(c)'
<1> USE DEF IInv
<1>1. CASE call' = [call EXCEPT ![c] = Idle]
  <2>1. call'[c] = Idle
    BY <1>1 DEF TypeOK
  <2> QED BY <2>1, IdleKeeps
<1>2. CASE call' # [call EXCEPT ![c] = Idle]
  <2> DEFINE t == call[c]
  <2>1. PICK p \in t.todo, u \in Call :
          /\ call' = [call EXCEPT ![c] = u]
          /\ u.op = t.op /\ u.roots = t.roots /\ u.refs = t.refs
          /\ u.locks = t.locks /\ u.done = t.done /\ u.next = t.next
          /\ u.todo = t.todo \ {p}
          /\ u.pc = IF u.todo = {} THEN "write" ELSE "check"
          /\ u.pc = "write" => ~t.changed /\ ~u.changed
          /\ ~u.changed => ~t.changed /\ Naming(p[1], p[2]) \subseteq t.refs
    BY <1>2, CheckShape
  <2>2. /\ call'[c] = u /\ t.pc = "check" /\ Edges' = Edges /\ Rows' = Rows /\ RowsTyped
        /\ CallOK(c) /\ t.done = {} /\ t.locks = {}
    <3>1. call'[c] = u
      BY <2>1 DEF TypeOK
    <3>2. t.pc = "check" /\ UNCHANGED rows
      BY CheckShape
    <3> QED BY <3>1, <3>2 DEF TypeOK, RowsTyped, Edges, Rows, rows, CallsInv, LocksInv
  <2>10. /\ u.op = t.op /\ u.todo = t.todo \ {p} /\ u.refs = t.refs
         /\ u.pc = IF u.todo = {} THEN "write" ELSE "check"
         /\ u.pc = "write" => ~t.changed /\ ~u.changed
         /\ ~u.changed => ~t.changed /\ Naming(p[1], p[2]) \subseteq t.refs
    BY <2>1
  <2>3. since'[c] \subseteq Edges /\ (Watching(call[c]) => since'[c] = since[c])
    <3>1. Watching(call[c]) => Watching(call'[c])
      BY <2>2, <2>10 DEF Watching
    <3>2. since[c] \subseteq Edges
      BY <2>2 DEF CallOK, WrittenOK
    <3>3. /\ since'[c] \subseteq Edges'
          /\ Watching(call[c]) /\ Watching(call'[c]) => since'[c] = since[c] \cap Edges'
      BY WatchFacts DEF Next
    <3> QED BY <2>2, <3>1, <3>2, <3>3
  <2>4. OneRow(call[c])' /\ WrittenOK(c)'
    BY <2>1, <2>2, <2>3 DEF CallOK, OneRow, WrittenOK
  <2>5. ClosureOK(c)'
    <3>1. t.op # "mark"
      BY <2>2 DEF CallOK, ClosureOK
    <3> QED BY <2>1, <2>2, <3>1 DEF ClosureOK
  <2>6. ASSUME t.op = "delete", NEW f \in since'[c], f[1] \in t.refs, f[2] \in Checked[Kind[f[1]]]
        PROVE  f[3] \in t.refs \/ (u.pc = "check" /\ (u.changed \/ <<f[1], f[2]>> \in u.todo))
    <3>1. f \in since[c] /\ f \in Edges
      BY <2>2, <2>3, <2>6 DEF Watching
    <3>2. f[3] \in Naming(f[1], f[2])
      BY <2>2, <3>1, EdgeRows
    <3>3. f[3] \in t.refs \/ t.changed \/ <<f[1], f[2]>> \in t.todo
      BY <2>2, <2>6, <3>1 DEF CallOK, CheckedOK
    <3>4. CASE <<f[1], f[2]>> = p
      <4>1. p[1] = f[1] /\ p[2] = f[2]
        BY <3>4
      <4>2. CASE u.changed
        BY <2>10, <4>2
      <4>3. CASE ~u.changed
        <5>1. Naming(p[1], p[2]) \subseteq t.refs
          BY <2>10, <4>3
        <5>2. f[3] \in Naming(p[1], p[2])
          BY <3>2, <4>1
        <5> QED BY <5>1, <5>2
      <4> QED BY <4>2, <4>3
    <3>5. CASE <<f[1], f[2]>> # p
      <4>1. ASSUME <<f[1], f[2]>> \in t.todo
            PROVE  <<f[1], f[2]>> \in u.todo /\ u.pc = "check"
        BY <2>10, <3>5, <4>1
      <4>2. ASSUME t.changed PROVE u.changed /\ u.pc = "check"
        BY <2>10, <4>2
      <4> QED BY <3>3, <4>1, <4>2
    <3> QED BY <3>4, <3>5
  <2>7. t.op = "delete" => \A f \in since'[c] :
          f[2] = "link" /\ f[1] \in Rows' =>
            \A q \in FkParents[f[1]] \cap u.refs : <<q, Kind[f[1]], f[1]>> \in since'[c]
    BY <2>1, <2>2, <2>3 DEF CallOK, CheckedOK, Watching
  <2>8. CheckedOK(c)'
    <3> HIDE DEF t
    <3> QED BY <2>1, <2>2, <2>6, <2>7 DEF CheckedOK
  <2> QED BY <2>4, <2>5, <2>8 DEF CallOK
<1> QED BY <1>1, <1>2

\* A step of a call that goes on with what it has collected and found.
LEMMA GoesOn ==
  ASSUME IInv, TypeOK', Next, NEW c \in Callers, rows' = rows,
         call[c].op \in Closing, call[c].pc = "write", call'[c].pc = "write",
         call'[c].op = call[c].op, call'[c].refs = call[c].refs,
         call'[c].roots = call[c].roots, call'[c].changed = call[c].changed,
         call[c].locks \subseteq call'[c].locks,
         \A x \in call'[c].locks \ call[c].locks :
           x \in call[c].refs \/ FkParents[x] \cap call[c].refs # {},
         \A e \in Rows : e \in call[c].refs /\ Kind[e] \in call'[c].done =>
           Kind[e] \in call[c].done \/ e \in call'[c].locks
  PROVE  CallOK(c)'
<1> USE DEF IInv
<1>1. Edges' = Edges /\ Rows' = Rows /\ RowsTyped /\ CallOK(c)
  BY DEF Edges, Rows, rows, TypeOK, RowsTyped, CallsInv
<1>2. since'[c] \subseteq Edges /\ since'[c] = since[c]
  BY <1>1, WatchFacts DEF Next, Watching, Closing, CallOK, WrittenOK
<1>3. \A f \in since'[c] : f[3] \in Rows
  BY <1>1, <1>2, EdgeRows
<1>4. WrittenOK(c)'
  BY <1>1, <1>2, <1>3 DEF CallOK, WrittenOK
<1>5. OneRow(call[c])' /\ ClosureOK(c)' /\ CheckedOK(c)'
  BY <1>1, <1>2 DEF CallOK, OneRow, ClosureOK, CheckedOK, Collected
<1> QED BY <1>4, <1>5 DEF CallOK

\* The next table of a mark or a delete.
LEMMA ChooseKeeps ==
  ASSUME IInv, TypeOK', Next, NEW c \in Callers, ChooseTable(c)
  PROVE  CallOK(c)'
<1>1. PICK k : call' = [call EXCEPT ![c].next = k]
  BY DEF ChooseTable
<1>2. /\ call'[c].pc = "write" /\ call'[c].op = call[c].op /\ call'[c].refs = call[c].refs
      /\ call'[c].roots = call[c].roots /\ call'[c].changed = call[c].changed
      /\ call'[c].done = call[c].done /\ call'[c].locks = call[c].locks
  BY <1>1 DEF ChooseTable, IInv, TypeOK, Call
<1> QED BY <1>2, GoesOn DEF ChooseTable, Closing

\* The UPDATE or DELETE of one table, or the foreign key that refuses it.
LEMMA WriteKeeps ==
  ASSUME IInv, TypeOK', Next, NEW c \in Callers, WriteTable(c)
  PROVE  CallOK(c)'
<1> DEFINE t == call[c]
<1>1. CASE Users(c, t.next) # {}
  <2>1. call'[c] = Idle
    BY <1>1 DEF WriteTable, IInv, TypeOK
  <2> QED BY <2>1, IdleKeeps
<1>2. CASE Users(c, t.next) = {}
  <2>1. t \in Call
    BY DEF IInv, TypeOK
  <2>2. call'[c] = [t EXCEPT !.locks = t.locks \cup Written(c, t.next),
                             !.cut = t.cut \cup Cut(c, t.next),
                             !.done = t.done \cup {t.next}, !.next = None]
    BY <1>2 DEF WriteTable, IInv, TypeOK
  <2>3. /\ call'[c].pc = t.pc /\ call'[c].op = t.op /\ call'[c].refs = t.refs
        /\ call'[c].roots = t.roots /\ call'[c].changed = t.changed
        /\ call'[c].done = t.done \cup {t.next}
        /\ call'[c].locks = t.locks \cup Written(c, t.next)
    <3> HIDE DEF t
    <3> DEFINE W == Written(c, t.next)
               K == Cut(c, t.next)
    <3> HIDE DEF W, K
    <3> QED BY <2>1, <2>2 DEF Call
  <2>4. /\ \A e \in Rows : e \in t.refs /\ Kind[e] = t.next => e \in Written(c, t.next)
        /\ \A x \in Written(c, t.next) : x \in t.refs \/ FkParents[x] \cap t.refs # {}
    BY DEF Written
  <2>5. t.op \in Closing
    BY DEF WriteTable, IInv, CallsInv, CallOK, OneRow
  <2> QED BY <2>3, <2>4, <2>5, GoesOn DEF WriteTable
<1> QED BY <1>1, <1>2

-----------------------------------------------------------------------------
(* Locks, foreign keys, and the invariant as a whole.                       *)

\* What a step of a call leaves of its locks.
LEMMA LocksAfter ==
  ASSUME IInv, TypeOK', NEW c \in Callers, Quietly(c) \/ NewCall(c)
  PROVE  /\ Rows' = Rows
         /\ \A d \in Callers \ {c} : call'[d] = call[d]
         /\ \/ /\ call'[c].locks = {}
               /\ call'[c].pc # "write" => call'[c].done = {}
            \/ /\ call'[c].pc = "write" /\ call'[c].locks = call[c].locks
               /\ call'[c].op = call[c].op
            \/ /\ call'[c].pc = "write" /\ call'[c].op = call[c].op
               /\ call'[c].locks = call[c].locks \cup Written(c, call[c].next)
               /\ Unlocked(Written(c, call[c].next), c) /\ Users(c, call[c].next) = {}
<1> USE DEF IInv
<1>0. call[c] \in Call
  BY DEF TypeOK
<1>1. CASE ReadChildren(c)
  <2>1. call[c].locks = {} /\ call[c].done = {}
    BY <1>1, ReadShape DEF LocksInv
  <2>2. PICK p \in call[c].todo, u \in Call :
          call' = [call EXCEPT ![c] = u] /\ ReadLeaves(call[c], p, Naming(p[1], p[2]), u)
    BY <1>1, ReadShape
  <2>3. call'[c].locks = {} /\ call'[c].done = {}
    <3>1. u.locks = {} /\ u.done = {}
      BY <2>1, <2>2 DEF ReadLeaves
    <3> QED BY <2>2, <3>1 DEF TypeOK
  <2> QED BY <1>1, <2>2, <2>3, ReadShape DEF TypeOK, Rows, rows
<1>2. CASE CheckReferences(c)
  <2>1. call[c].locks = {} /\ call[c].done = {} /\ UNCHANGED rows
    BY <1>2, CheckShape DEF LocksInv
  <2>2. \E u : /\ call' = [call EXCEPT ![c] = u]
               /\ u.locks = {} /\ u.done = {}
    BY <1>2, <2>1, CheckShape DEF Idle
  <2> QED BY <2>1, <2>2 DEF TypeOK, Rows, rows
<1>3. CASE ChooseTable(c)
  <2>1. PICK k : call' = [call EXCEPT ![c].next = k]
    BY <1>3 DEF ChooseTable
  <2>2. call'[c].pc = "write" /\ call'[c].locks = call[c].locks /\ call'[c].op = call[c].op
    BY <1>0, <1>3, <2>1 DEF ChooseTable, TypeOK, Call
  <2> QED BY <1>3, <2>1, <2>2 DEF ChooseTable, TypeOK, Rows, rows
<1>4. CASE WriteTable(c)
  <2>1. CASE Users(c, call[c].next) # {}
    <3>1. call' = [call EXCEPT ![c] = Idle]
      BY <1>4, <2>1 DEF WriteTable
    <3>2. Rows' = Rows
      BY <1>4 DEF WriteTable, Rows, rows
    <3> QED BY <3>1, <3>2 DEF TypeOK, Idle
  <2>2. CASE Users(c, call[c].next) = {}
    <3> DEFINE W == Written(c, call[c].next)
               K == Cut(c, call[c].next)
    <3>1. /\ call' = [call EXCEPT ![c] =
               [call[c] EXCEPT !.locks = call[c].locks \cup W, !.cut = call[c].cut \cup K,
                               !.done = call[c].done \cup {call[c].next}, !.next = None]]
          /\ call[c].pc = "write" /\ Unlocked(W, c)
      BY <1>4, <2>2 DEF WriteTable, Blocking, Unlocked
    <3>2. Rows' = Rows
      BY <1>4 DEF WriteTable, Rows, rows
    <3> HIDE DEF W, K
    <3>3. call'[c].pc = "write" /\ call'[c].op = call[c].op /\ call'[c].locks = call[c].locks \cup W
      BY <1>0, <3>1 DEF TypeOK, Call
    <3> QED BY <2>2, <3>1, <3>2, <3>3 DEF TypeOK, W
  <2> QED BY <2>1, <2>2
<1>5. CASE AbortDeadlocked(c)
  BY <1>5 DEF AbortDeadlocked, TypeOK, Rows, rows, Idle
<1>6. CASE NewCall(c)
  <2>1. PICK t \in Call :
          /\ call' = [call EXCEPT ![c] = t]
          /\ \/ \E op \in Closing, flag \in {"live", "deleted"}, roots \in SUBSET Entities :
                  t = StartClosure(op, roots, flag)
             \/ t.pc = "write" /\ t.locks = {}
    BY <1>6, NewCallShape
  <2>2. t.locks = {} /\ (t.pc # "write" => t.done = {})
    <3>1. \A op \in Closing, flag \in {"live", "deleted"}, roots \in SUBSET Entities :
            StartClosure(op, roots, flag).locks = {} /\ StartClosure(op, roots, flag).done = {}
      BY ClosureTyped
    <3> QED BY <2>1, <3>1
  <2>3. Rows' = Rows
    BY <1>6, NewCallShape DEF Rows, rows
  <2> QED BY <2>1, <2>2, <2>3 DEF TypeOK
<1> QED BY <1>1, <1>2, <1>3, <1>4, <1>5, <1>6 DEF Quietly

\* Nothing a transaction has locked is locked by another one.
LEMMA LocksStep ==
  ASSUME IInv, TypeOK', Next
  PROVE  LocksInv'
<1> USE DEF IInv
<1>1. ASSUME NEW c \in Callers, Quietly(c) \/ NewCall(c)
      PROVE  LocksInv'
  <2>1. CASE /\ call'[c].locks = {}
             /\ call'[c].pc # "write" => call'[c].done = {}
    BY <1>1, <2>1, LocksAfter DEF LocksInv
  <2>2. CASE call'[c].pc = "write" /\ call'[c].locks = call[c].locks
    BY <1>1, <2>2, LocksAfter DEF LocksInv
  <2>3. CASE /\ call'[c].pc = "write"
             /\ call'[c].locks = call[c].locks \cup Written(c, call[c].next)
             /\ Unlocked(Written(c, call[c].next), c)
    <3>1. Written(c, call[c].next) \subseteq Rows
      BY WrittenRows
    <3>2. \A d \in Callers \ {c} : call[d].locks \cap Written(c, call[c].next) = {}
      BY <2>3 DEF Unlocked, Holders
    <3> QED BY <1>1, <2>3, <3>1, <3>2, LocksAfter DEF LocksInv
  <2> QED BY <1>1, <2>1, <2>2, <2>3, LocksAfter
<1>2. ASSUME NEW c \in Callers, Commit(c)
      PROVE  LocksInv'
  <2>1. /\ call' = [call EXCEPT ![c] = Idle]
        /\ Rows' = (Rows \cup call[c].locks) \ Gone(call[c])
        /\ Gone(call[c]) \subseteq call[c].locks
    BY <1>2, CommitRows DEF Gone
  <2> QED BY <2>1 DEF LocksInv, Idle, TypeOK
<1>3. ASSUME NEW c \in Callers, WriteRow(c)
      PROVE  LocksInv'
  <2>1. call' = [call EXCEPT ![c] = Idle] /\ Rows \subseteq Rows'
    BY <1>3, WriteRowRows DEF CallsInv, CallOK
  <2> QED BY <2>1 DEF LocksInv, Idle, TypeOK
<1>4. ASSUME Others
      PROVE  LocksInv'
  <2>1. call' = call /\ Rows \subseteq Rows'
    BY <1>4, OthersRows
  <2> QED BY <2>1 DEF LocksInv
<1> QED BY <1>1, <1>2, <1>3, <1>4 DEF Next, Step, Quietly

\* The foreign keys hold after every step, and each DELETE takes what cascades.
LEMMA KeysStep ==
  ASSUME IInv, TypeOK', Next
  PROVE  ForeignKeysInv'
<1> USE DEF IInv
<1>0. \A e \in Entities : \A x \in FkParents[e] : FkParents[x] \subseteq FkParents[e]
  BY LifecycleAssumption
<1>1. ASSUME NEW c \in Callers, Quietly(c) \/ NewCall(c)
      PROVE  ForeignKeysInv'
  <2>1. Rows' = Rows /\ \A d \in Callers \ {c} : call'[d] = call[d]
    BY <1>1, LocksAfter
  <2>2. CASE call'[c].locks = {}
    BY <2>1, <2>2 DEF ForeignKeysInv
  <2>3. CASE call'[c].op = call[c].op /\ call'[c].locks = call[c].locks
    BY <2>1, <2>3 DEF ForeignKeysInv
  <2>4. CASE /\ call'[c].op = call[c].op
             /\ call'[c].locks = call[c].locks \cup Written(c, call[c].next)
             /\ Users(c, call[c].next) = {}
    <3>1. ASSUME call[c].op = "delete", NEW p \in Written(c, call[c].next), NEW e \in Rows,
                 p \in Named(e)
          PROVE  e \in call[c].locks \cup Written(c, call[c].next)
      <4> DEFINE named == {x \in call[c].refs \cap Rows : Kind[x] = call[c].next}
      <4>1. Written(c, call[c].next) = named \cup {x \in Rows : FkParents[x] \cap named # {}}
        BY <3>1 DEF Written
      <4>2. e \in Entities /\ p \in Entities
        BY <4>1 DEF Rows
      <4>3. CASE p \in FkParents[e] /\ p \in named
        BY <3>1, <4>1, <4>3
      <4>4. CASE p \in FkParents[e] /\ FkParents[p] \cap named # {}
        BY <1>0, <3>1, <4>1, <4>2, <4>4
      <4>5. CASE p \in Uses[e]
        <5>1. Kind[p] = "dictionaries"
          BY <4>2, <4>5, LifecycleAssumption
        <5>2. FkParents[p] = {}
          BY <4>2, <5>1, LifecycleAssumption
        <5>3. p \in call[c].refs /\ call[c].next = "dictionaries"
          BY <3>1, <4>1, <5>1, <5>2
        <5> QED BY <2>4, <3>1, <4>5, <5>3 DEF Users
      <4> QED BY <3>1, <4>1, <4>3, <4>4, <4>5 DEF Named
    <3> QED BY <2>1, <2>4, <3>1 DEF ForeignKeysInv
  <2> QED BY <1>1, <2>2, <2>3, <2>4, LocksAfter
<1>2. ASSUME NEW c \in Callers, Commit(c)
      PROVE  ForeignKeysInv'
  <2>1. /\ call' = [call EXCEPT ![c] = Idle]
        /\ Rows' = Rows \ Gone(call[c])
    BY <1>2, CommitRows DEF LocksInv
  <2>2. \A e \in Rows' : Named(e) \subseteq Rows'
    BY <2>1 DEF ForeignKeysInv, Gone
  <2> QED BY <2>1, <2>2 DEF ForeignKeysInv, Idle, TypeOK
<1>3. ASSUME NEW c \in Callers, WriteRow(c)
      PROVE  ForeignKeysInv'
  <2>1. call' = [call EXCEPT ![c] = Idle]
    BY <1>3, WriteRowRows DEF CallsInv, CallOK
  <2>2. CASE Rows' = Rows
    BY <2>1, <2>2 DEF ForeignKeysInv, Idle, TypeOK
  <2>3. CASE \E x \in Entities : Rows' = Rows \cup {x} /\ Named(x) = {}
    BY <2>1, <2>3 DEF ForeignKeysInv, Idle, TypeOK
  <2> QED BY <1>3, <2>2, <2>3, WriteRowRows DEF CallsInv, CallOK
<1>4. ASSUME Others
      PROVE  ForeignKeysInv'
  <2>1. call' = call
    BY <1>4, OthersRows
  <2>2. CASE Rows' = Rows
    BY <2>1, <2>2 DEF ForeignKeysInv
  <2>3. ASSUME NEW x \in Entities \ Rows, Rows' = Rows \cup {x}, Named(x) \subseteq Rows,
               \A d \in Callers : call[d].op = "delete" => call[d].locks \cap Named(x) = {}
        PROVE  ForeignKeysInv'
    BY <2>1, <2>3 DEF ForeignKeysInv
  <2> QED BY <1>4, <2>2, <2>3, OthersRows
<1> QED BY <1>1, <1>2, <1>3, <1>4 DEF Next, Step, Quietly

\* Every step keeps what holds of each call.
LEMMA CallsStep ==
  ASSUME IInv, TypeOK', Next
  PROVE  CallsInv'
<1> USE DEF IInv
<1>1. SUFFICES ASSUME NEW d \in Callers PROVE CallOK(d)'
  BY DEF CallsInv
<1>2. CASE call'[d] = call[d]
  BY <1>2, OthersKeep
<1>3. ASSUME NEW c \in Callers, Step(c) \/ NewCall(c), call'[d] # call[d]
      PROVE  CallOK(d)'
  <2>1. d = c
    <3>1. CASE NewCall(c)
      BY <1>3, <3>1, NewCallShape DEF TypeOK
    <3>2. CASE Step(c)
      BY <1>3, <3>2, LocalsTyped DEF TypeOK
    <3> QED BY <1>3, <3>1, <3>2
  <2>2. CASE AbortDeadlocked(c) \/ Commit(c) \/ WriteRow(c)
    <3>1. call'[c] = Idle
      BY <2>2 DEF AbortDeadlocked, Commit, WriteRow, TypeOK
    <3> QED BY <2>1, <3>1, IdleKeeps
  <2> QED BY <1>3, <2>1, <2>2, BeginKeeps, ReadKeeps, CheckKeeps, ChooseKeeps, WriteKeeps DEF Step
<1>4. CASE Others
  BY <1>4, <1>2, OthersRows
<1> QED BY <1>2, <1>3, <1>4 DEF Next

\* The invariant holds at the start.
LEMMA IInvInit == Init => IInv
<1> SUFFICES ASSUME Init PROVE IInv
  OBVIOUS
<1>1. \A e \in Rows : Named(e) \subseteq Rows
  <2>1. PICK start \in Starts : row = [e \in Entities |-> IF e \in start THEN "live" ELSE "absent"]
    BY DEF Init
  <2>2. Rows = start
    BY <2>1, LifecycleAssumption DEF Rows
  <2> QED BY <2>2, LifecycleAssumption DEF Named
<1>2. \A c \in Callers : call[c] = Idle /\ since[c] = {}
  BY DEF Init
<1>3. CallsInv
  BY <1>2 DEF CallsInv, CallOK, OneRow, WrittenOK, ClosureOK, CheckedOK, Idle, Closing
<1>4. LocksInv /\ ForeignKeysInv
  BY <1>1, <1>2 DEF LocksInv, ForeignKeysInv, Idle
<1> QED BY <1>3, <1>4, TypeInit DEF IInv

\* Every step keeps the invariant.
LEMMA IInvStep == IInv /\ [Next]_vars => IInv'
<1> SUFFICES ASSUME IInv, [Next]_vars PROVE IInv'
  OBVIOUS
<1>1. CASE Next
  <2>1. TypeOK'
    BY <1>1, TypeStep DEF IInv
  <2> QED BY <1>1, <2>1, LocksStep, KeysStep, CallsStep DEF IInv
<1>2. CASE UNCHANGED vars
  <2>1. TypeOK'
    BY TypeStep DEF IInv
  <2>2. Rows' = Rows /\ Edges' = Edges
    BY <1>2 DEF vars, rows, Rows, Edges
  <2>3. LocksInv' /\ ForeignKeysInv'
    BY <1>2, <2>2 DEF vars, IInv, LocksInv, ForeignKeysInv
  <2>4. CallsInv'
    BY <1>2, <2>2
       DEF vars, IInv, CallsInv, CallOK, OneRow, WrittenOK, ClosureOK, CheckedOK, Collected
  <2> QED BY <2>1, <2>3, <2>4 DEF IInv
<1> QED BY <1>1, <1>2

\* The registry, every row's links and every call's locals stay typed, and what
\* open calls have collected, checked and locked stays true.
THEOREM LifecycleHolds == Spec => []IInv
BY IInvInit, IInvStep, PTL DEF Spec

-----------------------------------------------------------------------------
(* What a commit leaves.                                                    *)

\* A call that has written every table ends by its COMMIT only.
LEMMA OnlyCommitEnds ==
  ASSUME TypeOK, [Next]_vars, NEW c \in Callers, AllWritten(call[c]), call'[c].pc = "idle"
  PROVE  Commit(c) /\ Next
<1>1. call[c].pc = "write" /\ call[c].op \in {"mark", "delete"} /\ call[c].next = None
      /\ Candidates(call[c]) = {} /\ call'[c] # call[c]
  BY DEF AllWritten
<1>2. Next /\ ~Others
  BY <1>1, OthersRows DEF vars
<1>3. PICK d \in Callers : Step(d) \/ NewCall(d)
  BY <1>2 DEF Next
<1>4. d = c
  <2>1. \E t : call' = [call EXCEPT ![d] = t]
    BY <1>3, LocalsTyped, NewCallShape
  <2> QED BY <1>1, <2>1 DEF TypeOK
<1>5. WaitsFor(c) = {} /\ (\A v : v \notin WaitsFor(c))
  BY <1>1 DEF WaitsFor
<1>6. ~ReadChildren(c) /\ ~NewCall(c)
  BY <1>1, ReadShape, NewCallShape
<1>7. ~CheckReferences(c) /\ ~ChooseTable(c) /\ ~WriteTable(c) /\ ~AbortDeadlocked(c) /\ ~WriteRow(c)
  BY <1>1, <1>5 DEF CheckReferences, ChooseTable, WriteTable, AbortDeadlocked, WriteRow
<1> QED BY <1>2, <1>3, <1>4, <1>6, <1>7 DEF Step

\* _delete_closure always finds a table to write among those left.
LEMMA LeafTable ==
  ASSUME NEW left \in SUBSET ToSet(Tables), left # {}
  PROVE  LET rank(k) == IF k = "dictionaries" THEN 0 ELSE TableRank[k]
         IN  \E k \in left : \A j \in left : rank(k) >= rank(j)
<1> DEFINE rank(k) == IF k = "dictionaries" THEN 0 ELSE TableRank[k]
           Above(n) == \E k \in left : rank(k) >= n
<1>1. \A k \in left : rank(k) \in 0 .. 7
  <2>1. Len(Tables) = 7 /\ DOMAIN Tables = 1 .. 7
    BY DEF Tables
  <2>2. \A k \in ToSet(Tables) : \E i \in 1 .. 7 : Tables[i] = k
    BY <2>1 DEF ToSet
  <2>3. \A k \in ToSet(Tables) : TableRank[k] \in 1 .. 7
    BY <2>1, <2>2 DEF TableRank
  <2> QED BY <2>3
<1> HIDE DEF rank
<1>2. Above(0) /\ ~Above(8)
  BY <1>1
<1>3. ASSUME NEW n \in 0 .. 7, Above(n), ~Above(n + 1)
      PROVE  \E k \in left : \A j \in left : rank(k) >= rank(j)
  BY <1>1, <1>3
<1> HIDE DEF Above
<1>4. \E n \in 0 .. 7 : Above(n) /\ ~Above(n + 1)
  <2>1. /\ 0 + 1 = 1 /\ 1 + 1 = 2 /\ 2 + 1 = 3 /\ 3 + 1 = 4
        /\ 4 + 1 = 5 /\ 5 + 1 = 6 /\ 6 + 1 = 7 /\ 7 + 1 = 8
    OBVIOUS
  <2> QED BY <1>2, <2>1
<1>5. \E k \in left : \A j \in left : rank(k) >= rank(j)
  BY <1>3, <1>4
<1> QED BY <1>5 DEF rank

\* By then a statement has written every collected row an edge has led to.
LEMMA AllAreWritten ==
  ASSUME IInv, NEW c \in Callers, AllWritten(call[c]),
         NEW f \in since[c], f[3] \in call[c].refs
  PROVE  f[3] \in call[c].locks
<1>1. call[c].pc = "write" /\ call[c].op \in {"mark", "delete"} /\ Candidates(call[c]) = {}
  BY DEF AllWritten
<1> DEFINE left == {Kind[x] : x \in call[c].refs} \ call[c].done
<1>2. left \subseteq ToSet(Tables)
  BY LifecycleAssumption DEF IInv, TypeOK, Call
<1>3. left = {}
  <2>1. CASE call[c].op = "mark"
    BY <1>1, <2>1 DEF Candidates
  <2>2. CASE call[c].op # "mark"
    BY <1>1, <1>2, <2>2, LeafTable DEF Candidates
  <2> QED BY <2>1, <2>2
<1> QED BY <1>1, <1>3 DEF IInv, CallsInv, CallOK, WrittenOK, Closing

\* soft_delete and undelete write every row that was below the named ones all
\* along, for any graph of owners, members and foreign keys, however it moves.
THEOREM MarksReachBelow == Spec => MarkReachesAllBelow
<1>1. ASSUME IInv, [Next]_vars, NEW c \in Callers, CommitOf(c, "mark"),
             NEW e \in (Below(call[c].roots, since[c]) \ call[c].roots) \cap Rows
      PROVE  row'[e] = call[c].flag
  <2> DEFINE t == call[c]
             S == {x \in t.refs : x \in t.roots \/ \E f \in since[c] : f[3] = x}
  <2>1. /\ AllWritten(t) /\ t.op = "mark" /\ t.pc = "write" /\ t \in Call /\ Commit(c)
        /\ since[c] \subseteq Edges /\ CallOK(c) /\ RowsTyped
    BY <1>1, OnlyCommitEnds
       DEF CommitOf, AllWritten, IInv, TypeOK, CallsInv, CallOK, WrittenOK, RowsTyped
  <2>2. t.roots \subseteq t.refs /\ ~t.changed
    BY <2>1 DEF CallOK, ClosureOK
  <2>3. S \in SUBSET Entities /\ t.roots \subseteq S
    BY <2>1, <2>2 DEF Call
  <2>4. ASSUME NEW f \in since[c], f[1] \in S, f[2] \in ToSet(Followed[Kind[f[1]]])
        PROVE  f[3] \in S
    BY <2>1, <2>2, <2>4 DEF CallOK, ClosureOK, Collected
  <2>5. e \in S /\ e \notin t.roots
    <3> HIDE DEF S
    <3> QED BY <1>1, <2>3, <2>4 DEF Below
  <2>6. PICK f \in since[c] : f[3] = e
    BY <2>5
  <2>7. e \in t.locks
    BY <1>1, <2>1, <2>5, <2>6, AllAreWritten
  <2> QED BY <1>1, <2>1, <2>7, CommitRows DEF Gone, IInv, Rows
<1>2. IInv /\ [Next]_vars =>
        [\A c \in Callers : CommitOf(c, "mark") =>
           \A e \in (Below(call[c].roots, since[c]) \ call[c].roots) \cap Rows :
             row'[e] = call[c].flag]_vars
  BY <1>1
<1> QED BY <1>2, LifecycleHolds, PTL DEF Spec, MarkReachesAllBelow

\* No row is left that names a deleted one by a foreign key, or by any edge
\* references_to looks for and that was there since it began, cascades included.
THEOREM DeletesAreChecked == Spec => DeleteLeavesNoCheckedReference
<1>1. ASSUME IInv, [Next]_vars, NEW c \in Callers, CommitOf(c, "delete"),
             NEW x \in Rows, NEW e \in Entities, row'[x] = "absent", row'[e] # "absent"
      PROVE  /\ \A r \in ForeignKeys : <<x, r, e>> \notin Edges
             /\ \A r \in Checked[Kind[x]] : <<x, r, e>> \notin since[c]
  <2> DEFINE t == call[c]
  <2>1. /\ AllWritten(t) /\ t.op = "delete" /\ t.pc = "write" /\ t \in Call /\ Commit(c)
        /\ since[c] \subseteq Edges /\ CallOK(c) /\ RowsTyped /\ TypeOK /\ x \in Entities
    BY <1>1, OnlyCommitEnds
       DEF CommitOf, AllWritten, IInv, TypeOK, CallsInv, CallOK, WrittenOK, RowsTyped, Rows
  <2>2. x \in t.locks /\ (e \in Rows => e \notin t.locks)
    <3>1. row' = [y \in Entities |-> IF y \in Gone(t) THEN "absent"
                                    ELSE IF y \in t.locks THEN t.flag ELSE row[y]]
      BY <2>1, CommitRows
    <3>2. Gone(t) = t.locks
      BY <2>1 DEF Gone
    <3> QED BY <1>1, <2>1, <3>1, <3>2 DEF Rows
  <2>3. ASSUME NEW r \in ForeignKeys, <<x, r, e>> \in Edges
        PROVE  FALSE
    <3>1. x \in Named(e) /\ e \in Rows
      BY <2>1, <2>3, EdgeRows
    <3> QED BY <1>1, <2>1, <2>2, <3>1 DEF IInv, ForeignKeysInv
  <2>4. ASSUME NEW r \in Checked[Kind[x]], <<x, r, e>> \in since[c]
        PROVE  FALSE
    <3> DEFINE f == <<x, r, e>>
    <3>1. e \in Rows /\ f \in since[c] /\ f \in Edges /\ f[1] = x /\ f[2] = r /\ f[3] = e
      BY <2>1, <2>4, EdgeRows
    <3>2. e \notin t.refs
      BY <1>1, <2>1, <2>2, <3>1, AllAreWritten
    <3>3. x \notin t.refs
      BY <2>1, <2>4, <3>1, <3>2 DEF CallOK, CheckedOK
    <3>4. PICK p \in t.refs : p \in FkParents[x]
      BY <2>1, <2>2, <3>3 DEF CallOK, WrittenOK, Closing
    <3>5. /\ Kind[x] \in {"chapters", "paragraphs", "semantic_chunks"} /\ Kind[x] \in ToSet(Tables)
          /\ Kind[x] \in Checked[Kind[p]]
      BY <2>1, <3>4, KindsRead, LifecycleAssumption
    <3>6. CASE r \in ForeignKeys
      BY <2>3, <3>1, <3>6
    <3>7. CASE r = "link"
      <4>1. <<p, Kind[x], x>> \in since[c]
        BY <2>1, <3>1, <3>4, <3>7 DEF CallOK, CheckedOK
      <4> DEFINE g == <<p, Kind[x], x>>
      <4>2. g \in since[c] /\ g[1] = p /\ g[2] = Kind[x] /\ g[3] = x
        BY <4>1
      <4> QED BY <2>1, <3>3, <3>4, <3>5, <4>2 DEF CallOK, CheckedOK
    <3> QED BY <2>4, <3>5, <3>6, <3>7, RelationsOfKinds
  <2> QED BY <2>3, <2>4
<1>2. IInv /\ [Next]_vars =>
        [\A c \in Callers : CommitOf(c, "delete") =>
           \A x \in Rows, e \in Entities :
              row'[x] = "absent" /\ row'[e] # "absent" =>
                /\ \A r \in ForeignKeys : <<x, r, e>> \notin Edges
                /\ \A r \in Checked[Kind[x]] : <<x, r, e>> \notin since[c]]_vars
  BY <1>1
<1> QED BY <1>2, LifecycleHolds, PTL DEF Spec, DeleteLeavesNoCheckedReference

=============================================================================
