------------------------ MODULE DocumentMetadataProofs ------------------------
(***************************************************************************)
(* What metadata calls leave behind, proved for any document, chunks,      *)
(* callers, batches and rebinds.                                           *)
(*                                                                         *)
(* The invariant says of every open transaction what it would commit: the  *)
(* rows it has written are locked, so they are still what it found them to *)
(* be but for what it was asked to change; the items and the children it   *)
(* has passed are applied to what it has written; and its copy of a row is *)
(* the row's, or the row is stale.                                         *)
(***************************************************************************)
EXTENDS DocumentMetadata, SequenceTheorems, TLAPS

Fields == {"project", "category", "tags", "title"}

\* Functions from a part of S to T.
Partial(S, T) == UNION {[D -> T] : D \in SUBSET S}

BatchPc == {"read", "dictionary", "write"}
RebindPc == {"document", "project", "children", "kids"}
DeletePc == {"token", "delete"}

Tx == [pc : {"idle"} \cup BatchPc \cup RebindPc \cup DeletePc,
       items : Batches \cup {<<>>}, at : Nat, seen : Row \cup {Null},
       writes : Partial(Rows, Row \cup {Null}), stale : SUBSET Rows,
       made : SUBSET Categories, project : Projects \cup {Null},
       props : {<<>>} \cup {a.props : a \in Rebinds},
       kids : Partial(Chunks, Row), token : Versions \cup {Null}]

\* The columns and tag rows of chunk r say what its block_meta says, but for fields off.
Agrees(value, r, off) ==
  /\ <<r, "category">> \notin off => value.meta.category = value.column
  /\ <<r, "tags">> \notin off => value.meta.tags = value.tags

-----------------------------------------------------------------------------
(* A transaction t beside a table, the categories known and the fields off.  *)

\* What t was asked to change in r.
Asked(t, r, k) ==
  \/ k \in DOMAIN ChildUpdates(t)
  \/ \E i \in 1 .. Len(t.items) : t.items[i][1] = r /\ k \in DOMAIN t.items[i][2]

\* A row that t wrote and would commit.
WriteOK(t, r, table, known, off) ==
  /\ t.pc # "delete"
  /\ table[r] # Null
  /\ r \notin t.stale => \A k \in Fields :
       t.writes[r].meta[k] # table[r].meta[k] => Asked(t, r, k)
  /\ r \in Chunks =>
       /\ t.writes[r].column = t.writes[r].assigned
       /\ t.writes[r].assigned \in known \cup t.made
       /\ Agrees(t.writes[r], r, off \cup Drift(t))

WritesOK(t, table, known, off) ==
  \A r \in DOMAIN t.writes :
    IF t.writes[r] = Null THEN t.pc = "delete" ELSE WriteOK(t, r, table, known, off)

\* The items before t.at are applied, or name a chunk that is not there.
ItemOK(t, i, table) ==
  LET r == t.items[i][1]  patch == t.items[i][2]
  IN  \/ r \notin DOMAIN t.writes /\ table[r] = Null
      \/ /\ r \in DOMAIN t.writes
         /\ \A k \in DOMAIN patch :
              (\A j \in i + 1 .. t.at - 1 : t.items[j][1] = r => k \notin DOMAIN t.items[j][2])
              => t.writes[r].meta[k] = patch[k]

BatchOK(t, table, known) ==
  t.pc \in BatchPc =>
    /\ t.items \in Batches /\ t.at \in 1 .. Len(t.items) + 1
    /\ \A i \in 1 .. t.at - 1 : ItemOK(t, i, table)
    /\ t.pc # "read" =>
         /\ t.at <= Len(t.items) /\ t.seen \in Row
         /\ Target(t) \in DOMAIN t.writes => t.seen = t.writes[Target(t)]
    /\ t.pc = "write" =>
         \A k \in DOMAIN Patch(t) \cap {"category"} : Patch(t)[k] \in known \cup t.made

\* The document and the children passed have the updates, or are not there.
ReboundOK(t, table) ==
  /\ t.pc \in {"document", "project"} => DOMAIN t.writes = {}
  /\ t.pc = "project" => t.seen \in Row
  /\ t.pc = "children" => DOMAIN t.writes \subseteq {Doc}
  /\ t.pc \in {"children", "kids"} =>
       \/ Doc \notin DOMAIN t.writes /\ table[Doc] = Null
       \/ Doc \in DOMAIN t.writes /\ (t.project # Null => t.writes[Doc].meta.project = t.project)
  /\ t.pc = "kids" =>
       /\ DOMAIN t.kids \cap DOMAIN t.writes = {}
       /\ \A r \in Chunks \ DOMAIN t.kids :
            \/ r \notin DOMAIN t.writes /\ table[r] = Null
            \/ /\ r \in DOMAIN t.writes
               /\ \A k \in DOMAIN ChildUpdates(t) : t.writes[r].meta[k] = ChildUpdates(t)[k]

TxOK(t, table, known, off) ==
  /\ t \in Tx
  /\ t.pc = "idle" => t = Idle
  /\ t.pc \in RebindPc \cup DeletePc => t.made = {} /\ t.items = <<>>
  /\ t.pc \in BatchPc \cup DeletePc => t.project = Null /\ t.props = <<>>
  /\ t.pc = "token" => DOMAIN t.writes = {}
  /\ t.pc \in DeletePc => t.stale = {}
  /\ WritesOK(t, table, known, off)
  /\ BatchOK(t, table, known)
  /\ ReboundOK(t, table)

-----------------------------------------------------------------------------
(* The invariant.                                                           *)

\* Two transactions hold different rows and make different categories.
Apart(t, u) == DOMAIN t.writes \cap DOMAIN u.writes = {} /\ t.made \cap u.made = {}

Tables(table, known, off) ==
  /\ table \in [Rows -> Row \cup {Null}]
  /\ known \subseteq Categories /\ Uncategorized \in known
  /\ off \subseteq Chunks \X Doubled
  /\ \A r \in Chunks : table[r] # Null =>
       /\ table[Doc] # Null
       /\ table[r].assigned \in known
       /\ table[r].column = table[r].assigned
       /\ Agrees(table[r], r, off)

RowsOK ==
  /\ Tables(row, dict, adrift)
  /\ version \in Versions
  /\ calls \in [Callers -> Nat] /\ \A c \in Callers : calls[c] <= MaxCalls[c]

CallsOK ==
  /\ call \in [Callers -> Tx]
  /\ \A c \in Callers : TxOK(call[c], row, dict, adrift) /\ call[c].made \cap dict = {}
  /\ \A c \in Callers : \A d \in Callers \ {c} : Apart(call[c], call[d])

MetaInv == RowsOK /\ CallsOK

-----------------------------------------------------------------------------
(* Data.                                                                    *)

LEMMA PatchParts ==
  ASSUME NEW p \in Patches
  PROVE  /\ DOMAIN p \subseteq SafeFields
         /\ \A k \in DOMAIN p : p[k] \in Allowed(k)
<1>1. PICK ks \in SUBSET SafeFields : p \in [ks -> Categories \cup Values]
  BY DEF Patches
<1>2. DOMAIN p = ks
  BY <1>1
<1>3. \A k \in DOMAIN p : p[k] \in Allowed(k)
  BY DEF Patches
<1> QED
  BY <1>1, <1>2, <1>3

LEMMA ItemParts ==
  ASSUME NEW items \in Batches, NEW i \in 1 .. Len(items)
  PROVE  items[i][1] \in Chunks /\ items[i][2] \in Patches
<1>1. items \in Seq(Chunks \X Patches)
  BY MetadataAssumption
<1>2. items[i] \in Chunks \X Patches
  BY <1>1, ElementOfSeq
<1> QED
  BY <1>2

\* A merge is a block_meta again, with the fields of the patch and its own others.
LEMMA MergedIs ==
  ASSUME NEW m \in Meta, NEW p, \A k \in DOMAIN p : p[k] \in Allowed(k)
  PROVE  /\ Merged(m, p) \in Meta
         /\ \A k \in Fields : Merged(m, p)[k] = IF k \in DOMAIN p THEN p[k] ELSE m[k]
<1>1. DOMAIN m = Fields
  BY DEF Meta, Fields
<1>2. DOMAIN Merged(m, p) = Fields
  BY <1>1 DEF Merged
<1>3. \A k \in Fields : Merged(m, p)[k] = IF k \in DOMAIN p THEN p[k] ELSE m[k]
  BY <1>1 DEF Merged
<1>4. /\ Merged(m, p)["project"] \in Projects \cup {Null}
      /\ Merged(m, p)["category"] \in Categories \cup {Null}
      /\ Merged(m, p)["tags"] \in Values \cup {Null}
      /\ Merged(m, p)["title"] \in Values \cup {Null}
  BY <1>3 DEF Fields, Meta, Allowed
<1>5. Merged(m, p) = [project |-> Merged(m, p)["project"], category |-> Merged(m, p)["category"],
                      tags |-> Merged(m, p)["tags"], title |-> Merged(m, p)["title"]]
  BY <1>1, <1>2 DEF Merged, Fields
<1>6. Merged(m, p) \in Meta
  BY <1>4, <1>5 DEF Meta
<1> QED
  BY <1>3, <1>6

\* A row with another block_meta.
LEMMA WithMeta ==
  ASSUME NEW now \in Row, NEW m \in Meta
  PROVE  LET new == [now EXCEPT !.meta = m]
         IN  /\ new \in Row /\ new.meta = m /\ new.column = now.column
             /\ new.assigned = now.assigned /\ new.tags = now.tags
  BY DEF Row

\* _update_one writes block_meta, and what the patch names beside it.
LEMMA WrittenIs ==
  ASSUME NEW now \in Row, NEW saw \in Row, NEW patch \in Patches
  PROVE  /\ Written(now, saw, patch) \in Row
         /\ Written(now, saw, patch).meta = Merged(saw.meta, patch)
         /\ Written(now, saw, patch).column =
              IF "category" \in DOMAIN patch THEN patch["category"] ELSE now.column
         /\ Written(now, saw, patch).assigned =
              IF "category" \in DOMAIN patch THEN patch["category"] ELSE now.assigned
         /\ Written(now, saw, patch).tags =
              IF "tags" \in DOMAIN patch THEN patch["tags"] ELSE now.tags
<1>1. \A k \in DOMAIN patch : patch[k] \in Allowed(k)
  BY PatchParts
<1>2. PICK m \in Meta : m = Merged(saw.meta, patch)
  BY <1>1, MergedIs DEF Row
<1>3. "category" \in DOMAIN patch => patch["category"] \in Categories
  BY <1>1 DEF Allowed
<1>4. "tags" \in DOMAIN patch => patch["tags"] \in Values
  BY <1>1 DEF Allowed
<1>5. Written(now, saw, patch).meta = Merged(saw.meta, patch)
  BY DEF Written, Row
<1>6. Written(now, saw, patch).column =
        IF "category" \in DOMAIN patch THEN patch["category"] ELSE now.column
  BY DEF Written, Row
<1>7. Written(now, saw, patch).assigned =
        IF "category" \in DOMAIN patch THEN patch["category"] ELSE now.assigned
  BY DEF Written, Row
<1>8. Written(now, saw, patch).tags =
        IF "tags" \in DOMAIN patch THEN patch["tags"] ELSE now.tags
  BY DEF Written, Row
<1>9. Written(now, saw, patch) \in Row
  BY <1>2, <1>3, <1>4 DEF Written, Row
<1> QED
  BY <1>5, <1>6, <1>7, <1>8, <1>9

\* entity_update's reset of a row
LEMMA ResetIs ==
  ASSUME NEW value \in Row
  PROVE  /\ Reset(value) \in Row /\ Reset(value).assigned = Uncategorized
         /\ Reset(value).column = Uncategorized
         /\ \A r, off : Agrees(Reset(value), r, off)
<1>1. Uncategorized \in Categories
  BY MetadataAssumption
<1>2. PICK m : m = [value.meta EXCEPT !.category = Uncategorized, !.tags = Null, !.title = Null]
  OBVIOUS
<1>3. m \in Meta /\ m.category = Uncategorized /\ m.tags = Null
  BY <1>1, <1>2 DEF Row, Meta
<1>4. Reset(value) = [value EXCEPT !.meta = m, !.column = Uncategorized,
                                   !.assigned = Uncategorized, !.tags = Null]
  BY <1>2 DEF Reset
<1> QED
  BY <1>1, <1>3, <1>4 DEF Row, Agrees

LEMMA NewRows ==
  /\ NewDoc \in Row
  /\ NewChunk(Uncategorized) \in Row
  /\ NewChunk(Uncategorized).assigned = Uncategorized
  /\ NewChunk(Uncategorized).column = Uncategorized
  /\ \A r, off : Agrees(NewChunk(Uncategorized), r, off)
<1>1. Uncategorized \in Categories /\ SourceTags \in Values
  BY MetadataAssumption
<1> QED
  BY <1>1 DEF NewDoc, NewChunk, NewMeta, Row, Meta, Agrees

LEMMA RowsAreThere == \A value \in Row : value # Null
  BY NullAssumption

LEMMA PartialIs ==
  ASSUME NEW S, NEW T, NEW f
  PROVE  f \in Partial(S, T) <=>
           /\ f = [x \in DOMAIN f |-> f[x]]
           /\ DOMAIN f \subseteq S /\ \A x \in DOMAIN f : f[x] \in T
  BY DEF Partial

\* One more row is written.
LEMMA PartialPut ==
  ASSUME NEW f \in Partial(Rows, Row \cup {Null}), NEW r \in Rows, NEW value \in Row \cup {Null}
  PROVE  /\ Over(Of(r, value), f) \in Partial(Rows, Row \cup {Null})
         /\ DOMAIN Over(Of(r, value), f) = DOMAIN f \cup {r}
         /\ Over(Of(r, value), f)[r] = value
         /\ \A x \in DOMAIN f \ {r} : Over(Of(r, value), f)[x] = f[x]
<1> DEFINE g == Over(Of(r, value), f)
<1>1. DOMAIN f \subseteq Rows /\ \A x \in DOMAIN f : f[x] \in Row \cup {Null}
  BY PartialIs
<1>2. /\ g = [x \in DOMAIN g |-> g[x]] /\ DOMAIN g = DOMAIN f \cup {r}
      /\ g[r] = value /\ \A x \in DOMAIN f \ {r} : g[x] = f[x]
  BY DEF Of, Over
<1>3. g \in Partial(Rows, Row \cup {Null})
  <2> HIDE DEF g
  <2>1. DOMAIN g \subseteq Rows /\ \A x \in DOMAIN g : g[x] \in Row \cup {Null}
    BY <1>1, <1>2
  <2> QED
    BY <1>2, <2>1, PartialIs
<1> QED
  BY <1>2, <1>3

\* What a commit makes of a row.
LEMMA CommittedIs ==
  ASSUME NEW f, NEW g
  PROVE  /\ DOMAIN Over(f, g) = DOMAIN f \cup DOMAIN g
         /\ \A x \in DOMAIN f : Over(f, g)[x] = f[x]
         /\ \A x \in DOMAIN g \ DOMAIN f : Over(f, g)[x] = g[x]
         /\ Over(f, g) = [x \in DOMAIN f \cup DOMAIN g |-> Over(f, g)[x]]
  BY DEF Over

LEMMA RestrictIs ==
  ASSUME NEW f \in Partial(Chunks, Row), NEW r
  PROVE  /\ Restrict(f, DOMAIN f \ {r}) \in Partial(Chunks, Row)
         /\ DOMAIN Restrict(f, DOMAIN f \ {r}) = DOMAIN f \ {r}
         /\ \A x \in DOMAIN f \ {r} : Restrict(f, DOMAIN f \ {r})[x] = f[x]
<1> DEFINE g == Restrict(f, DOMAIN f \ {r})
<1>1. DOMAIN f \subseteq Chunks /\ \A x \in DOMAIN f : f[x] \in Row
  BY PartialIs
<1>2. /\ g = [x \in DOMAIN g |-> g[x]] /\ DOMAIN g = DOMAIN f \ {r}
      /\ \A x \in DOMAIN g : g[x] = f[x]
  BY DEF Restrict
<1>3. g \in Partial(Chunks, Row)
  <2> HIDE DEF g
  <2>1. DOMAIN g \subseteq Chunks /\ \A x \in DOMAIN g : g[x] \in Row
    BY <1>1, <1>2
  <2> QED
    BY <1>2, <2>1, PartialIs
<1> QED
  BY <1>2, <1>3

-----------------------------------------------------------------------------
(* Transactions.                                                            *)

LEMMA ChildUpdatesIs ==
  ASSUME NEW t \in Tx
  PROVE  /\ DOMAIN ChildUpdates(t) \subseteq Fields
         /\ \A k \in DOMAIN ChildUpdates(t) : ChildUpdates(t)[k] \in Allowed(k)
         /\ t.project # Null => "project" \in DOMAIN ChildUpdates(t)
         /\ \A k \in Doubled \cap DOMAIN ChildUpdates(t) : k \in DOMAIN t.props
<1>1. t.props \in {<<>>} \cup {a.props : a \in Rebinds} /\ t.project \in Projects \cup {Null}
  BY DEF Tx
<1>2. DOMAIN <<>> = {}
  OBVIOUS
<1>3. DOMAIN t.props \subseteq Fields /\ \A k \in DOMAIN t.props : t.props[k] \in Allowed(k)
  BY <1>1, <1>2, MetadataAssumption DEF SafeFields, Fields
<1>4. CASE t.project = Null
  <2>1. DOMAIN ChildUpdates(t) = DOMAIN t.props
        /\ \A k \in DOMAIN t.props : ChildUpdates(t)[k] = t.props[k]
    BY <1>2, <1>4 DEF ChildUpdates, Over
  <2> QED
    BY <1>3, <1>4, <2>1 DEF Doubled
<1>5. CASE t.project # Null
  <2>1. /\ DOMAIN ChildUpdates(t) = DOMAIN t.props \cup {"project"}
        /\ \A k \in DOMAIN t.props : ChildUpdates(t)[k] = t.props[k]
        /\ "project" \notin DOMAIN t.props => ChildUpdates(t)["project"] = t.project
    BY <1>5 DEF ChildUpdates, Over, Of
  <2>2. t.project \in Allowed("project")
    BY <1>1, <1>5 DEF Allowed
  <2> QED
    BY <1>3, <2>1, <2>2 DEF Fields, Doubled
<1> QED
  BY <1>4, <1>5

\* What a transaction leaves apart of a chunk.
LEMMA DriftIs ==
  ASSUME NEW t, NEW r \in Chunks, NEW k \in Doubled
  PROVE  <<r, k>> \in Drift(t) <=>
           \/ r \in t.stale
           \/ r \in DOMAIN t.writes /\ k \in DOMAIN t.props
<1>1. <<r, k>> \in (t.stale \cap Chunks) \X Doubled <=> r \in t.stale
  OBVIOUS
<1>2. <<r, k>> \in (DOMAIN t.writes \cap Chunks) \X (DOMAIN t.props \cap Doubled) <=>
        r \in DOMAIN t.writes /\ k \in DOMAIN t.props
  OBVIOUS
<1> QED
  BY <1>1, <1>2 DEF Drift

LEMMA DriftGrows ==
  ASSUME NEW t, NEW u, u.props = t.props, t.stale \subseteq u.stale,
         DOMAIN t.writes \subseteq DOMAIN u.writes
  PROVE  Drift(t) \subseteq Drift(u)
BY DEF Drift

\* The fewer fields are off, the more must agree.
LEMMA AgreesWithin ==
  ASSUME NEW value, NEW r, NEW off, NEW off2, Agrees(value, r, off),
         \A k \in Doubled : <<r, k>> \in off => <<r, k>> \in off2
  PROVE  Agrees(value, r, off2)
BY DEF Agrees, Doubled

LEMMA IdleOK ==
  ASSUME NEW table, NEW known, NEW off
  PROVE  Idle \in Tx /\ TxOK(Idle, table, known, off) /\ DOMAIN Idle.writes = {} /\ Idle.made = {}
<1>1. DOMAIN <<>> = {} /\ <<>> = [x \in {} |-> x]
  OBVIOUS
<1>2. <<>> \in Partial(Rows, Row \cup {Null}) /\ <<>> \in Partial(Chunks, Row)
  BY <1>1 DEF Partial
<1>3. Idle \in Tx
  BY <1>2 DEF Idle, Tx
<1> QED
  BY <1>1, <1>3 DEF Idle, TxOK, WritesOK, BatchOK, ReboundOK, BatchPc, RebindPc, DeletePc

\* What others write, create and set adrift or right does not touch t, which holds
\* its rows.
LEMMA OthersKept ==
  ASSUME NEW t, NEW table, NEW known, NEW off, NEW table2, NEW known2, NEW off2,
         TxOK(t, table, known, off),
         \A r \in DOMAIN t.writes : table2[r] = table[r],
         \A r \in Rows : table[r] = Null => table2[r] = Null,
         known \subseteq known2,
         \A r \in DOMAIN t.writes, k \in Doubled : <<r, k>> \in off => <<r, k>> \in off2
  PROVE  TxOK(t, table2, known2, off2)
<1>1. t \in Tx /\ DOMAIN t.writes \subseteq Rows
  BY PartialIs DEF TxOK, Tx
<1>2. WritesOK(t, table2, known2, off2)
  <2>1. WritesOK(t, table, known, off)
    BY DEF TxOK
  <2>2. ASSUME NEW r \in DOMAIN t.writes, WriteOK(t, r, table, known, off)
        PROVE  WriteOK(t, r, table2, known2, off2)
    <3>1. \A k \in Doubled : <<r, k>> \in off \cup Drift(t) => <<r, k>> \in off2 \cup Drift(t)
      OBVIOUS
    <3>2. r \in Chunks => Agrees(t.writes[r], r, off2 \cup Drift(t))
      BY <2>2, <3>1, AgreesWithin DEF WriteOK
    <3> QED
      BY <2>2, <3>2 DEF WriteOK
  <2> QED
    BY <2>1, <2>2 DEF WritesOK
<1>3. ASSUME t.pc \in BatchPc, NEW i \in 1 .. t.at - 1
      PROVE  ItemOK(t, i, table2)
  <2>1. t.items \in Batches /\ t.at \in 1 .. Len(t.items) + 1 /\ ItemOK(t, i, table)
    BY <1>3 DEF TxOK, BatchOK
  <2>2. t.items[i][1] \in Rows
    <3>1. Len(t.items) \in Nat
      BY <2>1, MetadataAssumption, LenProperties
    <3>2. i \in 1 .. Len(t.items)
      BY <2>1, <3>1
    <3> QED
      BY <2>1, <3>2, ItemParts DEF Rows
  <2> QED
    BY <2>1, <2>2 DEF ItemOK
<1>4. BatchOK(t, table2, known2)
  BY <1>3 DEF TxOK, BatchOK
<1>5. ReboundOK(t, table2)
  BY DEF TxOK, ReboundOK, Rows
<1> QED
  BY <1>1, <1>2, <1>4, <1>5 DEF TxOK

\* A transaction goes on and nothing is committed.
LEMMA GotoKeeps ==
  ASSUME MetaInv, NEW c \in Callers, NEW t, call' = [call EXCEPT ![c] = t],
         UNCHANGED <<row, version, dict, adrift>>,
         calls' \in [Callers -> Nat], \A d \in Callers : calls'[d] <= MaxCalls[d],
         TxOK(t, row, dict, adrift), t.made \cap dict = {},
         \A d \in Callers \ {c} : Apart(t, call[d])
  PROVE  MetaInv'
<1>1. RowsOK'
  BY DEF MetaInv, RowsOK
<1>2. t \in Tx
  BY DEF TxOK
<1>3. /\ call' \in [Callers -> Tx] /\ call'[c] = t
      /\ \A d \in Callers \ {c} : call'[d] = call[d]
  BY <1>2 DEF MetaInv, CallsOK
<1>4. ASSUME NEW d \in Callers
      PROVE  TxOK(call'[d], row', dict', adrift') /\ call'[d].made \cap dict' = {}
  BY <1>3 DEF MetaInv, CallsOK
<1>5. ASSUME NEW d \in Callers, NEW e \in Callers \ {d}
      PROVE  Apart(call'[d], call'[e])
  BY <1>3 DEF MetaInv, CallsOK, Apart
<1> QED
  BY <1>1, <1>3, <1>4, <1>5 DEF MetaInv, CallsOK

\* An abort, and the end of a call that wrote nothing.
LEMMA AbortKeeps ==
  ASSUME MetaInv, NEW c \in Callers, Abort(c)
  PROVE  MetaInv'
<1>1. TxOK(Idle, row, dict, adrift) /\ DOMAIN Idle.writes = {} /\ Idle.made = {}
  BY IdleOK
<1> QED
  BY <1>1, GotoKeeps DEF Abort, Goto, Apart, MetaInv, RowsOK

\* Between two statements a transaction keeps what it has, and another write or a
\* new category must be nobody else's.
LEMMA StepKeeps ==
  ASSUME MetaInv, NEW c \in Callers, NEW t, Goto(c, t),
         TxOK(t, row, dict, adrift),
         t.made \subseteq call[c].made \/ \A d \in Callers \ {c} : t.made \cap call[d].made = {},
         t.made \cap dict = {},
         DOMAIN t.writes \subseteq DOMAIN call[c].writes \cup (Rows \ Locked(c))
  PROVE  MetaInv'
<1>1. ASSUME NEW d \in Callers \ {c}
      PROVE  Apart(t, call[d])
  <2>1. Apart(call[c], call[d])
    BY DEF MetaInv, CallsOK
  <2>2. DOMAIN call[d].writes \subseteq Locked(c)
    BY DEF Locked
  <2> QED
    BY <2>1, <2>2 DEF Apart
<1> QED
  BY <1>1, GotoKeeps DEF Goto, MetaInv, RowsOK

\* Rows that change are nobody's, or their writer's who lets go of them.
LEMMA RowsChange ==
  ASSUME MetaInv, NEW c \in Callers, NEW R \in SUBSET Rows,
         Tables(row', dict', adrift'), version' \in Versions,
         calls' \in [Callers -> Nat], \A d \in Callers : calls'[d] <= MaxCalls[d],
         call' = [call EXCEPT ![c] = Idle],
         \A r \in Rows \ R : row'[r] = row[r], \A r \in R : row[r] = Null => row'[r] = Null,
         \A d \in Callers \ {c} : DOMAIN call[d].writes \cap R = {},
         dict \subseteq dict', dict' \subseteq dict \cup call[c].made,
         \A r \in Rows \ R, k \in Doubled : <<r, k>> \in adrift => <<r, k>> \in adrift'
  PROVE  MetaInv'
<1>1. TxOK(Idle, row', dict', adrift') /\ Idle \in Tx /\ DOMAIN Idle.writes = {} /\ Idle.made = {}
  BY IdleOK
<1>2. /\ call' \in [Callers -> Tx] /\ call'[c] = Idle
      /\ \A d \in Callers \ {c} : call'[d] = call[d]
  BY <1>1 DEF MetaInv, CallsOK
<1>3. ASSUME NEW d \in Callers \ {c}
      PROVE  TxOK(call[d], row', dict', adrift') /\ call[d].made \cap dict' = {}
  <2>1. /\ TxOK(call[d], row, dict, adrift) /\ call[d].made \cap dict = {}
        /\ Apart(call[c], call[d])
    BY DEF MetaInv, CallsOK
  <2>2. DOMAIN call[d].writes \subseteq Rows
    BY <2>1, PartialIs DEF TxOK, Tx
  <2>3. \A r \in DOMAIN call[d].writes : row'[r] = row[r]
    BY <2>2
  <2>4. \A r \in Rows : row[r] = Null => row'[r] = Null
    OBVIOUS
  <2>5. \A r \in DOMAIN call[d].writes, k \in Doubled : <<r, k>> \in adrift => <<r, k>> \in adrift'
    BY <2>2
  <2>6. TxOK(call[d], row', dict', adrift')
    BY <2>1, <2>3, <2>4, <2>5, OthersKept
  <2> QED
    BY <2>1, <2>6 DEF Apart
<1>4. ASSUME NEW d \in Callers
      PROVE  TxOK(call'[d], row', dict', adrift') /\ call'[d].made \cap dict' = {}
  BY <1>1, <1>2, <1>3
<1>5. ASSUME NEW d \in Callers, NEW e \in Callers \ {d}
      PROVE  Apart(call'[d], call'[e])
  BY <1>1, <1>2 DEF MetaInv, CallsOK, Apart
<1>6. CallsOK'
  BY <1>2, <1>4, <1>5 DEF CallsOK
<1> QED
  BY <1>6 DEF MetaInv, RowsOK

\* What a transaction has written, as the table takes it over.
LEMMA CommitWrites ==
  ASSUME MetaInv, NEW c \in Callers, Commit(c)
  PROVE  /\ row' \in [Rows -> Row \cup {Null}] /\ DOMAIN call[c].writes \subseteq Rows
         /\ \A r \in DOMAIN call[c].writes : row'[r] = call[c].writes[r]
         /\ \A r \in Rows \ DOMAIN call[c].writes : row'[r] = row[r]
<1>1. call[c] \in Tx /\ row \in [Rows -> Row \cup {Null}]
  BY DEF MetaInv, RowsOK, CallsOK, Tables
<1>2. /\ DOMAIN call[c].writes \subseteq Rows
      /\ \A r \in DOMAIN call[c].writes : call[c].writes[r] \in Row \cup {Null}
  BY <1>1, PartialIs DEF Tx
<1>3. row' = Over(call[c].writes, row)
  BY DEF Commit
<1>4. /\ DOMAIN row' = Rows
      /\ \A r \in DOMAIN call[c].writes : row'[r] = call[c].writes[r]
      /\ \A r \in Rows \ DOMAIN call[c].writes : row'[r] = row[r]
      /\ row' = [r \in Rows |-> row'[r]]
  BY <1>1, <1>2, <1>3 DEF Over
<1>5. \A r \in Rows : row'[r] \in Row \cup {Null}
  BY <1>1, <1>2, <1>4
<1> QED
  BY <1>2, <1>4, <1>5

LEMMA CommitKeeps ==
  ASSUME MetaInv, NEW c \in Callers, Commit(c),
         call[c].pc = "delete" => DOMAIN call[c].writes = Rows
  PROVE  MetaInv'
<1> DEFINE t == call[c]
           R == DOMAIN t.writes
<1>1. /\ row' \in [Rows -> Row \cup {Null}] /\ R \subseteq Rows
      /\ \A r \in R : row'[r] = t.writes[r]
      /\ \A r \in Rows \ R : row'[r] = row[r]
  BY CommitWrites
<1>2. /\ t \in Tx /\ WritesOK(t, row, dict, adrift) /\ t.made \subseteq Categories
      /\ Tables(row, dict, adrift)
  BY DEF MetaInv, RowsOK, CallsOK, TxOK, Tx
<1>3. /\ dict' = dict \cup t.made /\ adrift' = adrift \cup Drift(t)
      /\ call' = [call EXCEPT ![c] = Idle] /\ UNCHANGED <<version, calls>>
  BY DEF Commit
<1>4. ASSUME NEW r \in R
      PROVE  IF row'[r] = Null THEN t.pc = "delete" ELSE WriteOK(t, r, row, dict, adrift)
  BY <1>1, <1>2 DEF WritesOK
<1>5. \A r \in R : row[r] = Null => row'[r] = Null
  BY <1>4 DEF WriteOK
<1>6. \A d \in Callers \ {c} : DOMAIN call[d].writes \cap R = {}
  BY DEF MetaInv, CallsOK, Apart
<1>7. ASSUME NEW r \in Chunks, row'[r] # Null
      PROVE  /\ row'[Doc] # Null /\ row'[r].assigned \in dict'
             /\ row'[r].column = row'[r].assigned
             /\ Agrees(row'[r], r, adrift')
  <2>1. r \in Rows /\ Doc \in Rows
    BY DEF Rows
  <2>2. row[r] # Null
    BY <1>1, <1>5, <1>7, <2>1
  <2>3. row[Doc] # Null
    BY <1>2, <2>2 DEF Tables
  <2>4. row'[Doc] # Null
    <3>1. CASE Doc \in R
      <4>1. SUFFICES ASSUME row'[Doc] = Null
                     PROVE  FALSE
        OBVIOUS
      <4>2. t.pc = "delete" /\ r \in R
        BY <1>4, <2>1, <3>1, <4>1
      <4> QED
        BY <1>4, <1>7, <4>2 DEF WriteOK
    <3>2. CASE Doc \notin R
      BY <1>1, <2>1, <2>3, <3>2
    <3> QED
      BY <3>1, <3>2
  <2>5. CASE r \in R
    <3>1. WriteOK(t, r, row, dict, adrift) /\ row'[r] = t.writes[r]
      BY <1>1, <1>4, <1>7, <2>5
    <3> QED
      BY <1>3, <2>4, <3>1 DEF WriteOK
  <2>6. CASE r \notin R
    <3>1. row'[r] = row[r]
      BY <1>1, <2>1, <2>6
    <3>2. \A k \in Doubled : <<r, k>> \in adrift => <<r, k>> \in adrift'
      BY <1>3
    <3>3. Agrees(row'[r], r, adrift')
      BY <1>2, <2>2, <3>1, <3>2, AgreesWithin DEF Tables
    <3> QED
      BY <1>2, <1>3, <2>2, <2>4, <3>1, <3>3 DEF Tables
  <2> QED
    BY <2>5, <2>6
<1>8. Tables(row', dict', adrift')
  <2>1. Drift(t) \subseteq Chunks \X Doubled
    BY DEF Drift
  <2> QED
    BY <1>1, <1>2, <1>3, <1>7, <2>1 DEF Tables
<1>9. version' \in Versions /\ calls' \in [Callers -> Nat] /\ \A d \in Callers : calls'[d] <= MaxCalls[d]
  BY <1>3 DEF MetaInv, RowsOK
<1>10. /\ dict \subseteq dict' /\ dict' \subseteq dict \cup call[c].made
       /\ \A r \in Rows \ R, k \in Doubled : <<r, k>> \in adrift => <<r, k>> \in adrift'
  BY <1>3
<1> HIDE DEF R
<1> QED
  BY <1>1, <1>3, <1>5, <1>6, <1>8, <1>9, <1>10, RowsChange

-----------------------------------------------------------------------------
(* The writers that are one statement.                                      *)

\* One row gets another value under its lock.
LEMMA AtOnceKeeps ==
  ASSUME MetaInv, NEW c \in Callers, NEW r \in Rows, AtOnce(c, r), NEW value \in Row,
         row' = [row EXCEPT ![r] = value],
         adrift' \subseteq Chunks \X Doubled,
         \A x \in Rows \ {r}, k \in Doubled : <<x, k>> \in adrift => <<x, k>> \in adrift',
         r \in Chunks => /\ value.assigned \in dict /\ value.column = value.assigned
                         /\ Agrees(value, r, adrift')
  PROVE  MetaInv'
<1>1. /\ call[c].pc = "idle" /\ calls[c] < MaxCalls[c] /\ row[r] # Null /\ r \notin Locked(c)
      /\ calls' = [calls EXCEPT ![c] = @ + 1] /\ UNCHANGED <<version, dict, call>>
  BY DEF AtOnce
<1>2. /\ Tables(row, dict, adrift) /\ call \in [Callers -> Tx] /\ call[c] = Idle
      /\ version \in Versions
      /\ calls \in [Callers -> Nat] /\ \A d \in Callers : calls[d] <= MaxCalls[d]
  BY <1>1 DEF MetaInv, RowsOK, CallsOK, TxOK
<1>3. Doc \in Rows /\ value # Null
  BY RowsAreThere DEF Rows
<1>4. /\ row' \in [Rows -> Row \cup {Null}] /\ row'[r] = value
      /\ \A x \in Rows \ {r} : row'[x] = row[x]
  BY <1>2 DEF Tables
<1>5. ASSUME NEW x \in Chunks, row'[x] # Null
      PROVE  /\ row'[Doc] # Null /\ row'[x].assigned \in dict
             /\ row'[x].column = row'[x].assigned /\ Agrees(row'[x], x, adrift')
  <2>1. x \in Rows /\ row[x] # Null
    BY <1>1, <1>4, <1>5 DEF Rows
  <2>2. row'[Doc] # Null
    BY <1>2, <1>3, <1>4, <2>1 DEF Tables
  <2>3. CASE x = r
    BY <1>4, <2>2, <2>3
  <2>4. CASE x # r
    <3>1. row'[x] = row[x] /\ \A k \in Doubled : <<x, k>> \in adrift => <<x, k>> \in adrift'
      BY <1>4, <2>1, <2>4
    <3>2. Agrees(row'[x], x, adrift')
      BY <1>2, <2>1, <3>1, AgreesWithin DEF Tables
    <3> QED
      BY <1>2, <2>1, <2>2, <3>1, <3>2 DEF Tables
  <2> QED
    BY <2>3, <2>4
<1>6. Tables(row', dict', adrift')
  BY <1>1, <1>2, <1>4, <1>5 DEF Tables
<1>7. calls' \in [Callers -> Nat] /\ \A d \in Callers : calls'[d] <= MaxCalls[d]
  BY <1>1, <1>2, MetadataAssumption
<1>8. call' = [call EXCEPT ![c] = Idle]
  BY <1>1, <1>2
<1>9. \A d \in Callers \ {c} : DOMAIN call[d].writes \cap {r} = {}
  BY <1>1 DEF Locked
<1>10. {r} \in SUBSET Rows /\ \A x \in {r} : row[x] = Null => row'[x] = Null
  BY <1>1
<1>11. dict \subseteq dict' /\ dict' \subseteq dict \cup call[c].made /\ version' \in Versions
  BY <1>1, <1>2
<1>12. \A x \in Rows \ {r} : row'[x] = row[x]
  BY <1>4
<1> QED
  BY <1>6, <1>7, <1>8, <1>9, <1>10, <1>11, <1>12, RowsChange

\* The row such a call finds.
LEMMA FoundRow ==
  ASSUME MetaInv, NEW c \in Callers, NEW r \in Rows, AtOnce(c, r)
  PROVE  /\ row[r] \in Row /\ adrift \subseteq Chunks \X Doubled
         /\ r \in Chunks => /\ row[r].assigned \in dict /\ row[r].column = row[r].assigned
                            /\ Agrees(row[r], r, adrift)
BY DEF AtOnce, MetaInv, RowsOK, Tables

\* entity_update of block_meta
LEMMA UpdateMetaKeeps ==
  ASSUME MetaInv, NEW c \in Callers, NEW r \in Rows, NEW given \in Overwrites,
         UpdateMeta(c, r, given)
  PROVE  MetaInv'
<1>1. AtOnce(c, r) /\ adrift' = adrift \cup (({r} \cap Chunks) \X Doubled)
  BY DEF UpdateMeta
<1>2. given \in Meta /\ row[r] \in Row
  BY <1>1, FoundRow, OverwritesAssumption
<1>3. PICK value \in Row : /\ value = [row[r] EXCEPT !.meta = given]
                           /\ value.column = row[r].column /\ value.assigned = row[r].assigned
  BY <1>2, WithMeta
<1>4. row' = [row EXCEPT ![r] = value]
  BY <1>3 DEF UpdateMeta
<1>5. r \in Chunks => Agrees(value, r, adrift')
  BY <1>1 DEF Agrees, Doubled
<1>6. adrift' \subseteq Chunks \X Doubled
  BY <1>1, FoundRow
<1>7. \A x \in Rows \ {r}, k \in Doubled : <<x, k>> \in adrift => <<x, k>> \in adrift'
  BY <1>1
<1> QED
  BY <1>1, <1>3, <1>4, <1>5, <1>6, <1>7, FoundRow, AtOnceKeeps

\* entity_update of the text
LEMMA UpdateTextKeeps ==
  ASSUME MetaInv, NEW c \in Callers, NEW r \in Chunks, NEW given \in Overwrites \cup {Null},
         UpdateText(c, r, given)
  PROVE  MetaInv'
<1>1. /\ AtOnce(c, r) /\ adrift' = adrift \ ({r} \X Doubled) /\ r \in Rows
      /\ Uncategorized \in dict
  BY DEF UpdateText, Rows, MetaInv, RowsOK, Tables
<1>2. PICK found : found = IF given = Null THEN row[r] ELSE [row[r] EXCEPT !.meta = given]
  OBVIOUS
<1>3. found \in Row
  <2>1. row[r] \in Row
    BY <1>1, FoundRow
  <2>2. given # Null => given \in Meta
    BY OverwritesAssumption
  <2> QED
    BY <1>2, <2>1, <2>2, WithMeta
<1>4. PICK value \in Row : /\ value = Reset(found) /\ value.assigned = Uncategorized
                           /\ value.column = Uncategorized /\ Agrees(value, r, adrift')
  BY <1>3, ResetIs
<1>5. row' = [row EXCEPT ![r] = value]
  BY <1>2, <1>4 DEF UpdateText
<1>6. adrift' \subseteq Chunks \X Doubled
  BY <1>1, FoundRow
<1>7. \A x \in Rows \ {r}, k \in Doubled : <<x, k>> \in adrift => <<x, k>> \in adrift'
  BY <1>1
<1> QED
  BY <1>1, <1>4, <1>5, <1>6, <1>7, AtOnceKeeps

\* _activate and _invalidate_derived_rows
LEMMA ActivateVersionKeeps ==
  ASSUME MetaInv, NEW c \in Callers, NEW r \in Chunks, ActivateVersion(c, r)
  PROVE  MetaInv'
<1>1. AtOnce(c, r) /\ adrift' = adrift \cup {<<r, "tags">>} /\ r \in Rows
  BY DEF ActivateVersion, Rows
<1>2. /\ row[r] \in Row /\ row[r].assigned \in dict /\ row[r].column = row[r].assigned
      /\ Agrees(row[r], r, adrift) /\ adrift \subseteq Chunks \X Doubled
  BY <1>1, FoundRow
<1>3. PICK value \in Row : /\ value = [row[r] EXCEPT !.tags = Null] /\ value.meta = row[r].meta
                           /\ value.column = row[r].column /\ value.assigned = row[r].assigned
  <2>1. PICK value : value = [row[r] EXCEPT !.tags = Null]
    OBVIOUS
  <2>2. /\ value \in Row /\ value.meta = row[r].meta
        /\ value.column = row[r].column /\ value.assigned = row[r].assigned
    BY <1>2, <2>1 DEF Row
  <2> QED
    BY <2>1, <2>2
<1>4. row' = [row EXCEPT ![r] = value]
  BY <1>3 DEF ActivateVersion
<1>5. Agrees(value, r, adrift')
  BY <1>1, <1>2, <1>3 DEF Agrees
<1>6. adrift' \subseteq Chunks \X Doubled
  BY <1>1, <1>2 DEF Doubled
<1>7. \A x \in Rows \ {r}, k \in Doubled : <<x, k>> \in adrift => <<x, k>> \in adrift'
  BY <1>1
<1> QED
  BY <1>1, <1>2, <1>3, <1>4, <1>5, <1>6, <1>7, AtOnceKeeps

LEMMA PublishKeeps ==
  ASSUME MetaInv, NEW v \in Versions, PublishVersion(v)
  PROVE  MetaInv'
<1>1. /\ row[Doc] # Null /\ version' = v /\ row' = [row EXCEPT ![Doc] = NewDoc]
      /\ \A c \in Callers : Doc \notin DOMAIN call[c].writes
      /\ UNCHANGED <<dict, call, calls, adrift>>
  BY DEF PublishVersion
<1>2. Tables(row, dict, adrift) /\ Doc \in Rows /\ Doc \notin Chunks /\ NewDoc \in Row /\ NewDoc # Null
  BY NewRows, RowsAreThere, MetadataAssumption DEF MetaInv, RowsOK, Rows
<1>3. /\ row' \in [Rows -> Row \cup {Null}] /\ row'[Doc] = NewDoc
      /\ \A x \in Rows \ {Doc} : row'[x] = row[x]
  BY <1>1, <1>2 DEF Tables
<1>4. Tables(row', dict', adrift')
  BY <1>1, <1>2, <1>3 DEF Tables, Rows
<1>5. ASSUME NEW d \in Callers
      PROVE  TxOK(call'[d], row', dict', adrift') /\ call'[d].made \cap dict' = {}
  <2>1. TxOK(call[d], row, dict, adrift) /\ call[d].made \cap dict = {}
    BY DEF MetaInv, CallsOK
  <2>2. DOMAIN call[d].writes \subseteq Rows
    BY <2>1, PartialIs DEF TxOK, Tx
  <2>3. \A x \in DOMAIN call[d].writes : row'[x] = row[x]
    BY <1>1, <1>3, <2>2
  <2>4. \A x \in Rows : row[x] = Null => row'[x] = Null
    BY <1>1, <1>3
  <2>5. dict \subseteq dict' /\ adrift \subseteq adrift' /\ call'[d] = call[d]
    BY <1>1
  <2>6. TxOK(call[d], row', dict', adrift')
    BY <2>1, <2>3, <2>4, <2>5, OthersKept
  <2> QED
    BY <1>1, <2>1, <2>6
<1>6. CallsOK'
  BY <1>1, <1>5 DEF MetaInv, CallsOK, Apart
<1> QED
  BY <1>1, <1>4, <1>6 DEF MetaInv, RowsOK

-----------------------------------------------------------------------------
(* The metadata batch.                                                      *)

LEMMA BeginKeeps ==
  ASSUME MetaInv, NEW c \in Callers, NEW t, Begin(c, t),
         TxOK(t, row, dict, adrift), DOMAIN t.writes = {}, t.made = {}
  PROVE  MetaInv'
<1>1. calls' \in [Callers -> Nat] /\ \A d \in Callers : calls'[d] <= MaxCalls[d]
  <2>1. calls \in [Callers -> Nat] /\ \A d \in Callers : calls[d] <= MaxCalls[d]
    BY DEF MetaInv, RowsOK
  <2>2. calls[c] < MaxCalls[c] /\ calls' = [calls EXCEPT ![c] = @ + 1]
    BY DEF Begin
  <2>3. MaxCalls \in [Callers -> Nat]
    BY MetadataAssumption
  <2>4. calls'[c] = calls[c] + 1 /\ \A d \in Callers \ {c} : calls'[d] = calls[d]
    BY <2>1, <2>2
  <2>5. calls[c] + 1 \in Nat /\ calls[c] + 1 <= MaxCalls[c]
    <3>1. calls[c] \in Nat /\ MaxCalls[c] \in Nat
      BY <2>1, <2>3
    <3> QED
      BY <2>2, <3>1
  <2> QED
    BY <2>1, <2>2, <2>4, <2>5
<1> QED
  BY <1>1, GotoKeeps DEF Begin, Apart

LEMMA UpdateMetadataKeeps ==
  ASSUME MetaInv, NEW c \in Callers, NEW items \in Batches, UpdateMetadata(c, items)
  PROVE  MetaInv'
<1>1. PICK t : t = [Idle EXCEPT !.pc = "read", !.items = items]
  OBVIOUS
<1>2. Idle \in Tx /\ DOMAIN Idle.writes = {} /\ Idle.made = {}
  BY IdleOK
<1>3. /\ t \in Tx /\ t.pc = "read" /\ t.items = items /\ t.at = 1 /\ DOMAIN t.writes = {} /\ t.made = {}
      /\ t.project = Null /\ t.props = <<>>
  BY <1>1, <1>2 DEF Tx, BatchPc, Idle
<1>4. Len(items) \in Nat
  BY MetadataAssumption, LenProperties
<1>5. TxOK(t, row, dict, adrift)
  BY <1>3, <1>4 DEF TxOK, WritesOK, BatchOK, ReboundOK, BatchPc, RebindPc, DeletePc
<1> QED
  BY <1>1, <1>3, <1>5, BeginKeeps DEF UpdateMetadata

\* A transaction and what it sees of a row.
LEMMA TxIs ==
  ASSUME MetaInv, NEW c \in Callers
  PROVE  /\ call[c] \in Tx /\ TxOK(call[c], row, dict, adrift)
         /\ call[c].made \cap dict = {}
         /\ DOMAIN call[c].writes \subseteq Rows
         /\ \A r \in DOMAIN call[c].writes : call[c].writes[r] \in Row \cup {Null}
         /\ \A r \in Rows : View(c, r) \in Row \cup {Null}
<1>1. /\ call[c] \in Tx /\ TxOK(call[c], row, dict, adrift) /\ call[c].made \cap dict = {}
      /\ row \in [Rows -> Row \cup {Null}]
  BY DEF MetaInv, CallsOK, RowsOK, Tables
<1>2. DOMAIN call[c].writes \subseteq Rows
      /\ \A r \in DOMAIN call[c].writes : call[c].writes[r] \in Row \cup {Null}
  BY <1>1, PartialIs DEF Tx
<1> QED
  BY <1>1, <1>2 DEF View

\* What a transaction is about to write, and to which row.
LEMMA TargetIs ==
  ASSUME MetaInv, NEW c \in Callers, call[c].pc \in BatchPc, call[c].at <= Len(call[c].items)
  PROVE  /\ call[c].items \in Batches /\ call[c].at \in 1 .. Len(call[c].items)
         /\ Len(call[c].items) \in Nat
         /\ Target(call[c]) \in Chunks /\ Target(call[c]) \in Rows /\ Target(call[c]) # Doc
         /\ Patch(call[c]) \in Patches
<1>1. call[c].items \in Batches /\ call[c].at \in 1 .. Len(call[c].items) + 1
  BY TxIs DEF TxOK, BatchOK
<1>2. Len(call[c].items) \in Nat
  BY <1>1, MetadataAssumption, LenProperties
<1>3. call[c].at \in 1 .. Len(call[c].items)
  BY <1>1, <1>2
<1>4. Target(call[c]) \in Chunks /\ Patch(call[c]) \in Patches
  BY <1>1, <1>3, ItemParts DEF Target, Patch
<1> QED
  BY <1>1, <1>2, <1>3, <1>4, MetadataAssumption DEF Rows

\* A step that writes nothing keeps what was written.
LEMMA WritesCarry ==
  ASSUME NEW t, NEW u, NEW table, NEW known, NEW off,
         WritesOK(t, table, known, off), t.pc # "delete", u.pc # "delete",
         u.items = t.items, u.project = t.project, u.props = t.props,
         u.writes = t.writes, u.stale = t.stale, t.made \subseteq u.made
  PROVE  WritesOK(u, table, known, off)
<1>3. Drift(u) = Drift(t)
  BY DEF Drift
<1>1. ChildUpdates(u) = ChildUpdates(t)
  BY DEF ChildUpdates
<1>2. \A r, k : Asked(t, r, k) => Asked(u, r, k)
  BY <1>1 DEF Asked
<1> QED
  BY <1>2, <1>3 DEF WritesOK, WriteOK

\* So do the items it has applied.
LEMMA ItemsCarry ==
  ASSUME NEW t, NEW u, NEW table, u.items = t.items, u.at = t.at, u.writes = t.writes,
         \A i \in 1 .. t.at - 1 : ItemOK(t, i, table)
  PROVE  \A i \in 1 .. u.at - 1 : ItemOK(u, i, table)
BY DEF ItemOK

LEMMA ReadItemKeeps ==
  ASSUME MetaInv, NEW c \in Callers, ReadItem(c)
  PROVE  MetaInv'
<1> DEFINE t == call[c]
           r == Target(t)
<1>1. t.pc = "read" /\ t.at <= Len(t.items) /\ t.pc \in BatchPc
  BY DEF ReadItem, BatchPc
<1>2. CASE View(c, r) = Null
  BY <1>2, AbortKeeps DEF ReadItem
<1>3. CASE View(c, r) # Null
  <2>1. PICK u : u = [t EXCEPT !.pc = "dictionary", !.seen = View(c, r)]
    OBVIOUS
  <2>2. Goto(c, u)
    BY <1>3, <2>1 DEF ReadItem
  <2>3. View(c, r) \in Row
    BY <1>1, <1>3, TxIs, TargetIs
  <2>4. /\ u \in Tx /\ u.pc = "dictionary" /\ u.seen = View(c, r) /\ u.items = t.items /\ u.at = t.at
        /\ u.writes = t.writes /\ u.stale = t.stale /\ u.made = t.made
        /\ u.project = t.project /\ u.props = t.props
    BY <2>1, <2>3, TxIs DEF Tx, BatchPc
  <2>5. WritesOK(u, row, dict, adrift)
    BY <1>1, <2>4, TxIs, WritesCarry DEF TxOK
  <2>6. Target(u) = r
    BY <2>4 DEF Target
  <2>7. r \in DOMAIN t.writes => View(c, r) = t.writes[r]
    BY DEF View
  <2>8. \A i \in 1 .. u.at - 1 : ItemOK(u, i, row)
    <3>1. \A i \in 1 .. t.at - 1 : ItemOK(t, i, row)
      BY <1>1, TxIs DEF TxOK, BatchOK
    <3> QED
      BY <2>4, <3>1, ItemsCarry
  <2>9. BatchOK(u, row, dict)
    <3> HIDE DEF r
    <3> QED
      BY <1>1, <2>3, <2>4, <2>6, <2>7, <2>8, TxIs DEF TxOK, BatchOK
  <2>10. TxOK(u, row, dict, adrift)
    BY <1>1, <2>4, <2>5, <2>9, TxIs DEF TxOK, ReboundOK, BatchPc, RebindPc, DeletePc
  <2> QED
    BY <2>2, <2>4, <2>10, TxIs, StepKeeps
<1> QED
  BY <1>2, <1>3

LEMMA FindCategoryKeeps ==
  ASSUME MetaInv, NEW c \in Callers, FindCategory(c)
  PROVE  MetaInv'
<1> DEFINE t == call[c]
           wanted == {Patch(t)[k] : k \in DOMAIN Patch(t) \cap {"category"}} \ (dict \cup t.made)
<1>1. /\ t.pc = "dictionary" /\ t.pc \in BatchPc /\ t.at <= Len(t.items)
      /\ TxOK(t, row, dict, adrift) /\ t \in Tx
  BY TxIs DEF FindCategory, TxOK, BatchOK, BatchPc
<1>2. wanted \subseteq Categories
  BY <1>1, TargetIs, PatchParts DEF Allowed
<1>3. /\ wanted \cap dict = {} /\ \A d \in Callers \ {c} : wanted \cap call[d].made = {}
      /\ Goto(c, [t EXCEPT !.pc = "write", !.made = t.made \cup wanted])
      /\ \A k \in DOMAIN Patch(t) \cap {"category"} : Patch(t)[k] \in dict \cup (t.made \cup wanted)
  BY DEF FindCategory
<1> HIDE DEF wanted
<1>4. PICK u : u = [t EXCEPT !.pc = "write", !.made = t.made \cup wanted]
  OBVIOUS
<1>5. /\ u \in Tx /\ u.pc = "write" /\ u.seen = t.seen /\ u.items = t.items /\ u.at = t.at
      /\ u.writes = t.writes /\ u.stale = t.stale /\ u.made = t.made \cup wanted
      /\ u.project = t.project /\ u.props = t.props
  BY <1>1, <1>2, <1>4 DEF Tx, BatchPc
<1>6. WritesOK(u, row, dict, adrift)
  <2>1. WritesOK(t, row, dict, adrift)
    BY <1>1 DEF TxOK
  <2> QED
    BY <1>1, <1>5, <2>1, WritesCarry
<1>7. Target(u) = Target(t) /\ Patch(u) = Patch(t)
  BY <1>5 DEF Target, Patch
<1>8. \A i \in 1 .. u.at - 1 : ItemOK(u, i, row)
  <2>1. \A i \in 1 .. t.at - 1 : ItemOK(t, i, row)
    BY <1>1 DEF TxOK, BatchOK
  <2> QED
    BY <1>5, <2>1, ItemsCarry
<1>9. BatchOK(u, row, dict)
  BY <1>1, <1>3, <1>5, <1>7, <1>8 DEF TxOK, BatchOK
<1>10. TxOK(u, row, dict, adrift)
  BY <1>1, <1>5, <1>6, <1>9 DEF TxOK, ReboundOK, BatchPc, RebindPc, DeletePc
<1>11. \A d \in Callers \ {c} : u.made \cap call[d].made = {}
  BY <1>3, <1>5 DEF MetaInv, CallsOK, Apart
<1>12. u.made \cap dict = {}
  BY <1>3, <1>5, TxIs
<1> QED
  BY <1>3, <1>4, <1>5, <1>10, <1>11, <1>12, TxIs, StepKeeps

\* A chunk as a transaction sees it.
LEMMA ViewIs ==
  ASSUME MetaInv, NEW c \in Callers, NEW r \in Chunks, View(c, r) # Null
  PROVE  /\ View(c, r) \in Row /\ row[r] # Null
         /\ View(c, r).column = View(c, r).assigned
         /\ View(c, r).assigned \in dict \cup call[c].made
         /\ Agrees(View(c, r), r, adrift \cup Drift(call[c]))
<1>1. View(c, r) \in Row /\ r \in Rows
  BY TxIs DEF Rows
<1>2. CASE r \in DOMAIN call[c].writes
  <2>1. View(c, r) = call[c].writes[r]
    BY <1>2 DEF View
  <2>2. WriteOK(call[c], r, row, dict, adrift)
    BY <1>2, <2>1, TxIs DEF TxOK, WritesOK
  <2> QED
    BY <1>1, <2>1, <2>2 DEF WriteOK
<1>3. CASE r \notin DOMAIN call[c].writes
  <2>1. View(c, r) = row[r]
    BY <1>3 DEF View
  <2>2. Agrees(row[r], r, adrift)
    BY <2>1 DEF MetaInv, RowsOK, Tables
  <2>3. Agrees(row[r], r, adrift \cup Drift(call[c]))
    BY <2>2, AgreesWithin
  <2> QED
    BY <1>1, <2>1, <2>3 DEF MetaInv, RowsOK, Tables
<1> QED
  BY <1>2, <1>3

\* What Write adds to a transaction.
LEMMA WriteIs ==
  ASSUME NEW c \in Callers, NEW r \in Rows, NEW value \in Row, NEW saw, NEW next \in Tx,
         NEW u, u = Write(c, r, value, saw, next)
  PROVE  /\ u \in Tx
         /\ DOMAIN u.writes = DOMAIN next.writes \cup {r} /\ u.writes[r] = value
         /\ \A x \in DOMAIN next.writes \ {r} : u.writes[x] = next.writes[x]
         /\ next.stale \subseteq u.stale
         /\ r \notin u.stale => View(c, r).meta = saw.meta
         /\ u.stale \subseteq next.stale \cup {r}
         /\ u.pc = next.pc /\ u.items = next.items /\ u.at = next.at /\ u.seen = next.seen
         /\ u.made = next.made /\ u.project = next.project /\ u.props = next.props
         /\ u.kids = next.kids
<1> DEFINE writes == Over(Of(r, value), next.writes)
           stale == IF View(c, r).meta = saw.meta THEN next.stale ELSE next.stale \cup {r}
<1>1. next.writes \in Partial(Rows, Row \cup {Null}) /\ next.stale \in SUBSET Rows
  BY DEF Tx
<1>2. /\ writes \in Partial(Rows, Row \cup {Null}) /\ DOMAIN writes = DOMAIN next.writes \cup {r}
      /\ writes[r] = value /\ \A x \in DOMAIN next.writes \ {r} : writes[x] = next.writes[x]
  <2>1. PICK f \in Partial(Rows, Row \cup {Null}) : f = next.writes
    BY <1>1
  <2>2. writes = Over(Of(r, value), f)
    BY <2>1
  <2>3. /\ Over(Of(r, value), f) \in Partial(Rows, Row \cup {Null})
        /\ DOMAIN Over(Of(r, value), f) = DOMAIN f \cup {r}
        /\ Over(Of(r, value), f)[r] = value
        /\ \A x \in DOMAIN f \ {r} : Over(Of(r, value), f)[x] = f[x]
    <3>1. value \in Row \cup {Null}
      OBVIOUS
    <3> QED
      BY <3>1, PartialPut
  <2> HIDE DEF writes
  <2> QED
    BY <2>1, <2>2, <2>3
<1>3. stale \in SUBSET Rows
  BY <1>1
<1>4. Write(c, r, value, saw, next) = [next EXCEPT !.writes = writes, !.stale = stale]
  BY DEF Write
<1> HIDE DEF writes
<1>5. PICK held : held = stale
  OBVIOUS
<1> HIDE DEF stale
<1>6. u = [next EXCEPT !.writes = writes, !.stale = held]
  BY <1>4, <1>5
<1>7. /\ u \in Tx /\ u.writes = writes /\ u.stale = held
      /\ u.pc = next.pc /\ u.items = next.items /\ u.at = next.at /\ u.seen = next.seen
      /\ u.made = next.made /\ u.project = next.project /\ u.props = next.props
      /\ u.kids = next.kids
  BY <1>2, <1>3, <1>5, <1>6 DEF Tx
<1> QED
  BY <1>2, <1>5, <1>7 DEF stale

\* A row that is written: a merge of what was seen, and the columns as they are.
LEMMA WroteOK ==
  ASSUME MetaInv, NEW c \in Callers, NEW r \in Rows, NEW u, NEW saw \in Row, NEW patch,
         \A k \in DOMAIN patch : patch[k] \in Allowed(k),
         call[c].pc # "delete", u.pc # "delete",
         u.items = call[c].items, u.project = call[c].project, u.props = call[c].props,
         u.made = call[c].made,
         DOMAIN u.writes = DOMAIN call[c].writes \cup {r}, u.writes[r] \in Row,
         \A x \in DOMAIN call[c].writes \ {r} : u.writes[x] = call[c].writes[x],
         call[c].stale \subseteq u.stale, r \notin u.stale => View(c, r).meta = saw.meta,
         View(c, r) # Null, u.writes[r].meta = Merged(saw.meta, patch),
         \A k \in DOMAIN patch : Asked(call[c], r, k),
         r \in Chunks =>
           /\ u.writes[r].column = u.writes[r].assigned
           /\ u.writes[r].assigned \in dict \cup call[c].made
           /\ Agrees(u.writes[r], r, adrift \cup Drift(u))
  PROVE  WritesOK(u, row, dict, adrift)
<1> DEFINE t == call[c]
<1>1. t \in Tx /\ WritesOK(t, row, dict, adrift)
  BY TxIs DEF TxOK
<1>2. \A x, k : Asked(t, x, k) => Asked(u, x, k)
  <2>1. ChildUpdates(u) = ChildUpdates(t)
    BY DEF ChildUpdates
  <2> QED
    BY <2>1 DEF Asked
<1>3. ASSUME NEW x \in DOMAIN t.writes, x # r
      PROVE  IF u.writes[x] = Null THEN u.pc = "delete" ELSE WriteOK(u, x, row, dict, adrift)
  <2>1. Drift(t) \subseteq Drift(u)
    BY DriftGrows
  <2>2. Agrees(t.writes[x], x, adrift \cup Drift(t)) => Agrees(t.writes[x], x, adrift \cup Drift(u))
    BY <2>1, AgreesWithin
  <2> QED
    BY <1>1, <1>2, <1>3, <2>2 DEF WritesOK, WriteOK
<1>4. row[r] # Null
  <2>1. CASE r \in DOMAIN t.writes
    BY <1>1, <2>1 DEF View, WritesOK, WriteOK
  <2>2. CASE r \notin DOMAIN t.writes
    BY <2>2 DEF View
  <2> QED
    BY <2>1, <2>2
<1>5. ASSUME r \notin u.stale, NEW k \in Fields, u.writes[r].meta[k] # row[r].meta[k]
      PROVE  Asked(u, r, k)
  <2>1. CASE k \in DOMAIN patch
    BY <1>2, <2>1
  <2>2. CASE k \notin DOMAIN patch
    <3>1. saw.meta \in Meta
      BY DEF Row
    <3>2. u.writes[r].meta[k] = saw.meta[k]
      BY <2>2, <3>1, MergedIs
    <3>3. View(c, r).meta[k] # row[r].meta[k]
      BY <1>5, <3>2
    <3>4. r \in DOMAIN t.writes /\ View(c, r) = t.writes[r]
      BY <3>3 DEF View
    <3>5. Asked(t, r, k)
      BY <1>1, <1>5, <3>3, <3>4 DEF WritesOK, WriteOK
    <3> QED
      BY <1>2, <3>5
  <2> QED
    BY <2>1, <2>2
<1>6. WriteOK(u, r, row, dict, adrift)
  BY <1>4, <1>5 DEF WriteOK
<1>7. u.writes[r] # Null
  BY RowsAreThere
<1> QED
  BY <1>3, <1>6, <1>7 DEF WritesOK

\* An item before the current one stays applied unless the current one names its
\* chunk, and then what the current one leaves of it does.
LEMMA EarlierItems ==
  ASSUME MetaInv, NEW c \in Callers, call[c].pc = "write",
         NEW u, u.items = call[c].items, u.at = call[c].at + 1,
         \A x \in DOMAIN call[c].writes : x \in DOMAIN u.writes,
         \A x \in DOMAIN u.writes : x \in DOMAIN call[c].writes \/ row[x] # Null,
         \A x \in DOMAIN call[c].writes \ {Target(call[c])} : u.writes[x] = call[c].writes[x],
         Target(call[c]) \in DOMAIN call[c].writes =>
           \A k \in Fields \ DOMAIN Patch(call[c]) :
             u.writes[Target(call[c])].meta[k] = call[c].writes[Target(call[c])].meta[k],
         NEW i \in 1 .. call[c].at - 1
  PROVE  ItemOK(u, i, row)
<1> DEFINE t == call[c]
           r == t.items[i][1]
           patch == t.items[i][2]
<1>1. /\ t.items \in Batches /\ t.at \in 1 .. Len(t.items) /\ Len(t.items) \in Nat
      /\ ItemOK(t, i, row)
  <2>1. t.pc \in BatchPc /\ t.at <= Len(t.items)
    BY TxIs DEF TxOK, BatchOK, BatchPc
  <2> QED
    BY <2>1, TxIs, TargetIs DEF TxOK, BatchOK
<1>2. i \in 1 .. Len(t.items) /\ t.at \in i + 1 .. u.at - 1
  BY <1>1
<1>3. DOMAIN patch \subseteq Fields
  BY <1>1, <1>2, ItemParts, PatchParts DEF SafeFields, Fields
<1>4. CASE r \notin DOMAIN t.writes
  BY <1>1, <1>4 DEF ItemOK
<1>5. CASE r \in DOMAIN t.writes
  <2>1. ASSUME NEW k \in DOMAIN patch,
               \A j \in i + 1 .. u.at - 1 : u.items[j][1] = r => k \notin DOMAIN u.items[j][2]
        PROVE  u.writes[r].meta[k] = patch[k]
    <3>1. \A j \in i + 1 .. t.at - 1 : j \in i + 1 .. u.at - 1
      BY <1>1
    <3>2. t.writes[r].meta[k] = patch[k]
      BY <1>1, <1>5, <2>1, <3>1 DEF ItemOK
    <3>3. CASE r = Target(t)
      <4>1. k \notin DOMAIN Patch(t)
        BY <1>2, <2>1, <3>3 DEF Target, Patch
      <4> QED
        BY <1>3, <1>5, <3>2, <3>3, <4>1
    <3>4. CASE r # Target(t)
      BY <1>5, <3>2, <3>4
    <3> QED
      BY <3>3, <3>4
  <2> QED
    BY <1>5, <2>1 DEF ItemOK
<1> QED
  BY <1>4, <1>5

LEMMA WriteItemKeeps ==
  ASSUME MetaInv, NEW c \in Callers, WriteItem(c)
  PROVE  MetaInv'
<1> DEFINE t == call[c]
<1>1. /\ t.pc = "write" /\ t.pc \in BatchPc /\ t.at <= Len(t.items) /\ t.seen \in Row
      /\ TxOK(t, row, dict, adrift) /\ t \in Tx
  BY TxIs DEF WriteItem, TxOK, BatchOK, BatchPc
<1>2. PICK r \in Chunks : r = Target(t) /\ r \in Rows
  BY <1>1, TargetIs
<1>3. PICK patch \in Patches : patch = Patch(t)
  BY <1>1, TargetIs
<1>4. PICK next : next = [call[c] EXCEPT !.pc = "read", !.at = @ + 1, !.seen = Null]
  OBVIOUS
<1>5. /\ next \in Tx /\ next.pc = "read" /\ next.at = t.at + 1 /\ next.items = t.items
      /\ next.writes = t.writes /\ next.stale = t.stale /\ next.made = t.made
      /\ next.project = t.project /\ next.props = t.props
  <2>1. t.at + 1 \in Nat /\ t \in Tx
    <3>1. t.at \in Nat
      BY <1>1 DEF Tx
    <3> QED
      BY <1>1, <3>1
  <2> QED
    BY <1>4, <2>1 DEF Tx, BatchPc
<1>6. /\ t.items \in Batches /\ t.at \in 1 .. Len(t.items) /\ Len(t.items) \in Nat
      /\ t.items[t.at][1] = r /\ t.items[t.at][2] = patch
  BY <1>1, <1>2, <1>3, TargetIs DEF Target, Patch
<1>7. \A k \in DOMAIN patch : patch[k] \in Allowed(k) /\ k \in Fields
  BY PatchParts DEF SafeFields, Fields
<1>8. r \in DOMAIN t.writes => t.seen = t.writes[r] /\ View(c, r) = t.writes[r]
  BY <1>1, <1>2 DEF TxOK, BatchOK, View
<1>9. r \notin Locked(c)
  BY <1>2 DEF WriteItem
<1>10. CASE View(c, r) = Null /\ Goto(c, next)
  <2>1. WritesOK(next, row, dict, adrift)
    <3>1. WritesOK(t, row, dict, adrift)
      BY <1>1 DEF TxOK
    <3> QED
      BY <1>1, <1>5, <3>1, WritesCarry
  <2>2. r \notin DOMAIN t.writes /\ row[r] = Null
    BY <1>1, <1>8, <1>10 DEF TxOK, WritesOK, View
  <2>3. ASSUME NEW i \in 1 .. t.at - 1
        PROVE  ItemOK(next, i, row)
    BY <1>1, <1>2, <1>5, <2>2, EarlierItems
  <2>4. ItemOK(next, t.at, row)
    BY <1>5, <1>6, <2>2 DEF ItemOK
  <2>5. \A i \in 1 .. next.at - 1 : i \in 1 .. t.at - 1 \/ i = t.at
    BY <1>5, <1>6
  <2>6. next.at \in 1 .. Len(next.items) + 1
    BY <1>5, <1>6
  <2>7. BatchOK(next, row, dict)
    BY <1>5, <1>6, <2>3, <2>4, <2>5, <2>6 DEF BatchOK
  <2>8. TxOK(next, row, dict, adrift)
    BY <1>1, <1>5, <2>1, <2>7 DEF TxOK, ReboundOK, BatchPc, RebindPc, DeletePc
  <2> QED
    BY <1>5, <1>10, <2>8, TxIs, StepKeeps
<1>11. CASE /\ View(c, r) # Null
            /\ Goto(c, Write(c, r, Written(View(c, r), t.seen, patch), t.seen, next))
  <2>1. /\ View(c, r) \in Row /\ row[r] # Null
        /\ View(c, r).column = View(c, r).assigned
        /\ View(c, r).assigned \in dict \cup t.made
        /\ Agrees(View(c, r), r, adrift \cup Drift(t))
    BY <1>11, ViewIs
  <2>2. PICK value : value = Written(View(c, r), t.seen, patch)
    OBVIOUS
  <2>3. /\ value \in Row /\ value.meta = Merged(t.seen.meta, patch)
        /\ value.column = (IF "category" \in DOMAIN patch THEN patch["category"] ELSE View(c, r).column)
        /\ value.assigned = (IF "category" \in DOMAIN patch THEN patch["category"]
                             ELSE View(c, r).assigned)
        /\ value.tags = (IF "tags" \in DOMAIN patch THEN patch["tags"] ELSE View(c, r).tags)
    BY <1>1, <2>1, <2>2, WrittenIs
  <2>4. \A k \in Fields : value.meta[k] = IF k \in DOMAIN patch THEN patch[k] ELSE t.seen.meta[k]
    <3>1. t.seen.meta \in Meta
      BY <1>1 DEF Row
    <3> QED
      BY <1>7, <2>3, <3>1, MergedIs
  <2>5. PICK u : u = Write(c, r, value, t.seen, next)
    OBVIOUS
  <2>6. /\ u \in Tx /\ DOMAIN u.writes = DOMAIN t.writes \cup {r} /\ u.writes[r] = value
        /\ \A x \in DOMAIN t.writes \ {r} : u.writes[x] = t.writes[x]
        /\ t.stale \subseteq u.stale /\ (r \notin u.stale => View(c, r).meta = t.seen.meta)
        /\ u.pc = "read" /\ u.items = t.items /\ u.at = t.at + 1
        /\ u.made = t.made /\ u.project = t.project /\ u.props = t.props
    <3>1. /\ u \in Tx
          /\ DOMAIN u.writes = DOMAIN next.writes \cup {r} /\ u.writes[r] = value
          /\ \A x \in DOMAIN next.writes \ {r} : u.writes[x] = next.writes[x]
          /\ next.stale \subseteq u.stale
          /\ r \notin u.stale => View(c, r).meta = t.seen.meta
          /\ u.pc = next.pc /\ u.items = next.items /\ u.at = next.at
          /\ u.made = next.made /\ u.project = next.project /\ u.props = next.props
      <4>1. next \in Tx /\ value \in Row /\ r \in Rows
        BY <1>2, <1>5, <2>3
      <4> QED
        BY <2>5, <4>1, WriteIs
    <3> QED
      BY <1>5, <3>1
  <2>7. /\ value.column = value.assigned /\ value.assigned \in dict \cup t.made
        /\ Agrees(value, r, adrift \cup Drift(u))
    <3>1. "category" \in DOMAIN patch => patch["category"] \in dict \cup t.made
      BY <1>1, <1>3 DEF TxOK, BatchOK
    <3>2. \A k \in Doubled : <<r, k>> \notin Drift(u) => View(c, r).meta = t.seen.meta
      <4>1. ASSUME NEW k \in Doubled, <<r, k>> \notin Drift(u)
            PROVE  r \notin u.stale
        BY <4>1, DriftIs
      <4> QED
        BY <2>6, <4>1
    <3>4. Agrees(View(c, r), r, adrift \cup Drift(u))
      <4>1. Drift(t) \subseteq Drift(u)
        BY <2>6, DriftGrows
      <4> QED
        BY <2>1, <4>1, AgreesWithin
    <3>3. value.meta["category"] = (IF "category" \in DOMAIN patch THEN patch["category"]
                                    ELSE t.seen.meta["category"])
          /\ value.meta["tags"] = (IF "tags" \in DOMAIN patch THEN patch["tags"]
                                   ELSE t.seen.meta["tags"])
      BY <2>4 DEF Fields
    <3> QED
      BY <2>1, <2>3, <3>1, <3>2, <3>3, <3>4 DEF Agrees, Doubled
  <2>8. \A k \in DOMAIN patch : Asked(t, r, k)
    BY <1>6 DEF Asked
  <2>9. WritesOK(u, row, dict, adrift)
    BY <1>1, <1>2, <1>7, <1>11, <2>3, <2>6, <2>7, <2>8, WroteOK
  <2>10. \A k \in Fields \ DOMAIN patch : r \in DOMAIN t.writes => u.writes[r].meta[k] = t.writes[r].meta[k]
    BY <1>8, <2>4, <2>6
  <2>11. ASSUME NEW i \in 1 .. t.at - 1
         PROVE  ItemOK(u, i, row)
    BY <1>1, <1>2, <1>3, <2>1, <2>6, <2>10, EarlierItems
  <2>12. ItemOK(u, t.at, row)
    BY <1>6, <1>7, <2>4, <2>6 DEF ItemOK
  <2>13. \A i \in 1 .. u.at - 1 : i \in 1 .. t.at - 1 \/ i = t.at
    BY <1>6, <2>6
  <2>14. u.at \in 1 .. Len(u.items) + 1
    BY <1>6, <2>6
  <2>15. BatchOK(u, row, dict)
    BY <1>6, <2>6, <2>11, <2>12, <2>13, <2>14 DEF BatchOK
  <2>16. TxOK(u, row, dict, adrift)
    BY <1>1, <2>6, <2>9, <2>15 DEF TxOK, ReboundOK, BatchPc, RebindPc, DeletePc
  <2>17. DOMAIN u.writes \subseteq DOMAIN t.writes \cup (Rows \ Locked(c))
    BY <1>2, <1>9, <2>6
  <2>18. Goto(c, u)
    BY <1>11, <2>2, <2>5
  <2> QED
    BY <2>6, <2>16, <2>17, <2>18, TxIs, StepKeeps
<1>12. CASE Abort(c)
  BY <1>12, AbortKeeps
<1> QED
  BY <1>2, <1>3, <1>4, <1>10, <1>11, <1>12 DEF WriteItem

LEMMA CommitBatchKeeps ==
  ASSUME MetaInv, NEW c \in Callers, CommitBatch(c)
  PROVE  MetaInv'
BY CommitKeeps DEF CommitBatch

-----------------------------------------------------------------------------
(* The rebind.                                                              *)

LEMMA RebindDocumentKeeps ==
  ASSUME MetaInv, NEW c \in Callers, NEW args \in Rebinds, RebindDocument(c, args)
  PROVE  MetaInv'
<1>1. PICK t : t = [Idle EXCEPT !.pc = "document", !.project = args.project, !.props = args.props]
  OBVIOUS
<1>2. Idle \in Tx /\ DOMAIN Idle.writes = {} /\ Idle.made = {}
  BY IdleOK
<1>3. args.project \in Projects \cup {Null} /\ args.props \in {a.props : a \in Rebinds}
  BY MetadataAssumption
<1>4. /\ t \in Tx /\ t.pc = "document" /\ DOMAIN t.writes = {} /\ t.made = {} /\ t.items = <<>>
  BY <1>1, <1>2, <1>3 DEF Tx, RebindPc, Idle
<1>5. TxOK(t, row, dict, adrift)
  BY <1>4 DEF TxOK, WritesOK, BatchOK, ReboundOK, BatchPc, RebindPc, DeletePc
<1> QED
  BY <1>1, <1>4, <1>5, BeginKeeps DEF RebindDocument

\* What a rebind keeps while it goes on.
LEMMA RebindParts ==
  ASSUME MetaInv, NEW c \in Callers, call[c].pc \in RebindPc
  PROVE  /\ call[c].made = {} /\ call[c].items = <<>> /\ call[c].pc # "delete"
         /\ WritesOK(call[c], row, dict, adrift) /\ ReboundOK(call[c], row)
         /\ Doc \in Rows /\ Doc \notin Chunks
<1>1. Doc \in Rows /\ Doc \notin Chunks
  BY MetadataAssumption DEF Rows
<1> QED
  BY <1>1, TxIs DEF TxOK, RebindPc

LEMMA RebindGoesOn ==
  ASSUME MetaInv, NEW c \in Callers, NEW u \in Tx, call[c].pc \in RebindPc, Goto(c, u),
         u.pc \in RebindPc, u.made = {}, u.items = <<>>,
         WritesOK(u, row, dict, adrift), ReboundOK(u, row),
         DOMAIN u.writes \subseteq DOMAIN call[c].writes \cup (Rows \ Locked(c))
  PROVE  MetaInv'
<1>1. TxOK(u, row, dict, adrift)
  BY DEF TxOK, BatchOK, BatchPc, RebindPc, DeletePc
<1> QED
  BY <1>1, StepKeeps

LEMMA ReadDocumentKeeps ==
  ASSUME MetaInv, NEW c \in Callers, ReadDocument(c)
  PROVE  MetaInv'
<1> DEFINE t == call[c]
<1>1. /\ t.pc = "document" /\ t.pc \in RebindPc /\ t \in Tx
      /\ t.made = {} /\ t.items = <<>> /\ ReboundOK(t, row) /\ Doc \in Rows
      /\ row \in [Rows -> Row \cup {Null}]
  BY TxIs, RebindParts DEF ReadDocument, RebindPc, MetaInv, RowsOK, Tables
<1>2. CASE row[Doc] = Null
  BY <1>2, AbortKeeps DEF ReadDocument
<1>3. CASE row[Doc] # Null
  <2>1. PICK u : u = [t EXCEPT !.pc = "project", !.seen = row[Doc]]
    OBVIOUS
  <2>2. row[Doc] \in Row
    BY <1>1, <1>3
  <2>3. /\ u \in Tx /\ u.pc = "project" /\ u.seen = row[Doc] /\ u.writes = t.writes
        /\ u.made = {} /\ u.items = <<>>
    BY <1>1, <2>1, <2>2 DEF Tx, RebindPc
  <2>4. DOMAIN u.writes = {}
    BY <1>1, <2>3 DEF ReboundOK
  <2>5. WritesOK(u, row, dict, adrift) /\ ReboundOK(u, row)
    BY <2>2, <2>3, <2>4 DEF WritesOK, ReboundOK
  <2>6. Goto(c, u)
    BY <1>3, <2>1 DEF ReadDocument
  <2> QED
    BY <1>1, <2>3, <2>4, <2>5, <2>6, RebindGoesOn DEF RebindPc
<1> QED
  BY <1>2, <1>3

LEMMA WriteDocumentKeeps ==
  ASSUME MetaInv, NEW c \in Callers, WriteDocument(c)
  PROVE  MetaInv'
<1> DEFINE t == call[c]
<1>1. /\ t.pc = "project" /\ t.pc \in RebindPc /\ t.pc # "delete" /\ t \in Tx
      /\ t.made = {} /\ t.items = <<>> /\ DOMAIN t.writes = {} /\ t.seen \in Row
      /\ Doc \in Rows /\ Doc \notin Chunks /\ Doc \notin Locked(c)
      /\ row \in [Rows -> Row \cup {Null}]
  BY TxIs, RebindParts DEF WriteDocument, RebindPc, ReboundOK, MetaInv, RowsOK, Tables
<1>2. PICK updates : updates = IF t.project = Null THEN <<>> ELSE Of("project", t.project)
  OBVIOUS
<1>3. PICK newRow : newRow = [t.seen EXCEPT !.meta = Merged(t.seen.meta, updates)]
  OBVIOUS
<1>4. PICK next : next = [t EXCEPT !.pc = "children", !.seen = Null]
  OBVIOUS
<1>5. Goto(c, IF row[Doc] = Null THEN next ELSE Write(c, Doc, newRow, t.seen, next))
  BY <1>2, <1>3, <1>4 DEF WriteDocument
<1>6. /\ next \in Tx /\ next.pc = "children" /\ next.writes = t.writes /\ next.made = {}
      /\ next.items = <<>> /\ next.project = t.project /\ next.props = t.props
      /\ next.stale = t.stale
  BY <1>1, <1>4 DEF Tx, RebindPc
<1>7. CASE row[Doc] = Null
  <2>1. WritesOK(next, row, dict, adrift) /\ ReboundOK(next, row)
    BY <1>1, <1>6, <1>7 DEF WritesOK, ReboundOK
  <2> QED
    BY <1>1, <1>5, <1>6, <1>7, <2>1, RebindGoesOn DEF RebindPc
<1>8. CASE row[Doc] # Null
  <2>1. View(c, Doc) = row[Doc]
    BY <1>1 DEF View
  <2>2. /\ DOMAIN updates = IF t.project = Null THEN {} ELSE {"project"}
        /\ t.project # Null => updates["project"] = t.project
    BY <1>2 DEF Of
  <2>3. \A k \in DOMAIN updates : updates[k] \in Allowed(k)
    BY <1>1, <2>2 DEF Tx, Allowed
  <2>4. PICK m \in Meta : m = Merged(t.seen.meta, updates)
    BY <1>1, <2>3, MergedIs DEF Row
  <2>5. newRow \in Row /\ newRow.meta = m
    BY <1>1, <1>3, <2>4 DEF Row
  <2>6. t.project # Null => newRow.meta.project = t.project
    <3>1. t.seen.meta \in Meta
      BY <1>1 DEF Row
    <3>2. \A k \in Fields : Merged(t.seen.meta, updates)[k] =
                             IF k \in DOMAIN updates THEN updates[k] ELSE t.seen.meta[k]
      BY <2>3, <3>1, MergedIs
    <3>3. t.project # Null => m["project"] = t.project
      BY <2>2, <2>4, <3>2 DEF Fields
    <3> QED
      BY <2>5, <3>3
  <2>7. PICK u : u = Write(c, Doc, newRow, t.seen, next)
    OBVIOUS
  <2>8. /\ u \in Tx /\ DOMAIN u.writes = DOMAIN next.writes \cup {Doc} /\ u.writes[Doc] = newRow
        /\ next.stale \subseteq u.stale /\ (Doc \notin u.stale => View(c, Doc).meta = t.seen.meta)
        /\ u.pc = next.pc /\ u.items = next.items /\ u.made = next.made
        /\ u.project = next.project /\ u.props = next.props
    BY <1>1, <1>6, <2>5, <2>7, WriteIs
  <2>9. /\ u.pc = "children" /\ u.items = <<>> /\ u.made = {} /\ DOMAIN u.writes = {Doc}
        /\ u.project = t.project /\ u.props = t.props /\ t.stale \subseteq u.stale
    BY <1>1, <1>6, <2>8
  <2>10. \A k \in DOMAIN updates : Asked(t, Doc, k)
    BY <1>1, <2>2, ChildUpdatesIs DEF Asked
  <2>11. WritesOK(u, row, dict, adrift)
    <3>1. u.writes[Doc] \in Row /\ u.writes[Doc].meta = Merged(t.seen.meta, updates)
      BY <2>4, <2>5, <2>8
    <3>2. /\ u.pc # "delete" /\ u.items = t.items /\ u.made = t.made
          /\ DOMAIN u.writes = DOMAIN t.writes \cup {Doc}
          /\ \A x \in DOMAIN t.writes \ {Doc} : u.writes[x] = t.writes[x]
      BY <1>1, <2>9
    <3>3. View(c, Doc) # Null
      BY <1>8, <2>1
    <3>4. Doc \notin u.stale => View(c, Doc).meta = t.seen.meta
      BY <2>8
    <3> QED
      BY <1>1, <2>3, <2>9, <2>10, <3>1, <3>2, <3>3, <3>4, WroteOK
  <2>12. ReboundOK(u, row)
    BY <2>6, <2>8, <2>9 DEF ReboundOK
  <2> QED
    BY <1>1, <1>5, <1>8, <2>7, <2>8, <2>9, <2>11, <2>12, RebindGoesOn DEF RebindPc
<1> QED
  BY <1>7, <1>8

LEMMA ReadChildrenKeeps ==
  ASSUME MetaInv, NEW c \in Callers, ReadChildren(c)
  PROVE  MetaInv'
<1> DEFINE t == call[c]
<1>1. /\ t.pc = "children" /\ t.pc \in RebindPc /\ t \in Tx /\ t.made = {} /\ t.items = <<>>
      /\ WritesOK(t, row, dict, adrift) /\ ReboundOK(t, row) /\ Doc \notin Chunks
      /\ row \in [Rows -> Row \cup {Null}]
  BY TxIs, RebindParts DEF ReadChildren, RebindPc, MetaInv, RowsOK, Tables
<1>2. PICK kids : kids = [r \in {x \in Chunks : row[x] # Null} |-> row[r]]
  OBVIOUS
<1>3. kids \in Partial(Chunks, Row) /\ DOMAIN kids = {x \in Chunks : row[x] # Null}
  <2>1. \A x \in DOMAIN kids : kids[x] \in Row
    BY <1>1, <1>2 DEF Rows
  <2>2. DOMAIN kids = {x \in Chunks : row[x] # Null} /\ kids = [x \in DOMAIN kids |-> kids[x]]
    BY <1>2
  <2> QED
    BY <2>1, <2>2, PartialIs
<1>4. PICK u : u = [t EXCEPT !.pc = "kids", !.kids = kids]
  OBVIOUS
<1>5. /\ u \in Tx /\ u.pc = "kids" /\ u.writes = t.writes /\ u.stale = t.stale /\ u.made = {}
      /\ u.items = <<>> /\ u.project = t.project /\ u.props = t.props /\ u.kids = kids
  BY <1>1, <1>3, <1>4 DEF Tx, RebindPc
<1>6. WritesOK(u, row, dict, adrift)
  BY <1>1, <1>5, WritesCarry
<1>7. ReboundOK(u, row)
  BY <1>1, <1>3, <1>5 DEF ReboundOK
<1>8. Goto(c, u)
  BY <1>2, <1>4 DEF ReadChildren
<1> QED
  BY <1>1, <1>5, <1>6, <1>7, <1>8, RebindGoesOn DEF RebindPc

LEMMA WriteChildKeeps ==
  ASSUME MetaInv, NEW c \in Callers, NEW r \in Rows, WriteChild(c, r)
  PROVE  MetaInv'
<1> DEFINE t == call[c]
<1>1. /\ t.pc = "kids" /\ t.pc \in RebindPc /\ t.pc # "delete" /\ t \in Tx
      /\ t.made = {} /\ t.items = <<>> /\ Doc \notin Chunks
      /\ WritesOK(t, row, dict, adrift) /\ ReboundOK(t, row)
      /\ r \in DOMAIN t.kids /\ r \notin Locked(c) /\ Tables(row, dict, adrift)
  BY TxIs, RebindParts DEF WriteChild, RebindPc, MetaInv, RowsOK
<1>2. t.kids \in Partial(Chunks, Row)
  BY <1>1 DEF Tx
<1>3. DOMAIN t.kids \subseteq Chunks /\ t.kids[r] \in Row /\ r \in Chunks
  BY <1>1, <1>2, PartialIs
<1>4. r \notin DOMAIN t.writes /\ View(c, r) = row[r]
  BY <1>1 DEF ReboundOK, View
<1>5. PICK kids : kids = Restrict(t.kids, DOMAIN t.kids \ {r})
  OBVIOUS
<1>6. kids \in Partial(Chunks, Row) /\ DOMAIN kids = DOMAIN t.kids \ {r}
  BY <1>2, <1>5, RestrictIs
<1>7. PICK next : next = [t EXCEPT !.kids = kids]
  OBVIOUS
<1>8. PICK kid : kid = [View(c, r) EXCEPT !.meta = Merged(t.kids[r].meta, ChildUpdates(t))]
  OBVIOUS
<1>9. PICK u : u = Write(c, r, kid, t.kids[r], next)
  OBVIOUS
<1>10. Goto(c, IF row[r] = Null THEN next ELSE u)
  BY <1>5, <1>7, <1>8, <1>9 DEF WriteChild
<1>11. /\ next \in Tx /\ next.pc = "kids" /\ next.writes = t.writes /\ next.stale = t.stale
       /\ next.made = {} /\ next.items = <<>> /\ next.project = t.project /\ next.props = t.props
       /\ next.kids = kids
  BY <1>1, <1>6, <1>7 DEF Tx
<1>12. CASE row[r] = Null
  <2>1. WritesOK(next, row, dict, adrift)
    BY <1>1, <1>11, WritesCarry
  <2>2. ChildUpdates(next) = ChildUpdates(t)
    BY <1>11 DEF ChildUpdates
  <2>3. ReboundOK(next, row)
    BY <1>1, <1>4, <1>6, <1>11, <1>12, <2>2 DEF ReboundOK
  <2> QED
    BY <1>1, <1>10, <1>11, <1>12, <2>1, <2>3, RebindGoesOn DEF RebindPc
<1>13. CASE row[r] # Null
  <2>1. /\ row[r] \in Row /\ row[r].column = row[r].assigned /\ row[r].assigned \in dict
        /\ Agrees(row[r], r, adrift)
    BY <1>1, <1>3, <1>13 DEF Tables
  <2>2. /\ DOMAIN ChildUpdates(t) \subseteq Fields
        /\ \A k \in DOMAIN ChildUpdates(t) : ChildUpdates(t)[k] \in Allowed(k)
        /\ \A k \in Doubled \cap DOMAIN ChildUpdates(t) : k \in DOMAIN t.props
    BY <1>1, ChildUpdatesIs
  <2>3. t.kids[r].meta \in Meta
    BY <1>3 DEF Row
  <2>4. PICK m \in Meta : m = Merged(t.kids[r].meta, ChildUpdates(t))
    BY <2>2, <2>3, MergedIs
  <2>5. \A k \in Fields : m[k] = IF k \in DOMAIN ChildUpdates(t) THEN ChildUpdates(t)[k]
                                 ELSE t.kids[r].meta[k]
    BY <2>2, <2>3, <2>4, MergedIs
  <2>6. /\ kid \in Row /\ kid.meta = m /\ kid.column = row[r].column
        /\ kid.assigned = row[r].assigned /\ kid.tags = row[r].tags
    BY <1>4, <1>8, <2>1, <2>4 DEF Row
  <2>7. /\ u \in Tx /\ DOMAIN u.writes = DOMAIN next.writes \cup {r}
        /\ u.writes[r] = kid
        /\ \A x \in DOMAIN next.writes \ {r} : u.writes[x] = next.writes[x]
        /\ next.stale \subseteq u.stale
        /\ r \notin u.stale => View(c, r).meta = t.kids[r].meta
        /\ u.pc = next.pc /\ u.items = next.items /\ u.made = next.made
        /\ u.project = next.project /\ u.props = next.props
        /\ u.kids = next.kids
    <3>1. r \in Rows /\ kid \in Row /\ next \in Tx
      BY <1>11, <2>6
    <3> QED
      BY <1>9, <3>1, WriteIs
  <2>10. /\ u.pc = "kids" /\ u.items = <<>> /\ u.made = {} /\ u.kids = kids
         /\ u.project = t.project /\ u.props = t.props
         /\ DOMAIN u.writes = DOMAIN t.writes \cup {r} /\ u.writes[r] = kid
         /\ \A x \in DOMAIN t.writes : u.writes[x] = t.writes[x]
         /\ t.stale \subseteq u.stale
    BY <1>4, <1>11, <2>7
  <2>12. Agrees(kid, r, adrift \cup Drift(u))
    <3>1. ASSUME NEW k \in Doubled, <<r, k>> \notin Drift(u)
          PROVE  m[k] = row[r].meta[k]
      <4>1. r \notin u.stale /\ k \notin DOMAIN u.props
        BY <1>3, <2>10, <3>1, DriftIs
      <4>2. k \notin DOMAIN ChildUpdates(t) /\ k \in Fields
        BY <2>2, <2>10, <4>1 DEF Doubled, Fields
      <4>3. row[r].meta = t.kids[r].meta
        BY <1>4, <2>7, <4>1
      <4> QED
        BY <2>5, <4>2, <4>3
    <3>2. <<r, "category">> \notin Drift(u) => m.category = row[r].meta.category
      BY <3>1 DEF Doubled
    <3>3. <<r, "tags">> \notin Drift(u) => m.tags = row[r].meta.tags
      BY <3>1 DEF Doubled
    <3> QED
      BY <2>1, <2>6, <3>2, <3>3 DEF Agrees
  <2>13. \A k \in DOMAIN ChildUpdates(t) : Asked(t, r, k)
    BY DEF Asked
  <2>14. WritesOK(u, row, dict, adrift)
    <3>1. u.writes[r] \in Row /\ u.writes[r].meta = Merged(t.kids[r].meta, ChildUpdates(t))
      BY <2>4, <2>6, <2>10
    <3>2. /\ u.writes[r].column = u.writes[r].assigned
          /\ u.writes[r].assigned \in dict \cup t.made
          /\ Agrees(u.writes[r], r, adrift \cup Drift(u))
      BY <2>1, <2>6, <2>10, <2>12
    <3>3. u.pc # "delete" /\ u.items = t.items /\ u.made = t.made
      BY <1>1, <2>10
    <3> QED
      BY <1>1, <1>3, <1>4, <1>13, <2>2, <2>7, <2>10, <2>13, <3>1, <3>2, <3>3, WroteOK
  <2>15. ChildUpdates(u) = ChildUpdates(t)
    BY <2>10 DEF ChildUpdates
  <2>16. ReboundOK(u, row)
    <3>1. DOMAIN u.kids \cap DOMAIN u.writes = {}
      BY <1>1, <1>6, <2>10 DEF ReboundOK
    <3>2. \/ Doc \notin DOMAIN u.writes /\ row[Doc] = Null
          \/ Doc \in DOMAIN u.writes /\ (u.project # Null => u.writes[Doc].meta.project = u.project)
      BY <1>1, <1>3, <2>10 DEF ReboundOK
    <3>3. ASSUME NEW x \in Chunks \ DOMAIN u.kids
          PROVE  \/ x \notin DOMAIN u.writes /\ row[x] = Null
                 \/ /\ x \in DOMAIN u.writes
                    /\ \A k \in DOMAIN ChildUpdates(u) : u.writes[x].meta[k] = ChildUpdates(u)[k]
      <4>1. CASE x = r
        BY <2>2, <2>5, <2>6, <2>10, <2>15, <4>1
      <4>2. CASE x # r
        BY <1>1, <1>6, <2>10, <2>15, <4>2 DEF ReboundOK
      <4> QED
        BY <4>1, <4>2
    <3> QED
      BY <2>10, <3>1, <3>2, <3>3 DEF ReboundOK
  <2>17. Goto(c, u)
    BY <1>10, <1>13
  <2>18. DOMAIN u.writes \subseteq DOMAIN t.writes \cup (Rows \ Locked(c))
    BY <1>1, <2>10
  <2> QED
    BY <1>1, <2>7, <2>10, <2>14, <2>16, <2>17, <2>18, RebindGoesOn DEF RebindPc
<1> QED
  BY <1>12, <1>13

LEMMA CommitRebindKeeps ==
  ASSUME MetaInv, NEW c \in Callers, CommitRebind(c)
  PROVE  MetaInv'
BY CommitKeeps DEF CommitRebind

-----------------------------------------------------------------------------
(* The delete.                                                              *)

LEMMA DeleteDocumentKeeps ==
  ASSUME MetaInv, NEW c \in Callers, NEW token \in Versions, DeleteDocument(c, token)
  PROVE  MetaInv'
<1>1. PICK t : t = [Idle EXCEPT !.pc = "token", !.token = token]
  OBVIOUS
<1>2. Idle \in Tx /\ DOMAIN Idle.writes = {} /\ Idle.made = {}
  BY IdleOK
<1>3. /\ t \in Tx /\ t.pc = "token" /\ DOMAIN t.writes = {} /\ t.made = {} /\ t.items = <<>>
      /\ t.project = Null /\ t.props = <<>> /\ t.stale = {}
  BY <1>1, <1>2 DEF Tx, DeletePc, Idle
<1>4. TxOK(t, row, dict, adrift)
  BY <1>3 DEF TxOK, WritesOK, BatchOK, ReboundOK, BatchPc, RebindPc, DeletePc
<1> QED
  BY <1>1, <1>3, <1>4, BeginKeeps DEF DeleteDocument

\* A delete goes on: it has no row but those it deletes.
LEMMA DeleteGoesOn ==
  ASSUME MetaInv, NEW c \in Callers, NEW u \in Tx, call[c].pc \in DeletePc, Goto(c, u),
         u.pc = "delete", u.made = call[c].made, u.items = call[c].items,
         u.project = call[c].project, u.props = call[c].props, u.stale = call[c].stale,
         \A r \in DOMAIN u.writes : u.writes[r] = Null,
         DOMAIN u.writes \subseteq DOMAIN call[c].writes \cup (Rows \ Locked(c))
  PROVE  MetaInv'
<1>1. TxOK(call[c], row, dict, adrift) /\ call[c].made \cap dict = {}
  BY TxIs
<1>2. TxOK(u, row, dict, adrift)
  BY <1>1 DEF TxOK, WritesOK, BatchOK, ReboundOK, BatchPc, RebindPc, DeletePc
<1> QED
  BY <1>1, <1>2, StepKeeps

LEMMA CheckTokenKeeps ==
  ASSUME MetaInv, NEW c \in Callers, CheckToken(c)
  PROVE  MetaInv'
<1>1. CASE Abort(c)
  BY <1>1, AbortKeeps
<1>2. CASE Goto(c, [call[c] EXCEPT !.pc = "delete"])
  <2>1. PICK u : u = [call[c] EXCEPT !.pc = "delete"]
    OBVIOUS
  <2>2. call[c].pc = "token" /\ call[c] \in Tx /\ DOMAIN call[c].writes = {}
    BY TxIs DEF CheckToken, TxOK
  <2>3. /\ u \in Tx /\ u.pc = "delete" /\ u.made = call[c].made /\ u.items = call[c].items
        /\ u.project = call[c].project /\ u.props = call[c].props /\ u.stale = call[c].stale
        /\ u.writes = call[c].writes
    BY <2>1, <2>2 DEF Tx, DeletePc
  <2> QED
    BY <1>2, <2>1, <2>2, <2>3, DeleteGoesOn DEF DeletePc
<1> QED
  BY <1>1, <1>2 DEF CheckToken

LEMMA DeleteRowKeeps ==
  ASSUME MetaInv, NEW c \in Callers, NEW r \in Rows, DeleteRow(c, r)
  PROVE  MetaInv'
<1> DEFINE t == call[c]
<1>1. /\ t.pc = "delete" /\ t \in Tx /\ r \notin Locked(c) /\ WritesOK(t, row, dict, adrift)
      /\ t.writes \in Partial(Rows, Row \cup {Null})
  BY TxIs DEF DeleteRow, TxOK, Tx
<1>2. PICK writes : writes = Over(Of(r, Null), t.writes)
  OBVIOUS
<1>3. /\ writes \in Partial(Rows, Row \cup {Null}) /\ DOMAIN writes = DOMAIN t.writes \cup {r}
      /\ writes[r] = Null /\ \A x \in DOMAIN t.writes \ {r} : writes[x] = t.writes[x]
  <2>1. PICK f \in Partial(Rows, Row \cup {Null}) : f = t.writes
    BY <1>1
  <2>2. Null \in Row \cup {Null}
    OBVIOUS
  <2>3. /\ Over(Of(r, Null), f) \in Partial(Rows, Row \cup {Null})
        /\ DOMAIN Over(Of(r, Null), f) = DOMAIN f \cup {r}
        /\ Over(Of(r, Null), f)[r] = Null
        /\ \A x \in DOMAIN f \ {r} : Over(Of(r, Null), f)[x] = f[x]
    BY <2>2, PartialPut
  <2> QED
    BY <1>2, <2>1, <2>3
<1>4. \A x \in DOMAIN t.writes : t.writes[x] = Null
  BY <1>1 DEF WritesOK, WriteOK
<1>5. PICK u : u = [t EXCEPT !.writes = writes]
  OBVIOUS
<1>6. /\ u \in Tx /\ u.pc = "delete" /\ u.made = t.made /\ u.items = t.items
      /\ u.project = t.project /\ u.props = t.props /\ u.stale = t.stale /\ u.writes = writes
  BY <1>1, <1>3, <1>5 DEF Tx
<1>7. Goto(c, u)
  BY <1>2, <1>5 DEF DeleteRow
<1>8. /\ \A x \in DOMAIN u.writes : u.writes[x] = Null
      /\ DOMAIN u.writes \subseteq DOMAIN t.writes \cup (Rows \ Locked(c))
  BY <1>1, <1>3, <1>4, <1>6
<1> QED
  BY <1>1, <1>6, <1>7, <1>8, DeleteGoesOn DEF DeletePc

LEMMA CommitDeleteKeeps ==
  ASSUME MetaInv, NEW c \in Callers, CommitDelete(c)
  PROVE  MetaInv'
BY CommitKeeps DEF CommitDelete

-----------------------------------------------------------------------------
(* Every step.                                                              *)

LEMMA MetaInit == Init => MetaInv
<1> SUFFICES ASSUME Init PROVE MetaInv
  OBVIOUS
<1>1. Doc \in Rows /\ Doc \notin Chunks /\ Uncategorized \in Categories
      /\ MaxCalls \in [Callers -> Nat]
  BY MetadataAssumption DEF Rows
<1>2. /\ NewDoc \in Row /\ NewChunk(Uncategorized) \in Row
      /\ NewChunk(Uncategorized).assigned = Uncategorized
      /\ NewChunk(Uncategorized).column = Uncategorized
      /\ NewDoc # Null
      /\ \A r, off : Agrees(NewChunk(Uncategorized), r, off)
  BY NewRows, RowsAreThere
<1>3. /\ row \in [Rows -> Row \cup {Null}] /\ row[Doc] = NewDoc
      /\ \A r \in Chunks : row[r] = NewChunk(Uncategorized)
  BY <1>1, <1>2 DEF Init, Rows
<1>4. Tables(row, dict, adrift)
  BY <1>1, <1>2, <1>3 DEF Init, Tables
<1>5. RowsOK
  <2>1. \A c \in Callers : calls[c] = 0 /\ MaxCalls[c] \in Nat
    BY <1>1 DEF Init
  <2>2. calls \in [Callers -> Nat]
    BY DEF Init
  <2>3. \A c \in Callers : calls[c] <= MaxCalls[c]
    BY <2>1
  <2> QED
    BY <1>4, <2>2, <2>3 DEF RowsOK, Init
<1>6. Idle \in Tx /\ TxOK(Idle, row, dict, adrift) /\ DOMAIN Idle.writes = {} /\ Idle.made = {}
  BY IdleOK
<1>7. CallsOK
  BY <1>6 DEF Init, CallsOK, Apart
<1> QED
  BY <1>5, <1>7 DEF MetaInv

LEMMA MetaNext == MetaInv /\ [Next]_vars => MetaInv'
<1> SUFFICES ASSUME MetaInv, [Next]_vars PROVE MetaInv'
  OBVIOUS
<1>1. CASE UNCHANGED vars
  BY <1>1 DEF vars, MetaInv, RowsOK, CallsOK
<1>2. ASSUME NEW c \in Callers, Step(c)
      PROVE  MetaInv'
  <2>1. CASE ReadItem(c)
    BY <2>1, ReadItemKeeps
  <2>2. CASE FindCategory(c)
    BY <2>2, FindCategoryKeeps
  <2>3. CASE WriteItem(c)
    BY <2>3, WriteItemKeeps
  <2>4. CASE CommitBatch(c)
    BY <2>4, CommitBatchKeeps
  <2>5. CASE ReadDocument(c)
    BY <2>5, ReadDocumentKeeps
  <2>6. CASE WriteDocument(c)
    BY <2>6, WriteDocumentKeeps
  <2>7. CASE ReadChildren(c)
    BY <2>7, ReadChildrenKeeps
  <2>8. CASE CommitRebind(c)
    BY <2>8, CommitRebindKeeps
  <2>9. CASE CheckToken(c)
    BY <2>9, CheckTokenKeeps
  <2>10. CASE CommitDelete(c)
    BY <2>10, CommitDeleteKeeps
  <2>11. CASE AbortDeadlocked(c)
    BY <2>11, AbortKeeps DEF AbortDeadlocked
  <2>12. CASE \E r \in Rows : WriteChild(c, r) \/ DeleteRow(c, r)
    BY <2>12, WriteChildKeeps, DeleteRowKeeps
  <2> QED
    BY <1>2, <2>1, <2>2, <2>3, <2>4, <2>5, <2>6, <2>7, <2>8, <2>9, <2>10, <2>11, <2>12 DEF Step
<1>3. ASSUME NEW c \in Callers, NEW items \in Batches, UpdateMetadata(c, items)
      PROVE  MetaInv'
  BY <1>3, UpdateMetadataKeeps
<1>4. ASSUME NEW c \in Callers, NEW args \in Rebinds, RebindDocument(c, args)
      PROVE  MetaInv'
  BY <1>4, RebindDocumentKeeps
<1>5. ASSUME NEW c \in Callers, NEW r \in Chunks, NEW given \in Overwrites \cup {Null},
             UpdateText(c, r, given)
      PROVE  MetaInv'
  BY <1>5, UpdateTextKeeps
<1>8. ASSUME NEW c \in Callers, NEW r \in Rows, NEW given \in Overwrites, UpdateMeta(c, r, given)
      PROVE  MetaInv'
  BY <1>8, UpdateMetaKeeps
<1>9. ASSUME NEW c \in Callers, NEW r \in Chunks, ActivateVersion(c, r)
      PROVE  MetaInv'
  BY <1>9, ActivateVersionKeeps
<1>6. ASSUME NEW c \in Callers, NEW token \in Versions, DeleteDocument(c, token)
      PROVE  MetaInv'
  BY <1>6, DeleteDocumentKeeps
<1>7. ASSUME NEW v \in Versions, PublishVersion(v)
      PROVE  MetaInv'
  BY <1>7, PublishKeeps
<1> QED
  BY <1>1, <1>2, <1>3, <1>4, <1>5, <1>6, <1>7, <1>8, <1>9 DEF Next

LEMMA MetaAlways == Spec => []MetaInv
BY MetaInit, MetaNext, PTL DEF Spec

\* The columns of every chunk agree with its assignment row, and with its block_meta
\* field by field, but for what a stale merge, a rebind, an entity_update of block_meta
\* or the activation of a version wrote apart since the last text reset; a chunk's
\* category is in the dictionary and its document is there (_update_one,
\* document_rebind, entity_update, _activate and document_delete together).
THEOREM MetadataCorrect == Spec => []MetadataInv
<1>1. MetaInv => MetadataInv
  <2> SUFFICES ASSUME MetaInv PROVE MetadataInv
    OBVIOUS
  <2>1. Tables(row, dict, adrift) /\ version \in Versions
        /\ calls \in [Callers -> Nat] /\ \A c \in Callers : calls[c] <= MaxCalls[c]
    BY DEF MetaInv, RowsOK
  <2>2. \A c \in Callers : call[c].made \cap dict = {} /\ DOMAIN call[c].writes \subseteq Rows
    BY TxIs
  <2>3. \A c \in Callers : calls[c] \in 0 .. MaxCalls[c]
    <3>1. TAKE c \in Callers
    <3>2. calls[c] \in Nat /\ MaxCalls[c] \in Nat
      BY <2>1, MetadataAssumption
    <3>3. calls[c] <= MaxCalls[c]
      BY <2>1
    <3> QED
      BY <3>2, <3>3
  <2>4. TypeOK
    BY <2>1, <2>2, <2>3 DEF TypeOK, Tables
  <2>5. MetaMatchesColumns
    BY <2>1 DEF MetaMatchesColumns, Tables, Agrees
  <2> QED
    BY <2>4, <2>5 DEF MetadataInv
<1> QED
  BY <1>1, MetaAlways, PTL

-----------------------------------------------------------------------------
(* What a call leaves when it ends.                                         *)

\* Who has passed its last item or child is not aborted any more: it waits for nobody.
LEMMA EndIsCommit ==
  ASSUME MetaInv, [Next]_vars, NEW c \in Callers,
         \/ call[c].pc = "read" /\ call[c].at > Len(call[c].items)
         \/ call[c].pc = "kids" /\ DOMAIN call[c].kids = {},
         call'[c].pc = "idle"
  PROVE  Commit(c)
<1>1. call \in [Callers -> Tx] /\ call[c] \in Tx /\ call[c].pc # "idle"
  BY DEF MetaInv, CallsOK
<1>2. call[c].pc = "read" => call[c].at \in Nat /\ Len(call[c].items) \in Nat
  <2>1. call[c].pc = "read" => call[c].items \in Batches
    BY TxIs DEF TxOK, BatchOK, BatchPc
  <2> QED
    BY <1>1, <2>1, MetadataAssumption, LenProperties DEF Tx
<1>3. WaitsFor(c) = {}
  BY DEF WaitsFor
<1>4. ASSUME NEW d \in Callers, d # c, NEW t, call' = [call EXCEPT ![d] = t]
      PROVE  FALSE
  BY <1>1, <1>4
<1>5. CASE UNCHANGED call
  BY <1>1, <1>5
<1>6. ASSUME NEW d \in Callers, Step(d)
      PROVE  Commit(c)
  <2>1. CASE d # c
    <3>1. PICK t : call' = [call EXCEPT ![d] = t]
      BY <1>6 DEF Step, ReadItem, FindCategory, WriteItem, CommitBatch, ReadDocument, WriteDocument,
                  ReadChildren, CommitRebind, CheckToken, CommitDelete, AbortDeadlocked, WriteChild,
                  DeleteRow, Abort, Goto, Commit
    <3> QED
      BY <1>4, <2>1, <3>1
  <2>2. CASE d = c
    <3>1. ~ ReadItem(c)
      BY <1>2 DEF ReadItem
    <3>2. ~ AbortDeadlocked(c)
      BY <1>3 DEF AbortDeadlocked
    <3>3. ~ \E r \in Rows : WriteChild(c, r) \/ DeleteRow(c, r)
      BY DEF WriteChild, DeleteRow
    <3>4. ~ FindCategory(c) /\ ~ WriteItem(c) /\ ~ ReadDocument(c) /\ ~ WriteDocument(c)
          /\ ~ ReadChildren(c) /\ ~ CheckToken(c)
      BY DEF FindCategory, WriteItem, ReadDocument, WriteDocument, ReadChildren, CheckToken
    <3> QED
      BY <1>6, <2>2, <3>1, <3>2, <3>3, <3>4 DEF Step, CommitBatch, CommitRebind, CommitDelete
  <2> QED
    BY <2>1, <2>2
<1>7. ASSUME NEW d \in Callers, NEW t, Begin(d, t)
      PROVE  FALSE
  BY <1>1, <1>4, <1>7 DEF Begin
<1> QED
  BY <1>5, <1>6, <1>7 DEF Next, vars, UpdateMetadata, RebindDocument, DeleteDocument, UpdateText,
                          UpdateMeta, ActivateVersion, AtOnce, PublishVersion

LEMMA PastTheList ==
  ASSUME MetaInv, NEW c \in Callers, call[c].pc = "read", call[c].at > Len(call[c].items)
  PROVE  /\ call[c].items \in Batches /\ call[c].at - 1 = Len(call[c].items)
         /\ \A i \in 1 .. call[c].at - 1 : ItemOK(call[c], i, row)
<1>1. /\ call[c].items \in Batches /\ call[c].at \in 1 .. Len(call[c].items) + 1
      /\ \A i \in 1 .. call[c].at - 1 : ItemOK(call[c], i, row)
  BY TxIs DEF TxOK, BatchOK, BatchPc
<1>2. Len(call[c].items) \in Nat
  BY <1>1, MetadataAssumption, LenProperties
<1>3. call[c].at - 1 = Len(call[c].items)
  BY <1>1, <1>2
<1> QED
  BY <1>1, <1>3

LEMMA ItemsAreApplied ==
  ASSUME MetaInv, [Next]_vars, NEW c \in Callers
  PROVE  ItemsApplied(c)
<1> DEFINE t == call[c]
<1> SUFFICES ASSUME CommitOf(c, "read"), NEW i \in 1 .. Len(t.items),
                    row'[t.items[i][1]] # Null, NEW k \in DOMAIN t.items[i][2],
                    \A j \in i + 1 .. Len(t.items) :
                      t.items[j][1] = t.items[i][1] => k \notin DOMAIN t.items[j][2]
             PROVE  row'[t.items[i][1]].meta[k] = t.items[i][2][k]
  BY DEF ItemsApplied
<1>1. t.pc = "read" /\ t.at > Len(t.items) /\ call'[c].pc = "idle"
  BY DEF CommitOf
<1>2. Commit(c)
  BY <1>1, EndIsCommit
<1>3. t.items \in Batches /\ t.at - 1 = Len(t.items)
      /\ \A x \in 1 .. t.at - 1 : ItemOK(t, x, row)
  BY <1>1, PastTheList
<1>6. ItemOK(t, i, row)
  BY <1>3
<1>7. t.items[i][1] \in Rows
  BY <1>3, ItemParts DEF Rows
<1>8. t.items[i][1] \in DOMAIN t.writes
  <2>1. \A r \in Rows \ DOMAIN t.writes : row'[r] = row[r]
    BY <1>2, CommitWrites
  <2> QED
    BY <1>6, <1>7, <2>1 DEF ItemOK
<1>9. row'[t.items[i][1]] = t.writes[t.items[i][1]]
  BY <1>2, <1>8, CommitWrites
<1> QED
  BY <1>3, <1>6, <1>8, <1>9 DEF ItemOK

LEMMA ChildrenAreRebound ==
  ASSUME MetaInv, [Next]_vars, NEW c \in Callers
  PROVE  ChildrenRebound(c)
<1> DEFINE t == call[c]
<1> SUFFICES ASSUME CommitOf(c, "kids")
             PROVE  /\ row'[Doc] # Null /\ t.project # Null => row'[Doc].meta.project = t.project
                    /\ \A r \in {x \in Chunks : row'[x] # Null} : \A k \in DOMAIN ChildUpdates(t) :
                         row'[r].meta[k] = ChildUpdates(t)[k]
  BY DEF ChildrenRebound
<1>1. t.pc = "kids" /\ t.pc \in RebindPc /\ DOMAIN t.kids = {} /\ call'[c].pc = "idle"
  BY DEF CommitOf, RebindPc
<1>2. Commit(c)
  BY <1>1, EndIsCommit
<1>3. ReboundOK(t, row) /\ Doc \in Rows
  BY <1>1, RebindParts
<1>4. /\ \A r \in DOMAIN t.writes : row'[r] = t.writes[r]
      /\ \A r \in Rows \ DOMAIN t.writes : row'[r] = row[r]
  BY <1>2, CommitWrites
<1>5. row'[Doc] # Null /\ t.project # Null => row'[Doc].meta.project = t.project
  BY <1>1, <1>3, <1>4 DEF ReboundOK
<1>6. ASSUME NEW r \in Chunks, row'[r] # Null, NEW k \in DOMAIN ChildUpdates(t)
      PROVE  row'[r].meta[k] = ChildUpdates(t)[k]
  <2>1. r \in Rows
    BY DEF Rows
  <2>2. \/ r \notin DOMAIN t.writes /\ row[r] = Null
        \/ r \in DOMAIN t.writes /\ t.writes[r].meta[k] = ChildUpdates(t)[k]
    BY <1>1, <1>3, <1>6 DEF ReboundOK
  <2> QED
    BY <1>4, <1>6, <2>1, <2>2
<1> QED
  BY <1>5, <1>6

LEMMA ChangesAreAsked ==
  ASSUME MetaInv, [Next]_vars, NEW c \in Callers
  PROVE  AskedChanges(c)
<1> DEFINE t == call[c]
<1> SUFFICES ASSUME CommitOf(c, "read") \/ CommitOf(c, "kids"),
                    NEW r \in DOMAIN t.writes \ t.stale, NEW k \in DOMAIN row[r].meta,
                    row'[r].meta[k] # row[r].meta[k]
             PROVE  Asked(t, r, k)
  BY DEF AskedChanges, Asked
<1>1. /\ \/ t.pc = "read" /\ t.at > Len(t.items)
         \/ t.pc = "kids" /\ DOMAIN t.kids = {}
      /\ call'[c].pc = "idle"
  BY DEF CommitOf
<1>2. Commit(c)
  BY <1>1, EndIsCommit
<1>3. row'[r] = t.writes[r] /\ r \in Rows
  BY <1>2, CommitWrites
<1>4. WritesOK(t, row, dict, adrift)
  BY TxIs DEF TxOK
<1>5. WriteOK(t, r, row, dict, adrift)
  BY <1>1, <1>4 DEF WritesOK
<1>6. k \in Fields
  <2>1. row[r] \in Row
    BY <1>3, <1>5 DEF WriteOK, MetaInv, RowsOK, Tables
  <2> QED
    BY <2>1 DEF Row, Meta, Fields
<1> QED
  BY <1>3, <1>5, <1>6 DEF WriteOK

\* A metadata list that ends has applied every item, a rebind every update to every
\* child, and neither has changed a field it was not asked to change, however calls,
\* text updates, deletes and publications interleave (the one transaction of
\* _update_one and of document_rebind, which locks only what it has written).
THEOREM CallsWriteExactly == Spec => CallsWriteWhatWasAsked
<1>1. MetaInv /\ [Next]_vars => [\A c \in Callers : ItemsApplied(c)]_vars
  BY ItemsAreApplied
<1>2. MetaInv /\ [Next]_vars => [\A c \in Callers : ChildrenRebound(c)]_vars
  BY ChildrenAreRebound
<1>3. MetaInv /\ [Next]_vars => [\A c \in Callers : AskedChanges(c)]_vars
  BY ChangesAreAsked
<1>4. Spec => BatchAppliesEveryItem
  BY <1>1, MetaAlways, PTL DEF Spec, BatchAppliesEveryItem
<1>5. Spec => RebindReachesChildren
  BY <1>2, MetaAlways, PTL DEF Spec, RebindReachesChildren
<1>6. Spec => OnlyAskedFieldsChange
  BY <1>3, MetaAlways, PTL DEF Spec, OnlyAskedFieldsChange
<1> QED
  BY <1>4, <1>5, <1>6 DEF CallsWriteWhatWasAsked

=============================================================================
