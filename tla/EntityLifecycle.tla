--------------------------- MODULE EntityLifecycle ---------------------------
(***************************************************************************)
(* Addressable rows and their lifecycle: EntityLifecycleService of         *)
(* runtime/entity_lifecycle.py, called by the entity_* commands, each call *)
(* on a connection of its own.                                             *)
(*                                                                         *)
(* A mark (soft_delete, undelete) and a hard_delete are one READ COMMITTED *)
(* transaction: the closure of the named rows is collected by many SELECTs,*)
(* each with a snapshot of its own, a hard_delete looks for references by  *)
(* as many others, and the rows are written table by table.  Owner edges   *)
(* are plain columns, validated against the UUID registry only when        *)
(* written; chapters, paragraphs and chunks hang by foreign keys.          *)
(***************************************************************************)
EXTENDS Integers, FiniteSets, Sequences, SequencesExt

CONSTANTS
  Callers,    \* concurrent requests
  Entities,   \* UUIDs
  Kind,       \* the table of each UUID
  FkParents,  \* document_id, chapter_id and paragraph_id of a row, once inserted
  Uses,       \* dictionary columns of a chunk
  SortKey,    \* the column entity_list orders by; ids break ties
  Starts,     \* sets of rows that may be there at the start
  InitOwner,  \* and their owners
  Asks,       \* the operations each caller asks for
  Targets,    \* the ids they pass, by operation
  NewOwners,  \* owner_id values callers pass
  None,
  MaxCalls,   \* bound: calls of one caller
  MaxEdits    \* bound: rows published, links and memberships written meanwhile

Tables == <<"projects", "files", "documents", "chapters", "paragraphs",
            "semantic_chunks", "dictionaries">>
LinkTable == "semantic_chunk_links"

\* What _closure reads for a row of a kind, in this order: owned rows, documents
\* that name the project, and the tables with a foreign key to its own.
Followed == [k \in ToSet(Tables) |->
               CASE k = "projects"   -> <<"owner", "member">>
                 [] k = "files"      -> <<"owner">>
                 [] k = "documents"  -> <<"owner", "chapters", "paragraphs", "semantic_chunks">>
                 [] k = "chapters"   -> <<"paragraphs", "semantic_chunks">>
                 [] k = "paragraphs" -> <<"semantic_chunks">>
                 [] OTHER -> <<>>]

Operations == {"mark", "delete", "rebind", "create", "flag"}

ASSUME LifecycleAssumption ==
  /\ Entities \subseteq Nat /\ None \notin Entities
  /\ Kind \in [Entities -> ToSet(Tables)]
  /\ FkParents \in [Entities -> SUBSET Entities]
  /\ \A e \in Entities : \A x \in FkParents[e] :
       /\ Kind[x] \in {"documents", "chapters", "paragraphs"}
       /\ Kind[e] \in ToSet(Followed[Kind[x]]) \cap {"chapters", "paragraphs", "semantic_chunks"}
       /\ FkParents[x] \subseteq FkParents[e]
  /\ Uses \in [Entities -> SUBSET Entities]
  /\ \A e \in Entities : \A x \in Uses[e] :
       Kind[x] = "dictionaries" /\ Kind[e] = "semantic_chunks"
  /\ SortKey \in [Entities -> Nat]
  /\ Starts \subseteq SUBSET Entities
  /\ \A start \in Starts : \A e \in start : FkParents[e] \cup Uses[e] \subseteq start
  /\ InitOwner \in [Entities -> Entities \cup {None}]
  /\ Asks \in [Callers -> SUBSET Operations]
  /\ Targets \in [Operations -> SUBSET Entities]
  /\ NewOwners \subseteq Entities \cup {None}
  /\ MaxCalls \in Nat /\ MaxEdits \in Nat

VARIABLES
  row,     \* "absent", "live" or "deleted" (is_deleted), as committed
  owner,   \* owner_id
  member,  \* the project a document's block_meta names
  links,   \* semantic_chunk_links: <<source, target>>
  call,    \* the locals of each caller's transaction
  calls,   \* calls begun, by caller
  edits,   \* edits made by others
  since    \* history: edges there ever since the caller began to look for them

rows == <<row, owner, member, links>>
vars == <<rows, call, calls, edits, since>>

Rows == {e \in Entities : row[e] # "absent"}
OfKind(k) == {e \in Entities : Kind[e] = k}
Smallest(m, n) == IF m < n THEN m ELSE n

-----------------------------------------------------------------------------
(* Edges between rows.                                                      *)

\* By the SELECT that finds it, in the order in which those of one row come.
Selects == <<"owner", "member", "chapters", "paragraphs", "semantic_chunks", "link", "use">>
Relations == ToSet(Selects)
ForeignKeys == {"chapters", "paragraphs", "semantic_chunks", "use"}

\* A row names x by its owner column, its document's project, its foreign keys,
\* the target of a chunk link or its dictionary columns.
Naming(x, r) ==
  CASE r = "owner"  -> {e \in Rows : owner[e] = x}
    [] r = "member" -> {e \in Rows : member[e] = x /\ x \in Rows}
    [] r = "link"   -> {l[1] : l \in {k \in links : k[2] = x}}
    [] r = "use"    -> {e \in Rows : x \in Uses[e]}
    [] OTHER        -> {e \in Rows : Kind[e] = r /\ x \in FkParents[e]}

Edges ==
  {<<owner[e], "owner", e>> : e \in {f \in Rows : owner[f] # None}}
    \cup {<<member[e], "member", e>> : e \in {f \in Rows : member[f] \in Rows}}
    \cup {<<l[2], "link", l[1]>> : l \in links}
    \cup (UNION {{<<x, "use", e>> : x \in Uses[e]} : e \in Rows})
    \cup (UNION {{<<x, Kind[e], e>> : x \in FkParents[e]} : e \in Rows})

\* What references_to reads for a row of a kind.
Checked == [k \in ToSet(Tables) |->
              ToSet(Followed[k]) \cup CASE k = "semantic_chunks" -> {"link"}
                                        [] k = "dictionaries" -> {"use"}
                                        [] OTHER -> {}]

\* Everything below a set of rows along edges E, those _closure would follow:
\* the least set that holds the roots and whatever hangs by such an edge.
Below(roots, E) ==
  {e \in Entities : \A S \in SUBSET Entities :
     roots \subseteq S /\ (\A f \in E : f[1] \in S /\ f[2] \in ToSet(Followed[Kind[f[1]]])
                                       => f[3] \in S)
       => e \in S}

-----------------------------------------------------------------------------
(* Transactions.                                                            *)

Reads == Entities \X Relations

Call == [op : Operations,
         pc : {"idle", "closure", "check", "write"},
         flag : {"live", "deleted"}, roots : SUBSET Entities,
         refs : SUBSET Entities, todo : SUBSET Reads, changed : BOOLEAN,
         next : ToSet(Tables) \cup {LinkTable, None},
         done : SUBSET (ToSet(Tables) \cup {LinkTable}),
         locks : SUBSET Entities, cut : SUBSET (Entities \X Entities),
         owner : Entities \cup {None}]

Idle == [op |-> "mark", pc |-> "idle", flag |-> "live", roots |-> {}, refs |-> {},
         todo |-> {}, changed |-> FALSE, next |-> None, done |-> {}, locks |-> {},
         cut |-> {}, owner |-> None]

TypeOK ==
  /\ row \in [Entities -> {"absent", "live", "deleted"}]
  /\ owner \in [Entities -> Entities \cup {None}]
  /\ member \in [Entities -> Entities \cup {None}]
  /\ links \in SUBSET (Rows \X Entities)
  /\ call \in [Callers -> Call]
  /\ calls \in [Callers -> 0 .. MaxCalls]
  /\ edits \in 0 .. MaxEdits
  /\ since \in [Callers -> SUBSET (Entities \X Relations \X Entities)]

Init ==
  /\ \E start \in Starts :
       /\ row = [e \in Entities |-> IF e \in start THEN "live" ELSE "absent"]
       /\ owner = [e \in Entities |-> IF e \in start THEN InitOwner[e] ELSE None]
  /\ member = [e \in Entities |-> None]
  /\ links = {}
  /\ call = [c \in Callers |-> Idle]
  /\ calls = [c \in Callers |-> 0]
  /\ edits = 0
  /\ since = [c \in Callers |-> {}]

\* Callers whose open transaction updated or deleted a row.
Holders(S, c) == {d \in Callers \ {c} : call[d].locks \cap S # {}}
Unlocked(S, c) == Holders(S, c) = {}

\* The reads one pass of _closure makes, grouped from refs at its start.
PassOver(refs) == {p \in Reads : p[1] \in refs /\ p[2] \in ToSet(Followed[Kind[p[1]]])}

\* Mutant of Checks: links are forgotten.
ChecksButLinks(refs) ==
  {p \in Reads : p[1] \in refs /\ p[2] \in Checked[Kind[p[1]]] \ {"link"}}

\* The reads of references_to.
Checks(refs) == {p \in Reads : p[1] \in refs /\ p[2] \in Checked[Kind[p[1]]]}

\* Rows a statement of the transaction writes: an UPDATE touches the rows of
\* refs in one table, a DELETE also what cascades from them.
Written(c, k) ==
  LET named == {e \in call[c].refs \cap Rows : Kind[e] = k}
  IN  IF call[c].op = "delete"
      THEN named \cup {e \in Rows : FkParents[e] \cap named # {}}
      ELSE named

\* Links a hard delete removes by a statement of their own, before any row, and
\* those that cascade from their source.
Cut(c, k) ==
  CASE call[c].op # "delete" -> {}
    [] k = LinkTable -> {l \in links : {l[1], l[2]} \cap call[c].refs # {}}
    [] OTHER -> {l \in links : l[1] \in Written(c, k)}

LinkHolders(S, c) ==
  {d \in Callers \ {c} : \E l \in S : l \in call[d].cut \/
                                        (call[d].op = "delete" /\ l[1] \in call[d].locks)}

\* Chunks outside that use a dictionary row about to be deleted.
Users(c, k) ==
  IF call[c].op = "delete" /\ k = "dictionaries"
  THEN {e \in Rows \ call[c].locks : Uses[e] \cap call[c].refs # {}} ELSE {}

\* Who makes the next statement wait: rows and links others hold.
Blocking(c, k) ==
  Holders(Written(c, k), c) \cup LinkHolders(Cut(c, k), c)
    \cup {d \in Holders(Users(c, k), c) : call[d].op = "delete"}

-----------------------------------------------------------------------------
(* Beginning a call.                                                        *)

Begin(c, t) ==
  /\ call[c].pc = "idle"
  /\ calls[c] < MaxCalls /\ t.op \in Asks[c]
  /\ calls' = [calls EXCEPT ![c] = @ + 1]
  /\ call' = [call EXCEPT ![c] = t]
  /\ UNCHANGED <<rows, edits>>

\* _owner is registered: the registry holds exactly the rows there are,
\* deleted or not.
ValidOwner(o) == o = None \/ o \in Rows

\* The projects that exist, for a call that names projects; other ids unchecked.
RootsFor(x) == IF Kind[x] = "projects" THEN {x} \cap Rows ELSE {x}

\* hard_delete goes on with references_to, a mark with its UPDATEs.
AfterClosure(t) ==
  IF t.op = "delete" THEN [t EXCEPT !.pc = "check", !.todo = Checks(t.refs), !.changed = FALSE]
  ELSE [t EXCEPT !.pc = "write", !.todo = {}, !.changed = FALSE]

StartClosure(op, roots, flag) ==
  LET t == [Idle EXCEPT !.op = op, !.flag = flag, !.roots = roots, !.refs = roots]
  IN  IF PassOver(roots) = {} THEN AfterClosure(t)
      ELSE [t EXCEPT !.pc = "closure", !.todo = PassOver(roots)]

MarkDeleted(c, x, flag) ==
  /\ RootsFor(x) # {}
  /\ Begin(c, StartClosure("mark", RootsFor(x), flag))

HardDelete(c, x) ==
  /\ RootsFor(x) # {}
  /\ Begin(c, StartClosure("delete", RootsFor(x), "deleted"))

\* rebind_owner and update_entity with an owner, after _validate_owner.
RebindOwner(c, x, o) ==
  /\ ValidOwner(o)
  /\ Begin(c, [Idle EXCEPT !.op = "rebind", !.pc = "write", !.roots = {x}, !.owner = o])

\* update_entity with is_deleted: the row alone, nothing below it.
UpdateFlag(c, x, flag) ==
  Begin(c, [Idle EXCEPT !.op = "flag", !.pc = "write", !.roots = {x}, !.flag = flag])

\* create_entity takes projects, files, documents and dictionaries.
CreateEntity(c, x, o) ==
  /\ Kind[x] \in {"projects", "files", "documents", "dictionaries"}
  /\ ValidOwner(o)
  /\ Begin(c, [Idle EXCEPT !.op = "create", !.pc = "write", !.roots = {x}, !.owner = o])

-----------------------------------------------------------------------------
(* Marks and hard deletes.                                                  *)

TableRank == [k \in ToSet(Tables) |-> CHOOSE i \in 1 .. Len(Tables) : Tables[i] = k]

SelectRank == [r \in Relations |-> CHOOSE i \in 1 .. Len(Selects) : Selects[i] = r]

\* references_to takes the documents before the files.
CheckRank == [k \in ToSet(Tables) |->
                CASE k = "files"     -> TableRank["documents"]
                  [] k = "documents" -> TableRank["files"]
                  [] OTHER           -> TableRank[k]]

\* Table by table, and for one row its reads in order.
ReadBefore(pc, p, q) ==
  LET rank == IF pc = "check" THEN CheckRank ELSE TableRank
  IN  \/ rank[Kind[p[1]]] < rank[Kind[q[1]]]
      \/ p[1] = q[1] /\ SelectRank[p[2]] < SelectRank[q[2]]

NextReads(t) == {p \in t.todo : \A q \in t.todo : ~ReadBefore(t.pc, q, p)}

\* One SELECT of _closure; the last of a pass begins another one if the pass
\* found a new row (Again).
ReadChildrenIf(c, Again(_, _, _)) ==
  /\ call[c].pc = "closure"
  /\ \E p \in NextReads(call[c]) :
       LET t     == call[c]
           found == Naming(p[1], p[2])
           again == Again(t.changed, found, t.refs)
           u     == [t EXCEPT !.refs = t.refs \cup found]
       IN call' = [call EXCEPT ![c] =
             IF t.todo # {p} THEN [u EXCEPT !.todo = t.todo \ {p}, !.changed = again]
             ELSE IF again THEN [u EXCEPT !.todo = PassOver(u.refs), !.changed = FALSE]
             ELSE AfterClosure(u)]
  /\ UNCHANGED <<rows, calls, edits>>

\* Mutants of ReadChildren: a single pass; any child counts as a change.
ReadChildrenOnce(c) == ReadChildrenIf(c, LAMBDA changed, found, refs : FALSE)
ReadChildrenForever(c) == ReadChildrenIf(c, LAMBDA changed, found, refs : changed \/ found # {})

ReadChildren(c) ==
  ReadChildrenIf(c, LAMBDA changed, found, refs : changed \/ ~(found \subseteq refs))

\* One SELECT of references_to: a row outside the set that names one inside it is
\* noted (changed), and after the last one the call is refused.
CheckReferences(c) ==
  /\ call[c].pc = "check"
  /\ \E p \in NextReads(call[c]) :
       LET t       == call[c]
           blocked == t.changed \/ ~(Naming(p[1], p[2]) \subseteq t.refs)
       IN call' = [call EXCEPT ![c] =
             IF t.todo # {p} THEN [t EXCEPT !.todo = t.todo \ {p}, !.changed = blocked]
             ELSE IF blocked THEN Idle
             ELSE [t EXCEPT !.todo = {}, !.pc = "write"]]
  /\ UNCHANGED <<rows, calls, edits>>

\* The tables still to write: _set_deleted iterates over a set, whose order is
\* arbitrary; _delete_closure goes from the links and leaves to the roots.
Candidates(t) ==
  LET kinds == {Kind[x] : x \in t.refs}
      left  == kinds \ t.done
  IN  CASE t.op = "mark" -> left
        [] t.op # "mark" /\ "semantic_chunks" \in kinds /\ LinkTable \notin t.done -> {LinkTable}
        [] OTHER ->
             LET rank(k) == IF k = "dictionaries" THEN 0 ELSE TableRank[k]
             IN  {k \in left : \A j \in left : rank(k) >= rank(j)}

ChooseTable(c) ==
  /\ call[c].pc = "write" /\ call[c].op \in {"mark", "delete"}
  /\ call[c].next = None
  /\ \E k \in Candidates(call[c]) : call' = [call EXCEPT ![c].next = k]
  /\ UNCHANGED <<rows, calls, edits>>

\* The UPDATE or DELETE of one table waits for what others hold; a dictionary
\* row that a chunk still uses cannot be deleted (NO ACTION).
WriteTable(c) ==
  /\ call[c].pc = "write" /\ call[c].next # None
  /\ Blocking(c, call[c].next) = {}
  /\ LET t == call[c]
     IN  call' = [call EXCEPT ![c] =
           IF Users(c, t.next) # {} THEN Idle
           ELSE [t EXCEPT !.locks = t.locks \cup Written(c, t.next),
                          !.cut = t.cut \cup Cut(c, t.next),
                          !.done = t.done \cup {t.next}, !.next = None]]
  /\ UNCHANGED <<rows, calls, edits>>

AllWritten(t) ==
  t.pc = "write" /\ t.op \in {"mark", "delete"} /\ t.next = None /\ Candidates(t) = {}

\* The links a transaction has deleted, and any of a deleted chunk's own; one to
\* a deleted chunk that came after the statement for the links stays.
LinksAfter(t, gone) == {l \in links : l \notin t.cut /\ l[1] \notin gone}

Commit(c) ==
  /\ AllWritten(call[c])
  /\ LET t    == call[c]
         gone == IF t.op = "delete" THEN t.locks ELSE {}
     IN /\ row' = [e \in Entities |-> IF e \in gone THEN "absent"
                                      ELSE IF e \in t.locks THEN t.flag ELSE row[e]]
        /\ owner' = [e \in Entities |-> IF e \in gone THEN None ELSE owner[e]]
        /\ member' = [e \in Entities |-> IF e \in gone THEN None ELSE member[e]]
        /\ links' = LinksAfter(t, gone)
  /\ call' = [call EXCEPT ![c] = Idle]
  /\ UNCHANGED <<calls, edits>>

\* Two open transactions wait for each other: PostgreSQL aborts one of them.
WaitsFor(c) ==
  IF call[c].pc = "write" /\ call[c].next # None THEN Blocking(c, call[c].next) ELSE {}

AbortDeadlocked(c) ==
  /\ \E d \in WaitsFor(c) : c \in WaitsFor(d)
  /\ call' = [call EXCEPT ![c] = Idle]
  /\ UNCHANGED <<rows, calls, edits>>

-----------------------------------------------------------------------------
(* The single statement of the other calls.                                 *)

WriteRow(c) ==
  /\ call[c].pc = "write" /\ call[c].op \in {"rebind", "flag", "create"}
  /\ Unlocked(call[c].roots, c)
  /\ LET t == call[c]
         x == CHOOSE e \in t.roots : TRUE
     IN CASE t.op = "rebind" /\ x \in Rows ->
               owner' = [owner EXCEPT ![x] = t.owner] /\ UNCHANGED row
          [] t.op = "flag" /\ x \in Rows ->
               row' = [row EXCEPT ![x] = t.flag] /\ UNCHANGED owner
          [] t.op = "create" /\ x \notin Rows ->
               row' = [row EXCEPT ![x] = "live"] /\ owner' = [owner EXCEPT ![x] = t.owner]
          [] OTHER -> UNCHANGED <<row, owner>>
  /\ call' = [call EXCEPT ![c] = Idle]
  /\ UNCHANGED <<member, links, calls, edits>>

-----------------------------------------------------------------------------
(* What other components write meanwhile.                                   *)

Edit ==
  /\ edits < MaxEdits
  /\ edits' = edits + 1
  /\ UNCHANGED <<call, calls>>

\* A publication inserts a row below its document, under a new UUID no link names
\* yet; the foreign keys make it wait for a DELETE of a row it names.
PublishRow(x) ==
  /\ Edit
  /\ Kind[x] \in {"chapters", "paragraphs", "semantic_chunks"}
  /\ row[x] = "absent" /\ FkParents[x] \cup Uses[x] \subseteq Rows
  /\ \A l \in links : l[2] # x
  /\ \A c \in Callers : call[c].op = "delete" =>
       call[c].locks \cap (FkParents[x] \cup Uses[x]) = {}
  /\ row' = [row EXCEPT ![x] = "live"]
  /\ UNCHANGED <<owner, member, links>>

\* A document rebind names a project in the document's block_meta.
JoinProject(d, p) ==
  /\ Edit
  /\ Kind[d] = "documents" /\ d \in Rows /\ Kind[p] = "projects" /\ p \in Rows
  /\ \A c \in Callers : d \notin call[c].locks
  /\ member' = [member EXCEPT ![d] = p]
  /\ UNCHANGED <<row, owner, links>>

\* A chunk link: its source is a foreign key, its target a plain UUID.
LinkChunks(s, t) ==
  /\ Edit
  /\ Kind[s] = "semantic_chunks" /\ Kind[t] = "semantic_chunks" /\ {s, t} \subseteq Rows
  /\ \A c \in Callers : call[c].op = "delete" => s \notin call[c].locks
  /\ links' = links \cup {<<s, t>>}
  /\ UNCHANGED <<row, owner, member>>

-----------------------------------------------------------------------------
Step(c) ==
  \/ ReadChildren(c) \/ CheckReferences(c) \/ ChooseTable(c) \/ WriteTable(c)
  \/ Commit(c) \/ AbortDeadlocked(c) \/ WriteRow(c)

NewCall(c) ==
  \/ \E flag \in {"live", "deleted"} : \/ \E x \in Targets["mark"] : MarkDeleted(c, x, flag)
                                       \/ \E x \in Targets["flag"] : UpdateFlag(c, x, flag)
  \/ \E x \in Targets["delete"] : HardDelete(c, x)
  \/ \E o \in NewOwners : \/ \E x \in Targets["rebind"] : RebindOwner(c, x, o)
                          \/ \E x \in Targets["create"] : CreateEntity(c, x, o)

Others ==
  \E x, y \in Entities : PublishRow(x) \/ JoinProject(x, y) \/ LinkChunks(x, y)

\* The edges a caller should find: those there since its transaction began or,
\* for a hard delete, since references_to began.
Watching(t) == \/ t.op = "mark" /\ t.pc # "idle"
               \/ t.op = "delete" /\ t.pc \in {"check", "write"}

Watch ==
  LET now == Edges'
  IN  since' = [c \in Callers |->
                  IF ~Watching(call'[c]) THEN {}
                  ELSE IF Watching(call[c]) THEN since[c] \cap now ELSE now]

Next ==
  /\ \/ \E c \in Callers : Step(c) \/ NewCall(c)
     \/ Others
  /\ Watch

Spec == Init /\ [][Next]_vars

\* A request is served until it ends; nobody has to make one.
FairSpec == Spec /\ \A c \in Callers : WF_call(Step(c))

-----------------------------------------------------------------------------
(* Reads: entity_list and entity_owner_tree, each here of one snapshot.     *)

Visible(show) == {e \in Rows : show \/ row[e] = "live"}

Ordered(a, b) == SortKey[a] < SortKey[b] \/ (SortKey[a] = SortKey[b] /\ a < b)

\* Mutant of Listed: a page ends at the limit, wherever it begins.
ListedToLimit(k, show, limit, offset) ==
  LET all == SetToSortSeq(OfKind(k) \cap Visible(show), Ordered)
  IN  [items |-> SubSeq(all, offset + 1, Smallest(limit, Len(all))), total |-> Len(all)]

\* A page of a table, and the total beside it.
Listed(k, show, limit, offset) ==
  LET all == SetToSortSeq(OfKind(k) \cap Visible(show), Ordered)
  IN  [items |-> SubSeq(all, offset + 1, Smallest(offset + limit, Len(all))),
       total |-> Len(all)]

\* The owned rows of a row, table by table, cut at width.
OwnerChildren(x, width, show) ==
  LET before(a, b) == \/ TableRank[Kind[a]] < TableRank[Kind[b]]
                      \/ Kind[a] = Kind[b] /\ Ordered(a, b)
      all == SetToSortSeq(Naming(x, "owner") \cap Visible(show), before)
  IN  ToSet(SubSeq(all, 1, Smallest(width, Len(all))))

\* The nodes of the tree, each as its path from the root: a row met again on
\* its own path is a leaf.
OwnerTree(root, depth, width, show) ==
  LET paths[n \in Nat] ==
        IF n = 0 THEN {<<root>>}
        ELSE LET above == paths[n - 1]
                 open  == {p \in above : Len(p) = n /\ Last(p) \notin ToSet(Front(p))}
             IN  above \cup UNION {{Append(p, e) : e \in OwnerChildren(Last(p), width, show)}
                                     : p \in open}
  IN  paths[depth]

\* Mutant of Truncated: a full row of children counts as all of them.
TruncatedByDepth(root, depth, width, show) ==
  \E p \in OwnerTree(root, depth, width, show) :
     Last(p) \notin ToSet(Front(p)) /\ Len(p) > depth

\* A node is marked truncated at the depth limit and when its children fill the
\* width.
Truncated(root, depth, width, show) ==
  \E p \in OwnerTree(root, depth, width, show) :
     /\ Last(p) \notin ToSet(Front(p))
     /\ \/ Len(p) > depth
        \/ Cardinality(OwnerChildren(Last(p), width, show)) >= width

-----------------------------------------------------------------------------
(* Properties.                                                              *)

\* Between calls: the reads above see committed rows only, which an open call
\* does not change.
Quiet == \A c \in Callers : call[c].pc = "idle"

CommitOf(c, op) == call[c].op = op /\ AllWritten(call[c]) /\ call'[c].pc = "idle"

\* soft_delete and undelete reach everything that stayed below the named rows
\* from the beginning of the transaction to its commit, whatever moves beside
\* it and however the rows are nested (_closure repeats its passes).
MarkReachesAllBelow ==
  [][\A c \in Callers : CommitOf(c, "mark") =>
       \A e \in (Below(call[c].roots, since[c]) \ call[c].roots) \cap Rows :
         row'[e] = call[c].flag]_vars

\* A row that outlives a hard delete names no deleted one by a foreign key,
\* whenever it came: what was published between the check and the DELETE cascades,
\* makes it fail or has waited for it.  By its owner, its project or a chunk link it
\* names a deleted one only if it did not all the time from the first SELECT of
\* references_to (DeletionSafetyError).
DeleteLeavesNoCheckedReference ==
  [][\A c \in Callers : CommitOf(c, "delete") =>
       \A x \in Rows, e \in Entities :
          row'[x] = "absent" /\ row'[e] # "absent" =>
            /\ \A r \in ForeignKeys : <<x, r, e>> \notin Edges
            /\ \A r \in Checked[Kind[x]] : <<x, r, e>> \notin since[c]]_vars

\* Every call ends: passes of the closure come to an end also when owners form
\* a cycle, and of two calls that lock each other out one is aborted.
EveryCallEnds == \A c \in Callers : call[c].pc # "idle" ~> call[c].pc = "idle"

\* An owner tree none of whose nodes is marked truncated shows every visible
\* row below the root, also when owners form a cycle.
UntruncatedTreeIsComplete ==
  Quiet => \A root \in Rows, show \in BOOLEAN, depth \in 0 .. 2, width \in 1 .. 2 :
     LET all == LET reach[n \in Nat] ==
                      IF n = 0 THEN {root}
                      ELSE LET above == reach[n - 1]
                           IN  above \cup {e \in Visible(show) : owner[e] \in above}
                IN  reach[Cardinality(Entities)]
     IN  ~Truncated(root, depth, width, show) =>
           {Last(p) : p \in OwnerTree(root, depth, width, show)} = all

\* Reading page after page shows every visible row of a table exactly once and
\* in one order, also where the sorted column has ties.
PagesShowEachRowOnce ==
  Quiet => \A k \in {Kind[e] : e \in Entities}, show \in BOOLEAN, limit \in 1 .. 2 :
     LET total == Listed(k, show, limit, 0).total
         pages == [i \in 1 .. total |-> Listed(k, show, limit, (i - 1) * limit).items]
     IN  FlattenSeq(pages) = SetToSortSeq(OfKind(k) \cap Visible(show), Ordered)

\* What holds of the registry whenever entity_list and entity_owner_tree read it.
LifecycleInv == TypeOK /\ UntruncatedTreeIsComplete /\ PagesShowEachRowOnce

-----------------------------------------------------------------------------
(* Statements of the documentation that the code does not keep.             *)

\* The code's word: a hard delete is refused when it "would leave references
\* outside the delete set" (entity_lifecycle.py:153), "Hard delete shall reject
\* surviving inbound references".  An owner_id or a link written between the SELECT
\* that looks for it and the COMMIT survives and names a row that is gone.
NoReferenceSurvives ==
  [][\A c \in Callers : CommitOf(c, "delete") =>
       \A x \in Rows, r \in Relations, e \in Entities :
          row'[x] = "absent" /\ r \in Checked[Kind[x]] => <<x, r, e>> \notin Edges']_vars

=============================================================================
