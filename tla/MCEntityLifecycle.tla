------------------------- MODULE MCEntityLifecycle -------------------------
(* A project that owns a document, two chunks of it, the second published   *)
(* or not yet, and the dictionary row the second one uses.  One caller only *)
(* marks and deletes: of two other calls, each one statement, no case is lost. *)
EXTENDS EntityLifecycle

CONSTANTS r1, r2

MCEntities == 1 .. 5
MCKind == <<"projects", "documents", "semantic_chunks", "semantic_chunks",
            "dictionaries">>
MCFkParents == <<{}, {}, {2}, {2}, {}>>
MCUses == <<{}, {}, {}, {5}, {}>>
MCSortKey == <<1, 1, 1, 1, 1>>
MCStarts == {{1, 2, 3, 5}, {1, 2, 3, 4, 5}}
MCInitOwner == <<None, 1, None, 1, None>>
MCAsks == (r1 :> {"mark", "delete"}) @@ (r2 :> Operations \ {"mark"})
MCTargets == [mark |-> {1, 3}, delete |-> {1, 3, 5}, rebind |-> {1, 2, 3},
              create |-> {2, 5}, flag |-> {2}]
MCNewOwners == {2, 3}
=============================================================================
