------------------------- MODULE MCDocumentMetadata -------------------------
(* A document of two chunks and two callers: lists that name the chunks in   *)
(* opposite orders, one of them twice, and rebinds with and without a field  *)
(* that the chunks also keep in columns; one block_meta for entity_update.   *)
EXTENDS DocumentMetadata, TLC

CONSTANTS c1, c2, x1, x2, doc, plain, code, v1, v2, p1

MCBatches ==
  {<< <<x1, "category" :> code>>, <<x2, "title" :> v1>> >>,
   << <<x2, "tags" :> v1>>, <<x1, "category" :> code>> >>,
   << <<x1, "title" :> v1>>, <<x1, "tags" :> v1>> >>}
MCMaxCalls == (c1 :> 1) @@ (c2 :> 2)
MCRebinds == {[project |-> p1, props |-> <<>>], [project |-> Null, props |-> "tags" :> v1]}
MCOverwrites == {NewMeta(code, v1)}
=============================================================================
