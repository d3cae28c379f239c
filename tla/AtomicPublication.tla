------------------------- MODULE AtomicPublication -------------------------
(***************************************************************************)
(* What publishing one document promises to whoever reads it back through  *)
(* source_file_reconstruct: the document consists of exactly one whole     *)
(* generation, a refused publication changes nothing a reader sees, and    *)
(* either ending leaves its processing run in the same step.               *)
(***************************************************************************)
EXTENDS Naturals, Sequences

VARIABLES
    scope,      \* the generations a reader of the document sees
    evidence    \* outcomes of the processing runs, in commit order

Init == scope = {} /\ evidence = <<>>

Publish ==
    /\ evidence' = Append(evidence, "succeeded")
    /\ scope' = {Len(evidence')}

Refuse ==
    /\ evidence' = Append(evidence, "failed")
    /\ UNCHANGED scope

Next == Publish \/ Refuse

Spec == Init /\ [][Next]_<<scope, evidence>>
=============================================================================
