------------------------ MODULE MCVectorizerActivity ------------------------
(* Constants of VectorizerActivity for TLC: one file with one document.      *)
EXTENDS VectorizerActivity, TLC

CONSTANT f1

MCDocOf == [c \in Chunks |-> 1]
MCRequests == {[mode |-> "flagged", dry |-> FALSE, limit |-> 0],
               [mode |-> "document", dry |-> TRUE, limit |-> 0]}
MCSymmetry == Permutations(Texts)
MCFileOf == [d \in Docs |-> f1]

=============================================================================
