--------------------------- MODULE MCVectorization ---------------------------
(* Constants of Vectorization for TLC: one file, and chunk n belongs to      *)
(* document n.                                                               *)
EXTENDS Vectorization

CONSTANT f1

MCDocOf == [c \in Chunks |-> c]
MCRequests == [mode : Modes, dry : BOOLEAN, limit : {0, 1}]
MCFileOf == [d \in Docs |-> f1]

=============================================================================
