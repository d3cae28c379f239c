--------------------------- MODULE MCChunkVersions ---------------------------
(* Constants of ChunkVersions for TLC: every chunk in one document of one    *)
(* file, two bodies.                                                         *)
EXTENDS ChunkVersions

CONSTANTS d1, f1

MCDocOf == [c \in Chunks |-> d1]
MCFileOf == [d \in Docs |-> f1]

=============================================================================
