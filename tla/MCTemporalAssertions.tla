------------------------ MODULE MCTemporalAssertions ------------------------
(* Values of TemporalAssertions for TLC: two callers that name two instants,  *)
(* and one caller that names three.                                           *)
EXTENDS TemporalAssertions

CONSTANTS w1, w2

MCSettings == {[callers |-> {w1, w2}, last |-> 2], [callers |-> {w1}, last |-> 3]}
=============================================================================
