---------------------------- MODULE MCProvenance ----------------------------
(* Two documents of which one is published, two contents, and three releases: *)
(* before provenance, the one that bound Files to originals, and this one.    *)
EXTENDS Provenance, TLC

CONSTANTS d1, d2, a, b, p1, p2

MCInstalled == {1, 4, 6}

\* Publications are alike, and so are contents.
Symmetry == Permutations({p1, p2}) \cup Permutations({a, b})
=============================================================================
