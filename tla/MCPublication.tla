--------------------------- MODULE MCPublication ---------------------------
(* Two versions; a rechunk names the stored one or a new one. *)
EXTENDS Publication

CONSTANTS v1, v2, a, b

MCUploads == {<<v1, a>>, <<v2, b>>}
MCRechunkVersions == {v2}
=============================================================================
