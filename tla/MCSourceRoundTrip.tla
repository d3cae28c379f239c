------------------------- MODULE MCSourceRoundTrip -------------------------
(* Short texts with repeated words and repeated white space, so that a chunk *)
(* may be found where it is not; edits write one word or nothing.           *)
EXTENDS SourceRoundTrip

CONSTANTS a, b

MCSources == {<<a, Blank, a>>, <<Blank, a, b>>}
MCEditedTexts == {<<>>, <<b>>}
=============================================================================
