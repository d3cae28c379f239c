---------------------------- MODULE MCOperations ----------------------------
(* Constants of Operations for TLC: two documents, and files of one name in   *)
(* two directories, so that the script and the calls of others meet at one.   *)
EXTENDS Operations

CONSTANTS d1, d2, v1, v2, a, b

MCCandidates == <<[doc |-> d1, version |-> v1, text |-> a],
                  [doc |-> d2, version |-> v1, text |-> a],
                  [doc |-> d1, version |-> v2, text |-> b]>>
MCUploads == {<<v1, b>>, <<v2, a>>}
\* The script again after a start that failed; or somebody else beside it.
MCBudgets == {[runs |-> 2, other |-> 0, faults |-> 1],
              [runs |-> 1, other |-> 1, faults |-> 1]}
=============================================================================
