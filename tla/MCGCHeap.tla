------------------------------ MODULE MCGCHeap ------------------------------
(***************************************************************************)
(* One thread and callers without a context, and memory for one quantum    *)
(* and one block of its own, or three blocks; two frozen segments          *)
(* registered three times between them.                                    *)
(***************************************************************************)
EXTENDS GCHeap, TLC

CONSTANTS c1, g1, g2

MCContexts == {c1}
MCSizes == {16}
MCSegments == {g1, g2}
MCSymmetry == Permutations(MCSegments)

=============================================================================
