---------------------------- MODULE MCCoreAlloc -----------------------------
(***************************************************************************)
(* Two threads and callers without a context; a quantum of 40 bytes, a     *)
(* 4-byte header that takes 8 and a size_t of 8 bits. Sizes: a small       *)
(* object, two of which exactly fill a quantum with the plug skew (8 + 16  *)
(* + 16 = 40); one that fills a fresh quantum alone (8 + 32); one just too *)
(* large for it (40); and the two at the edge of the overflow test (240    *)
(* and 248 against 255 - 8).                                               *)
(***************************************************************************)
EXTENDS CoreAlloc, TLC

CONSTANTS c1, c2

MCContexts == {c1, c2}
MCSizes == {16, 32, 40, 240, 248}
MCSymmetry == Permutations(MCContexts)

=============================================================================
