----------------------------- MODULE MCGCRuntime ----------------------------
(***************************************************************************)
(* One thread and memory for one quantum, in which two objects fit; two    *)
(* handle slots, the global store and that of one load context.            *)
(***************************************************************************)
EXTENDS GCRuntime

CONSTANTS c1

MCContexts == {c1}
MCSizes == {16}
MCTypes == {6}
MCLoadContexts == {"alc"}

=============================================================================
