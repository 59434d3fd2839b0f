----------------------------- MODULE ObjectHeap -----------------------------
(***************************************************************************)
(* What allocation promises the runtime, without blocks, quanta, windows   *)
(* and paths: a heap is a set of objects that only grows.  A request is    *)
(* served by an object that touches no other, aligned and inside the       *)
(* memory with its header, and is counted once; or it fails, at any time,  *)
(* and only the result tells.  The runtime's inline allocations add        *)
(* objects of the same kind that are not counted.                          *)
(*                                                                         *)
(* The promises are those of the contract of ugc_core_alloc                *)
(* (ugc/core/ugc_core.h) and of the comment on allocatedBytes              *)
(* (ugc/uGCHeap.h); CoreAlloc implements this specification.               *)
(***************************************************************************)
EXTENDS Integers

CONSTANTS
  Sizes,     \* the object sizes the runtime asks for
  Header,    \* the room an object needs before its address
  Limit,     \* the end of memory
  Null       \* the result of a request that fails

VARIABLES
  heap,      \* the objects, as records of an address and a size
  bytes,     \* the bytes served by calls of the GC
  answer     \* what the last call returned

heapVars == <<heap, bytes, answer>>

HeapInit ==
  /\ heap = {}
  /\ bytes = 0
  /\ answer = Null

(* An object owns its header and its size less the header of the next. *)
Apart(a, s, o) ==
  \/ a - Header + s <= o.addr - Header
  \/ o.addr - Header + o.size <= a - Header

Places(s) ==
  {a \in 1 .. Limit : /\ a % 8 = 0
                      /\ Header < a
                      /\ a + s <= Limit
                      /\ \A o \in heap : Apart(a, s, o)}

Add(a, s) == heap' = heap \union {[addr |-> a, size |-> s]}

Serve(s) ==
  \E a \in Places(s) :
    /\ Add(a, s)
    /\ bytes' = bytes + s
    /\ answer' = a

ServeInline(s) == \E a \in Places(s) : Add(a, s) /\ UNCHANGED <<bytes, answer>>

Fail == answer' = Null /\ UNCHANGED <<heap, bytes>>

HeapNext == Fail \/ \E s \in Sizes : Serve(s) \/ ServeInline(s)

HeapSpec == HeapInit /\ [][HeapNext]_heapVars

=============================================================================
