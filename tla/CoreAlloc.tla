----------------------------- MODULE CoreAlloc ------------------------------
(***************************************************************************)
(* Object allocation: ugc_core_alloc and its direct and refill paths       *)
(* (ugc/core/ugc_core.c), the zeroing allocator under it, the accounting   *)
(* that uGCHeap::Alloc adds, and the runtime's inline fast path, which     *)
(* bumps an allocation context without calling the GC.                     *)
(*                                                                         *)
(* Addresses are natural numbers below HeapLimit and NULL is 0; size_t     *)
(* arithmetic wraps at SIZE_MAX + 1.  The object at address a has its      *)
(* header in the ObjectGap bytes before a; its base size pays for the      *)
(* header of the object that follows, so an object of size s owns the      *)
(* bytes from a - ObjectGap up to a - ObjectGap + s.  The variable objects *)
(* is history: the program keeps no list of what it handed out.            *)
(***************************************************************************)
EXTENDS Integers, FiniteSets

CONSTANTS
  Contexts,           \* the allocation contexts of the runtime's threads
  NoContext,          \* a call with a null acontext
  Sizes,              \* the object sizes the runtime asks for
  UGC_ALLOC_QUANTUM,  \* the size of the block a context is refilled with
  ObjHeaderSize,      \* sizeof(ObjHeader): 4 on RV32, 8 on RV64
  SIZE_MAX,           \* the largest size_t
  CallocAlign,        \* the alignment of the blocks calloc returns
  HeapLimit           \* the end of the memory calloc can hand out

ASSUME HeaderAssumption == ObjHeaderSize \in {4, 8}

\* Mutant: the room for the header is not rounded.
ObjectGap_Unrounded == ObjHeaderSize

(* The room left before each object for its header, rounded up to 8. *)
ObjectGap == 8 * ((ObjHeaderSize + 7) \div 8)

ASSUME QuantumAssumption ==
  /\ UGC_ALLOC_QUANTUM \in Nat
  /\ UGC_ALLOC_QUANTUM % 8 = 0
  /\ 2 * ObjectGap <= UGC_ALLOC_QUANTUM
  /\ UGC_ALLOC_QUANTUM <= SIZE_MAX
ASSUME SizesAssumption ==
  \* the runtime rounds sizes to 8, and the smallest object has a header
  \A s \in Sizes : s \in Nat /\ ObjectGap <= s /\ s <= SIZE_MAX /\ s % 8 = 0
ASSUME AddressAssumption ==
  /\ SIZE_MAX \in Nat
  /\ HeapLimit \in Nat
  /\ HeapLimit <= SIZE_MAX
ASSUME CallocAssumption == CallocAlign \in {8, 16}
ASSUME ContextAssumption == NoContext \notin Contexts

VARIABLES
  blocks,            \* the blocks calloc returned; none is ever freed
  alloc_ptr,         \* of each context
  alloc_limit,
  alloc_bytes,       \* of each context: bytes served, small-object heap
  alloc_bytes_uoh,   \* of each context: bytes served, old heap
  allocatedBytes,    \* of the heap: bytes served to any caller
  result,            \* what the last Alloc returned
  objects            \* history: every object handed out

windows == <<alloc_ptr, alloc_limit>>
counters == <<alloc_bytes, alloc_bytes_uoh, allocatedBytes>>
vars == <<blocks, alloc_ptr, alloc_limit, alloc_bytes, alloc_bytes_uoh,
          allocatedBytes, result, objects>>

NULL == 0
Wrap(n) == n % (SIZE_MAX + 1)

(* The bytes from a up to a + m and from b up to b + n do not overlap. *)
Disjoint(a, m, b, n) == a + m <= b \/ b + n <= a

Init ==
  /\ blocks = {}
  /\ alloc_ptr = [c \in Contexts |-> NULL]
  /\ alloc_limit = [c \in Contexts |-> NULL]
  /\ alloc_bytes = [c \in Contexts |-> 0]
  /\ alloc_bytes_uoh = [c \in Contexts |-> 0]
  /\ allocatedBytes = 0
  /\ result = NULL
  /\ objects = {}

-----------------------------------------------------------------------------
(* calloc: memory that nobody holds, aligned for any object, or a failure  *)
(* at any time.  Any free place will do.                                   *)
FreePlaces(n) ==
  {a \in {CallocAlign * k : k \in 1 .. HeapLimit \div CallocAlign} :
     /\ a + n <= HeapLimit
     /\ \A b \in blocks : Disjoint(a, n, b.base, b.size)}

ugc_zalloc(n, base) ==
  \/ base = NULL /\ UNCHANGED blocks
  \/ /\ base \in FreePlaces(n)
     /\ blocks' = blocks \union {[base |-> base, size |-> n]}

\* Mutant: the offset for the header is added to a null block too.
Direct_OffsetNull(size, header_size) ==
  /\ \E base \in FreePlaces(Wrap(size + header_size)) \union {NULL} :
       /\ ugc_zalloc(Wrap(size + header_size), base)
       /\ result' = base + header_size
  /\ UNCHANGED windows

(* The direct path: a block of its own for the object and its header. *)
ugc_alloc_direct(size, header_size) ==
  /\ \E base \in FreePlaces(Wrap(size + header_size)) \union {NULL} :
       /\ ugc_zalloc(Wrap(size + header_size), base)
       /\ result' = IF base = NULL THEN NULL ELSE base + header_size
  /\ UNCHANGED windows

\* Mutant: the window starts at base + size, inside the object just served.
Refill_NoSkew(c, size, header_size) ==
  \E base \in FreePlaces(UGC_ALLOC_QUANTUM) \union {NULL} :
    /\ ugc_zalloc(UGC_ALLOC_QUANTUM, base)
    /\ \/ base = NULL /\ result' = NULL /\ UNCHANGED windows
       \/ /\ base # NULL
          /\ alloc_ptr' = [alloc_ptr EXCEPT ![c] = base + size]
          /\ alloc_limit' =
               [alloc_limit EXCEPT ![c] = base + UGC_ALLOC_QUANTUM]
          /\ result' = base + header_size

\* Mutant: the limit counts the quantum from the first object, not the base.
Refill_LongLimit(c, size, header_size) ==
  \E base \in FreePlaces(UGC_ALLOC_QUANTUM) \union {NULL} :
    /\ ugc_zalloc(UGC_ALLOC_QUANTUM, base)
    /\ \/ base = NULL /\ result' = NULL /\ UNCHANGED windows
       \/ /\ base # NULL
          /\ alloc_ptr' = [alloc_ptr EXCEPT ![c] = base + header_size + size]
          /\ alloc_limit' = [alloc_limit EXCEPT
               ![c] = base + header_size + UGC_ALLOC_QUANTUM]
          /\ result' = base + header_size

\* Mutant: the window is dropped before the allocation of the new one fails.
Refill_DropFirst(c, size, header_size) ==
  \E base \in FreePlaces(UGC_ALLOC_QUANTUM) \union {NULL} :
    /\ ugc_zalloc(UGC_ALLOC_QUANTUM, base)
    /\ \/ /\ base = NULL
          /\ result' = NULL
          /\ alloc_ptr' = [alloc_ptr EXCEPT ![c] = NULL]
          /\ UNCHANGED alloc_limit
       \/ /\ base # NULL
          /\ alloc_ptr' = [alloc_ptr EXCEPT ![c] = base + header_size + size]
          /\ alloc_limit' =
               [alloc_limit EXCEPT ![c] = base + UGC_ALLOC_QUANTUM]
          /\ result' = base + header_size

(* The refill path: a fresh quantum becomes the window of the context,     *)
(* less the first header and the object; the old window is abandoned.      *)
ugc_ctx_refill(c, size, header_size) ==
  \E base \in FreePlaces(UGC_ALLOC_QUANTUM) \union {NULL} :
    /\ ugc_zalloc(UGC_ALLOC_QUANTUM, base)
    /\ \/ base = NULL /\ result' = NULL /\ UNCHANGED windows
       \/ /\ base # NULL
          /\ alloc_ptr' = [alloc_ptr EXCEPT ![c] = base + header_size + size]
          /\ alloc_limit' =
               [alloc_limit EXCEPT ![c] = base + UGC_ALLOC_QUANTUM]
          /\ result' = base + header_size

(* The bump path: the object is the front of the window. *)
FitsWindow(c, size) ==
  alloc_ptr[c] # NULL /\ Wrap(alloc_limit[c] - alloc_ptr[c]) >= size

\* Mutant: the window is not advanced past the object.
Bump_NoAdvance(c, size) ==
  /\ result' = alloc_ptr[c]
  /\ UNCHANGED <<blocks, windows>>

Bump(c, size) ==
  /\ alloc_ptr' = [alloc_ptr EXCEPT ![c] = @ + size]
  /\ result' = alloc_ptr[c]
  /\ UNCHANGED <<blocks, alloc_limit>>

-----------------------------------------------------------------------------
\* Mutant: no test for the overflow of size + header_size.
Overflows_Never(size, header_size) == FALSE

Overflows(size, header_size) == size > SIZE_MAX - header_size

Bypasses(acontext, size, bypass_context, header_size) ==
  \/ acontext = NoContext
  \/ bypass_context
  \/ Wrap(size + header_size) > UGC_ALLOC_QUANTUM

ugc_core_alloc(acontext, size, bypass_context, header_size) ==
  \/ /\ Overflows(size, header_size)
     /\ result' = NULL
     /\ UNCHANGED <<blocks, windows>>
  \/ /\ ~Overflows(size, header_size)
     /\ \/ /\ Bypasses(acontext, size, bypass_context, header_size)
           /\ ugc_alloc_direct(size, header_size)
        \/ /\ ~Bypasses(acontext, size, bypass_context, header_size)
           /\ FitsWindow(acontext, size)
           /\ Bump(acontext, size)
        \/ /\ ~Bypasses(acontext, size, bypass_context, header_size)
           /\ ~FitsWindow(acontext, size)
           /\ ugc_ctx_refill(acontext, size, header_size)

-----------------------------------------------------------------------------
(* uGCHeap::Alloc.  oldHeap is the GC_ALLOC_USER_OLD_HEAP bit of its flags *)

\* Mutant: the bytes of the whole heap are counted before the result is known.
Account_Always(acontext, size, oldHeap) ==
  /\ allocatedBytes' = allocatedBytes + size
  /\ IF result' = NULL \/ acontext = NoContext
     THEN UNCHANGED <<alloc_bytes, alloc_bytes_uoh>>
     ELSE IF oldHeap
     THEN /\ alloc_bytes_uoh' = [alloc_bytes_uoh EXCEPT ![acontext] = @ + size]
          /\ UNCHANGED alloc_bytes
     ELSE /\ alloc_bytes' = [alloc_bytes EXCEPT ![acontext] = @ + size]
          /\ UNCHANGED alloc_bytes_uoh

(* A served object counts for the heap and, when there is a context, for   *)
(* one of its two counters.                                                *)
Account(acontext, size, oldHeap) ==
  \/ result' = NULL /\ UNCHANGED counters
  \/ /\ result' # NULL
     /\ allocatedBytes' = allocatedBytes + size
     /\ \/ /\ acontext = NoContext
           /\ UNCHANGED <<alloc_bytes, alloc_bytes_uoh>>
        \/ /\ acontext # NoContext /\ oldHeap
           /\ alloc_bytes_uoh' =
                [alloc_bytes_uoh EXCEPT ![acontext] = @ + size]
           /\ UNCHANGED alloc_bytes
        \/ /\ acontext # NoContext /\ ~oldHeap
           /\ alloc_bytes' = [alloc_bytes EXCEPT ![acontext] = @ + size]
           /\ UNCHANGED alloc_bytes_uoh

(* History: who got which object, and by which path. *)
Record(object) == objects' = objects \union {object}

Alloc(acontext, size, oldHeap) ==
  /\ ugc_core_alloc(acontext, size, oldHeap, ObjectGap)
  /\ Account(acontext, size, oldHeap)
  /\ IF result' = NULL
     THEN UNCHANGED objects
     ELSE Record([addr |-> result', size |-> size, context |-> acontext,
                  path |-> IF oldHeap THEN "uoh" ELSE "soh"])

(* The runtime's inline allocation (RhpNewFast and friends): bump the      *)
(* context when the object fits, with no call into the GC.                 *)
FastAlloc(c, size) ==
  /\ alloc_ptr[c] + size <= alloc_limit[c]
  /\ alloc_ptr' = [alloc_ptr EXCEPT ![c] = @ + size]
  /\ Record([addr |-> alloc_ptr[c], size |-> size, context |-> c,
             path |-> "fast"])
  /\ UNCHANGED <<blocks, alloc_limit, counters, result>>

Next ==
  \/ \E c \in Contexts \union {NoContext}, s \in Sizes, oldHeap \in BOOLEAN :
       Alloc(c, s, oldHeap)
  \/ \E c \in Contexts, s \in Sizes : FastAlloc(c, s)

Spec == Init /\ [][Next]_vars

-----------------------------------------------------------------------------
(* Properties. *)

(* The values each variable can take. *)
TypeOK ==
  /\ blocks \subseteq [base : 1 .. HeapLimit, size : 1 .. SIZE_MAX]
  /\ alloc_ptr \in [Contexts -> 0 .. HeapLimit]
  /\ alloc_limit \in [Contexts -> 0 .. HeapLimit]
  /\ alloc_bytes \in [Contexts -> Nat]
  /\ alloc_bytes_uoh \in [Contexts -> Nat]
  /\ allocatedBytes \in Nat
  /\ result \in 0 .. HeapLimit
  /\ objects \subseteq [addr : 1 .. HeapLimit, size : Sizes,
                        context : Contexts \union {NoContext},
                        path : {"soh", "uoh", "fast"}]

(* The precondition context_window of ugc_core_alloc, which the code never *)
(* checks, holds at every call: a context is empty, or its pointer and its *)
(* limit lie in one quantum, the pointer behind the first header and not   *)
(* beyond the limit, the limit at the end of the quantum.                  *)
InQuantum(c, b) ==
  /\ b.size = UGC_ALLOC_QUANTUM
  /\ b.base + ObjectGap <= alloc_ptr[c]
  /\ alloc_ptr[c] <= alloc_limit[c]
  /\ alloc_limit[c] = b.base + b.size

EmptyWindow(c) == alloc_ptr[c] = NULL /\ alloc_limit[c] = NULL

ContextWindow ==
  \A c \in Contexts : EmptyWindow(c) \/ \E b \in blocks : InQuantum(c, b)

(* Every object, with its header and the header it pre-pays, lies in a     *)
(* block that calloc returned: no path under-allocates, and none offsets a *)
(* null block into a bogus object.                                         *)
InBlock(o, b) ==
  b.base <= o.addr - ObjectGap /\ o.addr + o.size <= b.base + b.size

ObjectsInBlocks == \A o \in objects : \E b \in blocks : InBlock(o, b)

(* Objects are 8-byte aligned on 32-bit targets too, as the comment on     *)
(* ObjectGap requires: the gap, the quantum and the sizes keep them so.    *)
ObjectsAligned == \A o \in objects : o.addr % 8 = 0

(* No two objects share a byte, headers included, whichever contexts and   *)
(* paths they came from: so the zeroes of calloc are intact when an object *)
(* is handed out, and writing one object never damages another.            *)
ObjectsDisjoint ==
  \A o, p \in objects :
    o = p \/ Disjoint(o.addr - ObjectGap, o.size, p.addr - ObjectGap, p.size)

(* The counters are exact for the slow path, as the comment on             *)
(* allocatedBytes says: the heap's for all callers, each context's for its *)
(* own objects, split by heap.  They count the bytes of memory that the    *)
(* objects own, each byte once.                                            *)
Extent(o) == o.addr - ObjectGap .. o.addr - ObjectGap + o.size - 1

Bytes(S) == Cardinality(UNION {Extent(o) : o \in S})

Served(c, path) == {o \in objects : o.context = c /\ o.path = path}

CountersExact ==
  /\ allocatedBytes = Bytes({o \in objects : o.path # "fast"})
  /\ \A c \in Contexts : /\ alloc_bytes[c] = Bytes(Served(c, "soh"))
                         /\ alloc_bytes_uoh[c] = Bytes(Served(c, "uoh"))

(* GetTotalBytesInUse returns the 64-bit counter as a size_t: the          *)
(* conversion never loses a bit, since what was served lies in memory.     *)
GetTotalBytesInUse == Wrap(allocatedBytes)

BytesInUseExact == GetTotalBytesInUse = allocatedBytes

(* An Alloc that fails, for want of memory or by overflow, leaves no trace *)
(* in the context, the counters or the memory: it can simply be retried.   *)
FailedAllocChangesNothing ==
  [][result' = NULL /\ objects' = objects
       => UNCHANGED <<blocks, windows, counters>>]_vars

(* The blocks, windows and paths implement the abstract heap: every object *)
(* served is a new one, apart from all the others, inside memory, counted  *)
(* once by allocatedBytes, and a call that fails changes only its result.  *)
Placed == {[addr |-> o.addr, size |-> o.size] : o \in objects}

Heap == INSTANCE ObjectHeap WITH
          Header <- ObjectGap, Limit <- HeapLimit, Null <- NULL,
          heap <- Placed, bytes <- allocatedBytes, answer <- result

ImplementsHeap == Heap!HeapSpec

=============================================================================
