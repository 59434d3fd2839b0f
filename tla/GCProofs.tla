------------------------------ MODULE GCProofs ------------------------------
(***************************************************************************)
(* The heap in its two surroundings.  Under the whole IGCHeap interface    *)
(* (GCHeap) every call that is not an allocation leaves the allocator      *)
(* alone, so GCSpec implements the specification of CoreAlloc and inherits *)
(* its theorems.  Together with the handles (GCRuntime) it does so too;    *)
(* there the store and the runtime's books are shown to agree.             *)
(***************************************************************************)
EXTENDS GCHeap, GCRuntime, CoreAllocProofs

(* Every call of the interface is a step of the allocator or none. *)
LEMMA GCStep == [GCNext]_gcVars => [Next]_vars
<1> SUFFICES ASSUME [GCNext]_gcVars PROVE [Next]_vars
  OBVIOUS
<1>1. CASE Allocate \/ InlineAllocate
  BY <1>1 DEF Allocate, InlineAllocate, Next
<1>2. CASE \E k \in 1 .. Len(ConstantMethods) :
             \E m \in DOMAIN ConstantMethods[k] :
               CallConstant(ConstantMethods[k], m)
  BY <1>2 DEF CallConstant
<1>3. CASE \E o \in {NULL} \union {p.addr : p \in objects} : IsHeapPointer(o)
  BY <1>3 DEF IsHeapPointer
<1>4. CASE GarbageCollect \/ Report \/ \E c \in Contexts : FixAllocContext(c)
  BY <1>4 DEF GarbageCollect, Report, FixAllocContext
<1>5. CASE \E g \in Segments :
             RegisterFrozenSegment(g) \/ UnregisterFrozenSegment(g)
  BY <1>5 DEF RegisterFrozenSegment, UnregisterFrozenSegment
<1>6. CASE UNCHANGED gcVars
  BY <1>6 DEF gcVars
<1> QED  BY <1>1, <1>2, <1>3, <1>4, <1>5, <1>6 DEF GCNext

(* For every configuration the heap behind the interface is the allocator: *)
(* collections, reports, stubs and frozen segments do not disturb it.      *)
THEOREM GCImplementsAlloc == GCSpec => Spec
<1>1. GCInit => Init
  BY DEF GCInit
<1> QED  BY <1>1, GCStep, PTL DEF GCSpec, Spec

-----------------------------------------------------------------------------
(* Handles are numbers up to the count, which nothing lowers: that makes   *)
(* the next one new.                                                       *)
SegmentIInv ==
  /\ registeredSegments \in Nat
  /\ segmentHandle \in [Segments -> Nat]
  /\ \A g \in Segments : segmentHandle[g] <= registeredSegments
  /\ SegmentHandlesDistinct

(* Every call of the interface preserves it. *)
LEMMA SegmentStep == SegmentIInv /\ [GCNext]_gcVars => SegmentIInv'
<1> SUFFICES ASSUME SegmentIInv, [GCNext]_gcVars PROVE SegmentIInv'
  OBVIOUS
<1>1. CASE UNCHANGED segmentVars
  BY <1>1 DEF SegmentIInv, SegmentHandlesDistinct, segmentVars
<1>2. ASSUME NEW g \in Segments, RegisterFrozenSegment(g)
      PROVE  SegmentIInv'
  <2>1. /\ registeredSegments' = registeredSegments + 1
        /\ segmentHandle' =
             [segmentHandle EXCEPT ![g] = registeredSegments + 1]
    BY <1>2 DEF RegisterFrozenSegment
  <2>2. \A h \in Segments :
          segmentHandle'[h] =
            IF h = g THEN registeredSegments + 1 ELSE segmentHandle[h]
    BY <2>1 DEF SegmentIInv
  <2>3. /\ registeredSegments' \in Nat
        /\ segmentHandle' \in [Segments -> Nat]
        /\ \A h \in Segments : segmentHandle'[h] <= registeredSegments'
    BY <2>1, <2>2 DEF SegmentIInv
  <2>4. SegmentHandlesDistinct'
    BY <2>1, <2>2 DEF SegmentIInv, SegmentHandlesDistinct, NULL
  <2> QED  BY <2>3, <2>4 DEF SegmentIInv
<1>3. ASSUME NEW g \in Segments, UnregisterFrozenSegment(g)
      PROVE  SegmentIInv'
  <2>1. /\ UNCHANGED registeredSegments
        /\ segmentHandle' = [segmentHandle EXCEPT ![g] = 0]
    BY <1>3 DEF UnregisterFrozenSegment, NULL
  <2>2. \A h \in Segments :
          segmentHandle'[h] = IF h = g THEN 0 ELSE segmentHandle[h]
    BY <2>1 DEF SegmentIInv
  <2>3. SegmentHandlesDistinct'
    BY <2>1, <2>2 DEF SegmentIInv, SegmentHandlesDistinct, NULL
  <2> QED  BY <2>1, <2>2, <2>3 DEF SegmentIInv
<1> QED
  BY <1>1, <1>2, <1>3
     DEF GCNext, Allocate, InlineAllocate, CallConstant, IsHeapPointer,
         GarbageCollect, FixAllocContext, Report, gcVars

(* For any number of registrations, no two segments that are registered    *)
(* have the same handle, and none has the null handle.                     *)
THEOREM GCSegmentHandlesDistinct == GCSpec => []SegmentHandlesDistinct
<1>1. GCInit => SegmentIInv
  BY DEF GCInit, SegmentIInv, SegmentHandlesDistinct, NULL
<1>2. SegmentIInv => SegmentHandlesDistinct
  BY DEF SegmentIInv
<1> QED  BY <1>1, <1>2, SegmentStep, PTL DEF GCSpec

-----------------------------------------------------------------------------
(* What the slow path served lies in blocks, byte for byte, so there are   *)
(* at least as many bytes in blocks as the counter says.                   *)
LEMMA ReportedBytesHeld ==
  ASSUME IInv, CountersExact
  PROVE  allocatedBytes <= Cardinality(BlockBytes)
<1> DEFINE slow == {o \in objects : o.path # "fast"}
<1>0. TypeOK
  BY DEF IInv
<1>1. BlockBytes \subseteq 1 .. HeapLimit
  <2> SUFFICES ASSUME NEW b \in blocks
               PROVE  b.base .. b.base + b.size - 1 \subseteq 1 .. HeapLimit
    BY DEF BlockBytes
  <2>1. b.base \in Nat /\ b.base >= 1 /\ b.size \in Nat
    BY <1>0, TypeFacts
  <2>2. b.base + b.size <= HeapLimit
    BY DEF IInv, BlocksInHeap
  <2> QED  BY <2>1, <2>2, AddressAssumption
<1>2. IsFiniteSet(BlockBytes)
  <2>1. 1 \in Int /\ HeapLimit \in Int
    BY AddressAssumption
  <2>2. IsFiniteSet(1 .. HeapLimit)
    BY <2>1, FS_Interval
  <2> QED  BY <1>1, <2>2, FS_Subset
<1>3. ASSUME NEW o \in slow PROVE Extent(o) \subseteq BlockBytes
  <2>1. PICK b \in blocks : InBlock(o, b)
    BY DEF IInv, ObjectsInBlocks
  <2>2. b.base \in Nat /\ b.size \in Nat /\ o.addr \in Nat /\ o.size \in Nat
    BY <1>0, TypeFacts
  <2>3. Extent(o) \subseteq b.base .. b.base + b.size - 1
    BY <2>1, <2>2, GapIs8 DEF InBlock, Extent
  <2> QED  BY <2>3 DEF BlockBytes
<1>4. Owned(slow) \subseteq BlockBytes
  BY <1>3 DEF Owned
<1>5. Cardinality(Owned(slow)) <= Cardinality(BlockBytes)
  BY <1>2, <1>4, FS_Subset
<1>6. allocatedBytes = Cardinality(Owned(slow))
  BY DEF CountersExact, Bytes, Owned
<1> QED  BY <1>5, <1>6

(* For every configuration, whatever was allocated, refused or collected   *)
(* before, the three reports agree and claim no byte calloc did not give.  *)
THEOREM GCReportsBacked == GCSpec => []ReportsBacked
<1>1. IInv /\ CountersExact => ReportsBacked
  <2> SUFFICES ASSUME IInv, CountersExact PROVE ReportsBacked
    OBVIOUS
  <2>1. Wrap(allocatedBytes) = allocatedBytes
    BY BytesInUse DEF BytesInUseExact, GetTotalBytesInUse
  <2> QED
    BY <2>1, ReportedBytesHeld
       DEF ReportsBacked, GetMemoryInfo, GetTotalBytesInUse,
           GetTotalAllocatedBytes, GetCurrentObjSize
<1> QED
  BY <1>1, GCImplementsAlloc, AllocInvariant, AllocCountersExact, PTL

-----------------------------------------------------------------------------
(* Heap and handles together.  What the store keeps for itself: indices on *)
(* the stack are in the array, tagged and not repeated, so that a create   *)
(* takes a slot nobody has, and a destroy finds room to push.              *)
StoreInv ==
  /\ ugc_handle_count \in 0 .. UGC_HANDLE_COUNT
  /\ ugc_handle_free_count \in 0 .. UGC_HANDLE_COUNT
  /\ ugc_handle_free_stack \in [Store!Idx -> Store!Idx]
  /\ ugc_handle_types \in [Store!Idx -> Int]
  /\ ugc_handles \in [Store!Idx -> Nat]
  /\ ugc_handle_dependent \in [Store!Idx -> Nat]
  /\ Store!FreeStackSound
  /\ Store!FreeStackNoDuplicate

(* What the books say: every entry names an owner, or none, and objects    *)
(* that the heap has served.                                               *)
LedgerEntries ==
  [owner : Owners \union {"none", "orphan"},
   object : KnownObjects, secondary : KnownObjects]

LedgerInv == ledger \in [Store!Idx -> LedgerEntries] /\ LedgerTrue

(* The index of the address of a slot is the slot's index. *)
LEMMA SlotAddress ==
  ASSUME NEW i \in Store!Idx
  PROVE  /\ Store!ugc_handle_index(Store!Slot(i)) = i
         /\ Store!ugc_handle_store_contains(Store!Slot(i))
         /\ Store!Slot(i) # NULL
<1>1. i \in Nat /\ i < UGC_HANDLE_COUNT /\ UGC_HANDLE_COUNT \in Nat
  BY StoreAssumption DEF Store!Idx
<1>2. CASE PtrSize = 4
  BY <1>1, <1>2, StoreAssumption
     DEF Store!ugc_handle_index, Store!Slot, Store!ugc_handle_store_contains,
         NULL
<1>3. CASE PtrSize = 8
  BY <1>1, <1>3, StoreAssumption
     DEF Store!ugc_handle_index, Store!Slot, Store!ugc_handle_store_contains,
         NULL
<1> QED  BY <1>2, <1>3, StoreAssumption

(* Indices below the counters are in the arrays. *)
LEMMA PrefixInStore ==
  ASSUME NEW n \in 0 .. UGC_HANDLE_COUNT
  PROVE  0 .. n - 1 \subseteq Store!Idx
BY StoreAssumption DEF Store!Idx

(* What is below the top of the stack is not live. *)
LEMMA StackedNotLive ==
  ASSUME StoreInv
  PROVE  /\ Store!Live \subseteq Store!Idx
         /\ 0 .. ugc_handle_free_count - 1 \subseteq Store!Idx
         /\ \A k \in 0 .. ugc_handle_free_count - 1 :
              /\ ugc_handle_free_stack[k] \in Store!Idx
              /\ ugc_handle_free_stack[k] < ugc_handle_count
              /\ ugc_handle_types[ugc_handle_free_stack[k]] < 0
              /\ ugc_handle_free_stack[k] \notin Store!Live
<1>1. /\ 0 .. ugc_handle_free_count - 1 \subseteq Store!Idx
      /\ 0 .. ugc_handle_count - 1 \subseteq Store!Idx
  BY PrefixInStore DEF StoreInv
<1>2. Store!Live \subseteq Store!Idx
  BY <1>1 DEF Store!Live
<1> SUFFICES ASSUME NEW k \in 0 .. ugc_handle_free_count - 1
             PROVE  /\ ugc_handle_free_stack[k] \in Store!Idx
                    /\ ugc_handle_free_stack[k] < ugc_handle_count
                    /\ ugc_handle_types[ugc_handle_free_stack[k]] < 0
                    /\ ugc_handle_free_stack[k] \notin Store!Live
  BY <1>1, <1>2
<1>3. /\ ugc_handle_free_stack[k] \in Store!Idx
      /\ ugc_handle_free_stack[k] < ugc_handle_count
      /\ ugc_handle_types[ugc_handle_free_stack[k]] < 0
  BY <1>1 DEF StoreInv, Store!FreeStackSound
<1>4. ugc_handle_types[ugc_handle_free_stack[k]] \in Int
  BY <1>3 DEF StoreInv
<1> QED  BY <1>3, <1>4 DEF Store!Live

(* While a handle is live the stack is not full: it holds distinct slots,  *)
(* and not that one.                                                       *)
LEMMA RoomToPush ==
  ASSUME StoreInv, NEW i \in Store!Live
  PROVE  ugc_handle_free_count # UGC_HANDLE_COUNT
<1> SUFFICES ASSUME ugc_handle_free_count = UGC_HANDLE_COUNT PROVE FALSE
  OBVIOUS
<1>1. 0 \in Int /\ UGC_HANDLE_COUNT - 1 \in Int /\ 0 <= UGC_HANDLE_COUNT - 1
  BY StoreAssumption
<1>2. IsFiniteSet(Store!Idx) /\ Cardinality(Store!Idx) = UGC_HANDLE_COUNT
  <2>1. /\ IsFiniteSet(0 .. UGC_HANDLE_COUNT - 1)
        /\ Cardinality(0 .. UGC_HANDLE_COUNT - 1) =
             (UGC_HANDLE_COUNT - 1) - 0 + 1
    BY <1>1, FS_Interval
  <2> QED  BY <2>1, StoreAssumption DEF Store!Idx
<1>3. 0 .. ugc_handle_free_count - 1 = Store!Idx
  BY DEF Store!Idx
<1>4. ugc_handle_free_stack \in [Store!Idx -> Store!Idx \ {i}]
  <2>1. \A k \in Store!Idx : ugc_handle_free_stack[k] \in Store!Idx \ {i}
    BY <1>3, StackedNotLive
  <2> QED  BY <2>1 DEF StoreInv
<1>5. /\ IsFiniteSet(Store!Idx \ {i})
      /\ Cardinality(Store!Idx \ {i}) = UGC_HANDLE_COUNT - 1
  <2>1. i \in Store!Idx
    BY StackedNotLive
  <2> QED  BY <1>2, <2>1, FS_RemoveElement
<1>6. UGC_HANDLE_COUNT - 1 < UGC_HANDLE_COUNT
  BY <1>1, StoreAssumption
<1>7. \E j, k \in Store!Idx :
        j # k /\ ugc_handle_free_stack[j] = ugc_handle_free_stack[k]
  BY <1>2, <1>4, <1>5, <1>6, FS_PigeonHole
<1> QED  BY <1>3, <1>7 DEF StoreInv, Store!FreeStackNoDuplicate

-----------------------------------------------------------------------------
(* What each way to change the store does to its arrays. *)

(* A create fails and changes nothing, or takes a slot that is not live.   *)
LEMMA StoreCreate ==
  ASSUME StoreInv, NEW o \in Nat, NEW t \in Int, t >= 0, NEW x, NEW s \in Nat,
         Store!CreateSlot(o, t, x, s)
  PROVE  /\ StoreInv'
         /\ \/ /\ ret' = NULL /\ Store!Live' = Store!Live
               /\ UNCHANGED <<ugc_handles, ugc_handle_dependent>>
            \/ \E i \in Store!Idx \ Store!Live :
                 /\ ret' = Store!Slot(i)
                 /\ Store!Live' = Store!Live \union {i}
                 /\ ugc_handles' = [ugc_handles EXCEPT ![i] = o]
                 /\ ugc_handle_dependent' =
                      [ugc_handle_dependent EXCEPT ![i] = s]
<1> DEFINE n == ugc_handle_free_count
           stack == ugc_handle_free_stack
<1>1. PICK i \in Store!Idx \union {-1} :
        Store!ugc_handle_slot_acquire(i) /\ Store!FillSlot(i, o, t, x, s)
  BY DEF Store!CreateSlot
<1>2. UNCHANGED ugc_handle_free_stack
  BY DEF Store!CreateSlot
<1>3. i \in Int /\ n \in Nat /\ ugc_handle_count \in Nat
  BY StoreAssumption DEF Store!Idx, StoreInv
<1>4. CASE i < 0
  <2>1. i = -1 /\ i \notin Store!Idx
    BY <1>3, <1>4, StoreAssumption DEF Store!Idx
  <2>2. n > 0 => stack[n - 1] \in Store!Idx
    BY <1>3, StackedNotLive
  <2>3. UNCHANGED <<ugc_handle_count, ugc_handle_free_count>>
    BY <1>1, <1>3, <2>1, <2>2
       DEF Store!ugc_handle_slot_acquire, Store!counts
  <2>4. ret' = NULL /\ UNCHANGED <<ugc_handles, ugc_handle_types,
                                   ugc_handle_dependent>>
    BY <1>1, <1>3, <1>4 DEF Store!FillSlot, Store!arrays, Store!NULL, NULL
  <2> QED
    BY <1>2, <2>3, <2>4
       DEF StoreInv, Store!FreeStackSound, Store!FreeStackNoDuplicate,
           Store!Live
<1>5. CASE i >= 0
  <2>0. i \in Store!Idx
    BY <1>3, <1>5
  <2>1. /\ ret' = Store!Slot(i)
        /\ ugc_handles' = [ugc_handles EXCEPT ![i] = o]
        /\ ugc_handle_types' = [ugc_handle_types EXCEPT ![i] = t]
        /\ ugc_handle_dependent' = [ugc_handle_dependent EXCEPT ![i] = s]
    BY <1>1, <1>3, <1>5 DEF Store!FillSlot
  <2>2. \/ /\ n > 0 /\ i = stack[n - 1] /\ n' = n - 1
           /\ UNCHANGED ugc_handle_count
        \/ /\ n = 0 /\ n' = 0 /\ i = ugc_handle_count
           /\ ugc_handle_count < UGC_HANDLE_COUNT
           /\ ugc_handle_count' = ugc_handle_count + 1
    BY <1>1, <1>3, <1>5 DEF Store!ugc_handle_slot_acquire
  <2>3. /\ ugc_handle_types'[i] = t
        /\ \A j \in Store!Idx : j # i =>
             ugc_handle_types'[j] = ugc_handle_types[j]
    BY <2>0, <2>1 DEF StoreInv
  <2>4. /\ i \notin Store!Live
        /\ \A j \in Store!Idx :
             j \in 0 .. ugc_handle_count' - 1 <=>
               j = i \/ j \in 0 .. ugc_handle_count - 1
    <3>1. CASE n > 0 /\ i = stack[n - 1] /\ n' = n - 1
               /\ UNCHANGED ugc_handle_count
      <4>1. n - 1 \in 0 .. n - 1
        BY <1>3, <3>1
      <4>2. i \notin Store!Live /\ i < ugc_handle_count
        BY <3>1, <4>1, StackedNotLive
      <4> QED  BY <1>3, <1>5, <3>1, <4>2
    <3>2. CASE n = 0 /\ n' = 0 /\ i = ugc_handle_count
               /\ ugc_handle_count' = ugc_handle_count + 1
      BY <1>3, <3>2 DEF Store!Live, Store!Idx
    <3> QED  BY <2>2, <3>1, <3>2
  <2>5. Store!Live' = Store!Live \union {i}
    <3>1. Store!Live \subseteq Store!Idx
      BY StackedNotLive
    <3>2. ugc_handle_count' \in 0 .. UGC_HANDLE_COUNT
      BY <1>3, <2>2, StoreAssumption DEF StoreInv
    <3>3. 0 .. ugc_handle_count' - 1 \subseteq Store!Idx
      BY <3>2, PrefixInStore
    <3>4. Store!Live' \subseteq Store!Idx
      BY <3>3 DEF Store!Live
    <3>5. \A j \in Store!Idx :
            j \in Store!Live' <=> j \in Store!Live \union {i}
      BY <2>3, <2>4 DEF Store!Live
    <3> QED  BY <2>0, <3>1, <3>4, <3>5
  <2>6. /\ n' \in 0 .. UGC_HANDLE_COUNT
        /\ ugc_handle_count' \in 0 .. UGC_HANDLE_COUNT
        /\ ugc_handle_count <= ugc_handle_count'
        /\ \A k \in 0 .. n' - 1 : k \in 0 .. n - 1 /\ stack[k] # i
    BY <1>3, <2>2, StoreAssumption DEF StoreInv, Store!FreeStackNoDuplicate
  <2>7. /\ ugc_handle_types' \in [Store!Idx -> Int]
        /\ ugc_handles' \in [Store!Idx -> Nat]
        /\ ugc_handle_dependent' \in [Store!Idx -> Nat]
    BY <2>1 DEF StoreInv
  <2>8. Store!FreeStackSound'
    <3> SUFFICES ASSUME NEW k \in 0 .. n' - 1
                 PROVE  /\ stack[k] < ugc_handle_count'
                        /\ ugc_handle_types'[stack[k]] < 0
      BY <1>2 DEF Store!FreeStackSound
    <3>1. /\ stack[k] \in Store!Idx /\ stack[k] # i
          /\ stack[k] < ugc_handle_count
          /\ ugc_handle_types[stack[k]] < 0
      BY <2>6, StackedNotLive
    <3>2. stack[k] \in Int /\ ugc_handle_count' \in Int
      BY <2>6, <3>1, StoreAssumption DEF Store!Idx
    <3> QED  BY <1>3, <2>3, <2>6, <3>1, <3>2
  <2>9. Store!FreeStackNoDuplicate'
    BY <1>2, <2>6 DEF StoreInv, Store!FreeStackNoDuplicate
  <2>10. StoreInv'
    BY <1>2, <2>6, <2>7, <2>8, <2>9 DEF StoreInv
  <2> QED  BY <2>0, <2>1, <2>4, <2>5, <2>10
<1> QED  BY <1>3, <1>4, <1>5

(* A destroy of a live handle frees its slot and no other. *)
LEMMA StoreDestroy ==
  ASSUME StoreInv, NEW i \in Store!Live, Store!DestroyHandle(Store!Slot(i))
  PROVE  /\ StoreInv'
         /\ Store!Live' = Store!Live \ {i}
         /\ \A j \in Store!Idx \ {i} :
              /\ ugc_handles'[j] = ugc_handles[j]
              /\ ugc_handle_dependent'[j] = ugc_handle_dependent[j]
<1> DEFINE n == ugc_handle_free_count
           stack == ugc_handle_free_stack
<1>1. /\ i \in Store!Idx /\ ugc_handle_types[i] >= 0
      /\ i \in 0 .. ugc_handle_count - 1
  BY StackedNotLive DEF Store!Live
<1>2. /\ n # UGC_HANDLE_COUNT /\ n \in 0 .. UGC_HANDLE_COUNT
      /\ ugc_handle_types[i] \in Int /\ ugc_handle_count \in Nat
  BY <1>1, RoomToPush DEF StoreInv
<1>3. Store!FreeSlot(i)
  <2>1. Store!ugc_handle_destroy_at(i)
    BY <1>1, SlotAddress DEF Store!DestroyHandle
  <2> QED  BY <1>1, <1>2, <2>1 DEF Store!ugc_handle_destroy_at
<1>4. /\ ugc_handles' = [ugc_handles EXCEPT ![i] = 0]
      /\ ugc_handle_types' = [ugc_handle_types EXCEPT ![i] = -1]
      /\ ugc_handle_dependent' = [ugc_handle_dependent EXCEPT ![i] = 0]
      /\ stack' = [stack EXCEPT ![n] = i]
      /\ n' = n + 1
      /\ UNCHANGED ugc_handle_count
  BY <1>3 DEF Store!FreeSlot, Store!NULL, Store!UGC_HANDLE_TYPE_FREE
<1>5. n \in Store!Idx /\ n \in Nat /\ n' \in 0 .. UGC_HANDLE_COUNT
  BY <1>2, <1>4, StoreAssumption DEF Store!Idx
<1>6. /\ ugc_handle_types' \in [Store!Idx -> Int]
      /\ ugc_handles' \in [Store!Idx -> Nat]
      /\ ugc_handle_dependent' \in [Store!Idx -> Nat]
      /\ stack' \in [Store!Idx -> Store!Idx]
  <2>1. ugc_handle_types' \in [Store!Idx -> Int]
    <3>1. -1 \in Int
      OBVIOUS
    <3> QED  BY <1>4, <3>1 DEF StoreInv
  <2>2. /\ ugc_handles' \in [Store!Idx -> Nat]
        /\ ugc_handle_dependent' \in [Store!Idx -> Nat]
    BY <1>4 DEF StoreInv
  <2>3. stack' \in [Store!Idx -> Store!Idx]
    BY <1>1, <1>4 DEF StoreInv
  <2> QED  BY <2>1, <2>2, <2>3
<1>7. /\ ugc_handle_types'[i] = -1
      /\ \A j \in Store!Idx \ {i} :
           /\ ugc_handle_types'[j] = ugc_handle_types[j]
           /\ ugc_handles'[j] = ugc_handles[j]
           /\ ugc_handle_dependent'[j] = ugc_handle_dependent[j]
  BY <1>1, <1>4 DEF StoreInv
<1>8. \A k \in 0 .. n' - 1 : k = n \/ k \in 0 .. n - 1
  BY <1>4, <1>5
<1>9. /\ stack'[n] = i
      /\ \A k \in 0 .. n - 1 :
           /\ stack'[k] = stack[k] /\ stack[k] # i
           /\ stack[k] \in Store!Idx /\ stack[k] < ugc_handle_count
           /\ ugc_handle_types[stack[k]] < 0
  <2>1. \A k \in 0 .. n - 1 : k \in Store!Idx /\ k # n
    BY <1>5, StackedNotLive
  <2> QED  BY <1>4, <1>5, <2>1, StackedNotLive DEF StoreInv
<1>10. Store!FreeStackSound'
  <2> SUFFICES ASSUME NEW k \in 0 .. n' - 1
               PROVE  /\ stack'[k] < ugc_handle_count
                      /\ ugc_handle_types'[stack'[k]] < 0
    BY <1>4 DEF Store!FreeStackSound
  <2>1. CASE k = n
    BY <1>1, <1>2, <1>7, <1>9, <2>1
  <2>2. CASE k \in 0 .. n - 1
    BY <1>7, <1>9, <2>2
  <2> QED  BY <1>8, <2>1, <2>2
<1>11. Store!FreeStackNoDuplicate'
  BY <1>8, <1>9 DEF StoreInv, Store!FreeStackNoDuplicate
<1>12. StoreInv'
  BY <1>2, <1>4, <1>5, <1>6, <1>10, <1>11 DEF StoreInv
<1>13. Store!Live' = Store!Live \ {i}
  <2>1. Store!Live' \subseteq Store!Idx /\ Store!Live \subseteq Store!Idx
    <3>1. 0 .. ugc_handle_count - 1 \subseteq Store!Idx
      BY PrefixInStore DEF StoreInv
    <3> QED  BY <1>4, <3>1 DEF Store!Live
  <2>2. \A j \in Store!Idx : j \in Store!Live' <=> j \in Store!Live \ {i}
    BY <1>4, <1>7 DEF Store!Live
  <2> QED  BY <2>1, <2>2
<1> QED  BY <1>7, <1>12, <1>13

(* A write of objects or secondaries is no more than that. *)
LEMMA StoreWrite ==
  ASSUME StoreInv,
         UNCHANGED <<ugc_handle_count, ugc_handle_free_count,
                     ugc_handle_types, ugc_handle_free_stack>>,
         ugc_handles' \in [Store!Idx -> Nat],
         ugc_handle_dependent' \in [Store!Idx -> Nat]
  PROVE  StoreInv' /\ Store!Live' = Store!Live
BY DEF StoreInv, Store!Live, Store!FreeStackSound, Store!FreeStackNoDuplicate

-----------------------------------------------------------------------------
(* The runtime's steps. *)

(* Every one of them is a step of the allocator or none. *)
LEMMA RuntimeStep == [RuntimeNext]_runtimeVars => [Next]_vars
BY DEF RuntimeNext, runtimeVars, GC_Initialize, Initialize,
       GetGlobalHandleStore, CreateHandleStore, DestroyHandleStore, Uproot,
       Shutdown, TraceRefCountedHandles, CreateHandle, CreateManagerHandle,
       DestroyHandle, WriteHandle, AllocateObject

(* For every configuration the heap that the runtime works on, handles and *)
(* stores beside it, is the allocator.                                     *)
THEOREM RuntimeImplementsAlloc == RuntimeSpec => Spec
<1>1. RuntimeInit => Init
  BY DEF RuntimeInit
<1> QED  BY <1>1, RuntimeStep, PTL DEF RuntimeSpec, Spec

(* The allocator takes no object back. *)
LEMMA ObjectsKept == [Next]_vars => objects \subseteq objects'
BY DEF Next, Alloc, FastAlloc, Record, vars

(* Objects are addresses, and a handle in the books is live. *)
LEMMA LedgerFacts ==
  ASSUME TypeOK, LedgerInv
  PROVE  /\ KnownObjects \subseteq Nat /\ NULL \in KnownObjects
         /\ \A i \in Store!Idx :
              /\ ledger[i].object \in KnownObjects
              /\ ledger[i].secondary \in KnownObjects
         /\ Held \subseteq Store!Live /\ Held \subseteq Store!Idx
<1>1. KnownObjects \subseteq Nat /\ NULL \in KnownObjects
  BY TypeFacts DEF KnownObjects, NULL
<1>2. \A i \in Store!Idx : /\ ledger[i].object \in KnownObjects
                           /\ ledger[i].secondary \in KnownObjects
  BY DEF LedgerInv, LedgerEntries
<1>3. "none" \notin Owners
  BY OwnersAssumption DEF Owners
<1> QED  BY <1>1, <1>2, <1>3 DEF Held, LedgerInv, LedgerTrue

(* A step that leaves the handles and the books alone. *)
LEMMA BooksKept ==
  ASSUME StoreInv, LedgerInv, objects \subseteq objects',
         UNCHANGED <<handleVars, ledger>>
  PROVE  StoreInv' /\ LedgerInv'
<1>1. /\ UNCHANGED <<ugc_handle_count, ugc_handle_free_count,
                     ugc_handle_types, ugc_handle_free_stack>>
      /\ UNCHANGED <<ugc_handles, ugc_handle_dependent>>
  BY DEF handleVars
<1>2. StoreInv' /\ Store!Live' = Store!Live
  BY <1>1, StoreWrite DEF StoreInv
<1>3. LedgerTrue'
  BY <1>1, <1>2 DEF LedgerInv, LedgerTrue
<1>4. LedgerEntries \subseteq LedgerEntries'
  BY DEF LedgerEntries, KnownObjects
<1> QED  BY <1>2, <1>3, <1>4 DEF LedgerInv

(* A create, and what is filed for it. *)
LEMMA CreateFiled ==
  ASSUME TypeOK, StoreInv, LedgerInv, UNCHANGED objects,
         NEW w \in Owners, NEW o \in KnownObjects, NEW s \in KnownObjects,
         NEW t \in Int, t >= 0, NEW x,
         Store!CreateSlot(o, t, x, s), File(w, o, s)
  PROVE  StoreInv' /\ LedgerInv'
<1>0. o \in Nat /\ s \in Nat
  BY LedgerFacts
<1>1. StoreInv'
  BY <1>0, StoreCreate
<1>2. LedgerEntries' = LedgerEntries
  BY DEF LedgerEntries, KnownObjects
<1>3. CASE /\ ret' = NULL /\ Store!Live' = Store!Live
           /\ UNCHANGED <<ugc_handles, ugc_handle_dependent>>
  <2>1. ledger' = ledger
    BY <1>3 DEF File
  <2> QED  BY <1>1, <1>2, <1>3, <2>1 DEF LedgerInv, LedgerTrue
<1>4. ASSUME NEW i \in Store!Idx \ Store!Live,
             ret' = Store!Slot(i),
             Store!Live' = Store!Live \union {i},
             ugc_handles' = [ugc_handles EXCEPT ![i] = o],
             ugc_handle_dependent' = [ugc_handle_dependent EXCEPT ![i] = s]
      PROVE  LedgerInv'
  <2> DEFINE entry == [owner |-> w, object |-> o, secondary |-> s]
  <2>1. ledger' = [ledger EXCEPT ![i] = entry]
    BY <1>4, SlotAddress DEF File
  <2>2. entry \in LedgerEntries
    BY DEF LedgerEntries
  <2>3. ledger' \in [Store!Idx -> LedgerEntries]
    BY <2>1, <2>2 DEF LedgerInv
  <2>4. \A j \in Store!Idx :
          /\ ledger'[j] = IF j = i THEN entry ELSE ledger[j]
          /\ ugc_handles'[j] = IF j = i THEN o ELSE ugc_handles[j]
          /\ ugc_handle_dependent'[j] =
               IF j = i THEN s ELSE ugc_handle_dependent[j]
    BY <1>4, <2>1 DEF LedgerInv, StoreInv
  <2>5. entry.owner # "none" /\ entry.object = o /\ entry.secondary = s
    BY OwnersAssumption DEF Owners
  <2> HIDE DEF entry
  <2>6. LedgerTrue'
    BY <1>4, <2>4, <2>5 DEF LedgerInv, LedgerTrue
  <2> QED  BY <1>2, <2>3, <2>6 DEF LedgerInv
<1> QED  BY <1>0, <1>1, <1>3, <1>4, StoreCreate

(* Creates through a store, and those the manager makes itself.            *)
LEMMA CreateBooks ==
  ASSUME TypeOK, StoreInv, LedgerInv, CreateHandle \/ CreateManagerHandle
  PROVE  StoreInv' /\ LedgerInv'
<1> USE DEF Store!NULL, NULL
<1>0. /\ UNCHANGED objects
      /\ \A t \in Types : t \in Int /\ t >= 0
      /\ HNDTYPE_DEPENDENT \in Int /\ HNDTYPE_DEPENDENT >= 0
  BY HandleTypesAssumption DEF CreateHandle, CreateManagerHandle, vars
<1>1. 0 \in KnownObjects /\ "global" \in Owners
  BY DEF KnownObjects, Owners
<1>2. ASSUME NEW w \in Owners, NEW o \in KnownObjects, NEW t \in Types,
             Store!CreateHandleOfType(o, t), File(w, o, NULL)
      PROVE  StoreInv' /\ LedgerInv'
  <2>1. Store!CreateSlot(o, t, 0, 0)
    BY <1>2 DEF Store!CreateHandleOfType, Store!ugc_handle_create
  <2> QED  BY <1>0, <1>1, <1>2, <2>1, CreateFiled
<1>3. ASSUME NEW w \in Owners, NEW o \in KnownObjects, NEW s \in KnownObjects,
             Store!CreateDependentHandle(o, s), File(w, o, s)
      PROVE  StoreInv' /\ LedgerInv'
  <2>1. Store!CreateSlot(o, HNDTYPE_DEPENDENT, 0, s)
    BY <1>3
       DEF Store!CreateDependentHandle, Store!ugc_handle_create_dependent
  <2> QED  BY <1>0, <1>3, <2>1, CreateFiled
<1>4. ASSUME NEW i \in Held, Store!CreateDuplicateHandle(Store!Slot(i)),
             File("global", ledger[i].object, NULL)
      PROVE  StoreInv' /\ LedgerInv'
  <2>1. i \in Store!Live /\ i \in Store!Idx
    BY LedgerFacts
  <2>2. Store!CreateSlot(ugc_handles[i], ugc_handle_types[i], 0, 0)
    BY <1>4, <2>1, SlotAddress
       DEF Store!CreateDuplicateHandle, Store!ugc_handle_create,
           Store!ugc_handle_get_type_at
  <2>3. ugc_handle_types[i] \in Int /\ ugc_handle_types[i] >= 0
    BY <2>1 DEF StoreInv, Store!Live
  <2>4. /\ ugc_handles[i] = ledger[i].object
        /\ ledger[i].object \in KnownObjects
    BY <2>1, LedgerFacts DEF LedgerInv, LedgerTrue
  <2>5. Store!CreateSlot(ledger[i].object, ugc_handle_types[i], 0, 0)
    BY <2>2, <2>4
  <2> QED  BY <1>0, <1>1, <1>4, <2>3, <2>4, <2>5, CreateFiled
<1>5. CASE CreateHandle
  BY <1>2, <1>3, <1>5 DEF CreateHandle
<1>6. CASE CreateManagerHandle
  BY <1>1, <1>2, <1>4, <1>6 DEF CreateManagerHandle
<1> QED  BY <1>5, <1>6

(* A destroy takes the handle out of the store and out of the books. *)
LEMMA DestroyBooks ==
  ASSUME TypeOK, StoreInv, LedgerInv, DestroyHandle
  PROVE  StoreInv' /\ LedgerInv'
<1>0. UNCHANGED objects
  BY DEF DestroyHandle, vars
<1>1. PICK i \in Held : /\ Store!DestroyHandle(Store!Slot(i))
                        /\ ledger' = [ledger EXCEPT ![i] = NoEntry]
  BY DEF DestroyHandle
<1>2. i \in Store!Live /\ i \in Store!Idx
  BY LedgerFacts
<1>3. /\ StoreInv'
      /\ Store!Live' = Store!Live \ {i}
      /\ \A j \in Store!Idx \ {i} :
           /\ ugc_handles'[j] = ugc_handles[j]
           /\ ugc_handle_dependent'[j] = ugc_handle_dependent[j]
  BY <1>1, <1>2, StoreDestroy
<1>4. NoEntry \in LedgerEntries /\ NoEntry.owner = "none"
  BY DEF NoEntry, LedgerEntries, KnownObjects
<1>5. LedgerEntries' = LedgerEntries
  BY <1>0 DEF LedgerEntries, KnownObjects
<1>6. /\ ledger' \in [Store!Idx -> LedgerEntries]
      /\ \A j \in Store!Idx :
           ledger'[j] = IF j = i THEN NoEntry ELSE ledger[j]
  BY <1>1, <1>4 DEF LedgerInv
<1>7. LedgerTrue'
  BY <1>3, <1>4, <1>6 DEF LedgerInv, LedgerTrue
<1> QED  BY <1>3, <1>5, <1>6, <1>7 DEF LedgerInv

(* What is written through a handle is written in the books. *)
LEMMA WrittenTrue ==
  ASSUME TypeOK, StoreInv, LedgerInv, UNCHANGED objects,
         NEW i \in Held, NEW o \in KnownObjects, NEW s \in KnownObjects,
         UNCHANGED <<ugc_handle_count, ugc_handle_free_count,
                     ugc_handle_types, ugc_handle_free_stack>>,
         \A j \in Store!Idx :
           /\ ugc_handles'[j] = IF j = i THEN o ELSE ugc_handles[j]
           /\ ugc_handle_dependent'[j] =
                IF j = i THEN s ELSE ugc_handle_dependent[j],
         ugc_handles' \in [Store!Idx -> Nat],
         ugc_handle_dependent' \in [Store!Idx -> Nat],
         ledger' \in [Store!Idx -> LedgerEntries],
         \A j \in Store!Idx : j # i => ledger'[j] = ledger[j],
         /\ ledger'[i].owner = ledger[i].owner
         /\ ledger'[i].object = o
         /\ ledger'[i].secondary = s
  PROVE  StoreInv' /\ LedgerInv'
<1>1. StoreInv' /\ Store!Live' = Store!Live
  BY StoreWrite
<1>2. LedgerEntries' = LedgerEntries
  BY DEF LedgerEntries, KnownObjects
<1>3. i \in Store!Idx
  BY LedgerFacts
<1>4. LedgerTrue'
  BY <1>1, <1>3 DEF LedgerInv, LedgerTrue
<1> QED  BY <1>1, <1>2, <1>4 DEF LedgerInv

(* The four ways to write through a handle. *)
LEMMA WriteBooks ==
  ASSUME TypeOK, StoreInv, LedgerInv, WriteHandle
  PROVE  StoreInv' /\ LedgerInv'
<1>0. UNCHANGED objects
  BY DEF WriteHandle, vars
<1>1. PICK i \in Held, o \in KnownObjects :
        \/ /\ Store!StoreObjectInHandle(Store!Slot(i), o)
           /\ ledger' = [ledger EXCEPT ![i].object = o]
        \/ /\ Store!StoreObjectInHandleIfNull(Store!Slot(i), o)
           /\ ledger' = IF ret' = 1 THEN [ledger EXCEPT ![i].object = o]
                        ELSE ledger
        \/ /\ Store!SetDependentHandleSecondary(Store!Slot(i), o)
           /\ ledger' = [ledger EXCEPT ![i].secondary = o]
        \/ \E c \in KnownObjects :
             /\ Store!InterlockedCompareExchangeObjectInHandle(
                  Store!Slot(i), o, c)
             /\ ledger' = [ledger EXCEPT ![i].object = ret']
  BY DEF WriteHandle
<1>2. /\ i \in Store!Idx /\ i \in Store!Live
      /\ Store!ugc_handle_index(Store!Slot(i)) = i
      /\ o \in Nat /\ KnownObjects \subseteq Nat
      /\ ledger[i].object \in KnownObjects
      /\ ledger[i].secondary \in KnownObjects
      /\ ugc_handles[i] = ledger[i].object
      /\ ugc_handle_dependent[i] = ledger[i].secondary
  BY LedgerFacts, SlotAddress DEF LedgerInv, LedgerTrue
<1>3. CASE /\ UNCHANGED <<ugc_handle_count, ugc_handle_free_count,
                          ugc_handle_types, ugc_handle_free_stack,
                          ugc_handle_dependent>>
           /\ ugc_handles' = [ugc_handles EXCEPT ![i] = o]
           /\ ledger' = [ledger EXCEPT ![i].object = o]
  <2>1. /\ ledger' \in [Store!Idx -> LedgerEntries]
        /\ \A j \in Store!Idx : j # i => ledger'[j] = ledger[j]
        /\ ledger'[i].owner = ledger[i].owner
        /\ ledger'[i].object = o
        /\ ledger'[i].secondary = ledger[i].secondary
    BY <1>2, <1>3 DEF LedgerInv, LedgerEntries
  <2>2. /\ ugc_handles' \in [Store!Idx -> Nat]
        /\ ugc_handle_dependent' \in [Store!Idx -> Nat]
        /\ \A j \in Store!Idx :
             /\ ugc_handles'[j] = IF j = i THEN o ELSE ugc_handles[j]
             /\ ugc_handle_dependent'[j] =
                  IF j = i THEN ledger[i].secondary
                           ELSE ugc_handle_dependent[j]
    BY <1>2, <1>3 DEF StoreInv
  <2> QED  BY <1>0, <1>2, <1>3, <2>1, <2>2, WrittenTrue
<1>4. CASE /\ UNCHANGED <<ugc_handle_count, ugc_handle_free_count,
                          ugc_handle_types, ugc_handle_free_stack,
                          ugc_handles>>
           /\ ugc_handle_dependent' = [ugc_handle_dependent EXCEPT ![i] = o]
           /\ ledger' = [ledger EXCEPT ![i].secondary = o]
  <2>1. /\ ledger' \in [Store!Idx -> LedgerEntries]
        /\ \A j \in Store!Idx : j # i => ledger'[j] = ledger[j]
        /\ ledger'[i].owner = ledger[i].owner
        /\ ledger'[i].object = ledger[i].object
        /\ ledger'[i].secondary = o
    BY <1>2, <1>4 DEF LedgerInv, LedgerEntries
  <2>2. /\ ugc_handles' \in [Store!Idx -> Nat]
        /\ ugc_handle_dependent' \in [Store!Idx -> Nat]
        /\ \A j \in Store!Idx :
             /\ ugc_handles'[j] =
                  IF j = i THEN ledger[i].object ELSE ugc_handles[j]
             /\ ugc_handle_dependent'[j] =
                  IF j = i THEN o ELSE ugc_handle_dependent[j]
    BY <1>2, <1>4 DEF StoreInv
  <2> QED  BY <1>0, <1>2, <1>4, <2>1, <2>2, WrittenTrue
<1>5. CASE /\ UNCHANGED <<ugc_handle_count, ugc_handle_free_count,
                          ugc_handle_types, ugc_handle_free_stack,
                          ugc_handles, ugc_handle_dependent>>
           /\ \/ UNCHANGED ledger
              \/ ledger' = [ledger EXCEPT ![i].object = ledger[i].object]
  <2>1. ledger' = ledger
    BY <1>2, <1>5 DEF LedgerInv, LedgerEntries
  <2>2. StoreInv' /\ Store!Live' = Store!Live
    BY <1>5, StoreWrite DEF StoreInv
  <2>3. LedgerTrue'
    BY <1>5, <2>1, <2>2 DEF LedgerInv, LedgerTrue
  <2>4. LedgerEntries' = LedgerEntries
    BY <1>0 DEF LedgerEntries, KnownObjects
  <2> QED  BY <2>1, <2>2, <2>3, <2>4 DEF LedgerInv
<1> QED
  BY <1>1, <1>2, <1>3, <1>4, <1>5
     DEF Store!StoreObjectInHandle, Store!StoreObjectInHandleIfNull,
         Store!SetDependentHandleSecondary,
         Store!InterlockedCompareExchangeObjectInHandle,
         Store!ugc_handle_slot_store, Store!ugc_handle_slot_store_if_null,
         Store!ugc_handle_slot_cas, Store!ugc_handle_set_dependent_at,
         Store!WriteObject, Store!Return, Store!counts, Store!arrays

(* The end of a store orphans its handles and touches no other. *)
LEMMA OrphanBooks ==
  ASSUME StoreInv, LedgerInv, NEW w \in LoadContexts, DestroyHandleStore(w)
  PROVE  StoreInv' /\ LedgerInv'
<1>1. UNCHANGED handleVars /\ UNCHANGED objects /\ ledger' = Orphaned(w)
  BY DEF DestroyHandleStore, vars
<1>2. /\ UNCHANGED <<ugc_handle_count, ugc_handle_free_count,
                     ugc_handle_types, ugc_handle_free_stack>>
      /\ UNCHANGED <<ugc_handles, ugc_handle_dependent>>
  BY <1>1 DEF handleVars
<1>3. StoreInv' /\ Store!Live' = Store!Live
  BY <1>2, StoreWrite DEF StoreInv
<1>4. LedgerEntries' = LedgerEntries
  BY <1>1 DEF LedgerEntries, KnownObjects
<1>5. \A i \in Store!Idx :
        /\ ledger'[i] \in LedgerEntries
        /\ ledger'[i].owner # "none" <=> ledger[i].owner # "none"
        /\ ledger'[i].object = ledger[i].object
        /\ ledger'[i].secondary = ledger[i].secondary
  <2> SUFFICES ASSUME NEW i \in Store!Idx
               PROVE  /\ ledger'[i] \in LedgerEntries
                      /\ ledger'[i].owner # "none" <=> ledger[i].owner # "none"
                      /\ ledger'[i].object = ledger[i].object
                      /\ ledger'[i].secondary = ledger[i].secondary
    OBVIOUS
  <2>1. ledger[i] \in LedgerEntries
    BY DEF LedgerInv
  <2>2. ledger'[i] = IF ledger[i].owner = w
                     THEN [ledger[i] EXCEPT !.owner = "orphan"] ELSE ledger[i]
    BY <1>1 DEF Orphaned
  <2> QED  BY <2>1, <2>2, OwnersAssumption DEF LedgerEntries
<1>6. ledger' \in [Store!Idx -> LedgerEntries]
  BY <1>1, <1>5 DEF Orphaned
<1>7. LedgerTrue'
  BY <1>2, <1>3, <1>5 DEF LedgerInv, LedgerTrue
<1> QED  BY <1>3, <1>4, <1>6, <1>7 DEF LedgerInv

(* Every step of the runtime keeps the store and the books. *)
LEMMA RuntimeBooks ==
  TypeOK /\ StoreInv /\ LedgerInv /\ [RuntimeNext]_runtimeVars
    => StoreInv' /\ LedgerInv'
<1> SUFFICES ASSUME TypeOK, StoreInv, LedgerInv, [RuntimeNext]_runtimeVars
             PROVE  StoreInv' /\ LedgerInv'
  OBVIOUS
<1>1. objects \subseteq objects'
  BY RuntimeStep, ObjectsKept
<1>2. CASE UNCHANGED <<handleVars, ledger>>
  BY <1>1, <1>2, BooksKept
<1> QED
  BY <1>2, CreateBooks, DestroyBooks, WriteBooks, OrphanBooks
     DEF RuntimeNext, runtimeVars, GC_Initialize, Initialize,
         GetGlobalHandleStore, CreateHandleStore, Uproot, Shutdown,
         TraceRefCountedHandles, AllocateObject

(* The zeroed store and the empty books. *)
LEMMA RuntimeInitBooks == RuntimeInit => StoreInv /\ LedgerInv
<1> SUFFICES ASSUME RuntimeInit PROVE StoreInv /\ LedgerInv
  OBVIOUS
<1>1. /\ ugc_handle_count = 0 /\ ugc_handle_free_count = 0
      /\ ugc_handles = [i \in Store!Idx |-> 0]
      /\ ugc_handle_types = [i \in Store!Idx |-> 0]
      /\ ugc_handle_dependent = [i \in Store!Idx |-> 0]
      /\ ugc_handle_free_stack = [i \in Store!Idx |-> 0]
      /\ ledger = [i \in Store!Idx |-> NoEntry]
  BY DEF RuntimeInit, Store!CoreInit, Store!NULL
<1>2. 0 \in Store!Idx /\ UGC_HANDLE_COUNT \in Nat
  BY StoreAssumption DEF Store!Idx
<1>3. 0 .. ugc_handle_free_count - 1 = {} /\ 0 .. ugc_handle_count - 1 = {}
  BY <1>1
<1>4. StoreInv
  BY <1>1, <1>2, <1>3
     DEF StoreInv, Store!FreeStackSound, Store!FreeStackNoDuplicate
<1>5. NoEntry \in LedgerEntries /\ NoEntry.owner = "none"
  BY DEF NoEntry, LedgerEntries, KnownObjects
<1>6. Store!Live = {}
  BY <1>3 DEF Store!Live
<1>7. LedgerInv
  BY <1>1, <1>5, <1>6 DEF LedgerInv, LedgerTrue
<1> QED  BY <1>4, <1>7

(* For every capacity, heap and set of load contexts, and whichever stores *)
(* were made and dropped: the store and the runtime agree on which handles *)
(* are in use and on what each refers to.                                  *)
THEOREM RuntimeLedgerTrue == RuntimeSpec => []LedgerTrue
<1>1. RuntimeSpec => []TypeOK
  BY RuntimeImplementsAlloc, AllocTypeOK, PTL
<1>2. LedgerInv => LedgerTrue
  BY DEF LedgerInv
<1> QED
  BY <1>1, <1>2, RuntimeInitBooks, RuntimeBooks, PTL DEF RuntimeSpec

(* For every configuration, what a live handle refers to is null or an     *)
(* object the heap served, which lies with its header in a block.          *)
THEOREM RuntimeTargetsAllocated == RuntimeSpec => []TargetsAllocated
<1>1. RuntimeSpec => []TypeOK /\ []ObjectsInBlocks
  BY RuntimeImplementsAlloc, AllocTypeOK, AllocInBlocks, PTL
<1>2. TypeOK /\ ObjectsInBlocks /\ StoreInv /\ LedgerInv => TargetsAllocated
  <2> SUFFICES ASSUME TypeOK, ObjectsInBlocks, StoreInv, LedgerInv,
                      NEW i \in Store!Live,
                      NEW p \in {ugc_handles[i], ugc_handle_dependent[i]}
                                  \ {NULL}
               PROVE  \E o \in objects, b \in blocks :
                        o.addr = p /\ InBlock(o, b)
    BY DEF TargetsAllocated
  <2>1. p \in KnownObjects
    BY StackedNotLive, LedgerFacts DEF LedgerInv, LedgerTrue
  <2>2. PICK o \in objects : o.addr = p
    BY <2>1 DEF KnownObjects
  <2> QED  BY <2>2 DEF ObjectsInBlocks
<1> QED
  BY <1>1, <1>2, RuntimeInitBooks, RuntimeBooks, PTL DEF RuntimeSpec

=============================================================================
