------------------------ MODULE HandleManagerProofs -------------------------
(***************************************************************************)
(* Proofs about HandleManager, for every capacity, layout, set of objects, *)
(* types and extra infos.                                                  *)
(*                                                                         *)
(* The public methods change the store in few ways: they create a slot,    *)
(* destroy one, write fields of a live one, or only return a value.  Each  *)
(* way has a lemma, and each method is a case of one of them.  The last    *)
(* part shows that the store implements HandleTable, call by call.         *)
(***************************************************************************)
EXTENDS HandleCalls, FiniteSetTheorems, TLAPS

(* The inductive invariant.  FreeStackExact is what makes it inductive: a  *)
(* create pops a slot that is tagged free, and not again; and when the     *)
(* stack is empty, every slot taken is live, so growing means a new peak.  *)
LiveTypes == \A i \in Live : ugc_handle_types[i] \in Types

IInv ==
  /\ TypeOK
  /\ FreeStackExact
  /\ IdleSlotsScrubbed
  /\ LiveTypes
  /\ HighWaterMark

PeakStep == peak' = LargerOf(peak, Cardinality(Live'))

-----------------------------------------------------------------------------
(* The index of the address of a slot is the slot's index. *)
LEMMA IndexOfSlot ==
  ASSUME NEW i \in Nat
  PROVE  ugc_handle_index(Slot(i)) = i
<1>1. CASE PtrSize = 4
  BY <1>1, LayoutAssumption DEF ugc_handle_index, Slot
<1>2. CASE PtrSize = 8
  BY <1>2, LayoutAssumption DEF ugc_handle_index, Slot
<1> QED  BY <1>1, <1>2, LayoutAssumption

(* A handle that was issued names a slot of the array, and is in range. *)
LEMMA IssuedIndex ==
  ASSUME TypeOK, NEW h \in IssuedHandles
  PROVE  /\ ugc_handle_index(h) \in 0 .. ugc_handle_count - 1
         /\ ugc_handle_index(h) \in Idx
<1>1. PICK i \in 0 .. ugc_handle_count - 1 : h = Slot(i)
  BY DEF IssuedHandles
<1>2. i \in Nat /\ i \in Idx
  BY CapacityAssumption DEF TypeOK, Idx
<1> QED  BY <1>1, <1>2, IndexOfSlot

(* A live handle names a slot that was taken and is not free. *)
LEMMA LiveIndex ==
  ASSUME TypeOK, NEW h \in LiveHandles
  PROVE  ugc_handle_index(h) \in Live /\ ugc_handle_index(h) \in Idx
<1>1. PICK i \in Live : h = Slot(i)
  BY DEF LiveHandles
<1>2. i \in Nat /\ i \in Idx
  BY CapacityAssumption DEF TypeOK, Idx, Live
<1> QED  BY <1>1, <1>2, IndexOfSlot

(* A pointer outside the array is not contained in it. *)
LEMMA OutsideNotContained ==
  ASSUME NEW h \in OutsidePointers
  PROVE  ~ugc_handle_store_contains(h)
<1>1. CASE PtrSize = 4
  BY <1>1, LayoutAssumption, CapacityAssumption
     DEF ugc_handle_store_contains, OutsidePointers, NULL
<1>2. CASE PtrSize = 8
  BY <1>2, LayoutAssumption, CapacityAssumption
     DEF ugc_handle_store_contains, OutsidePointers, NULL
<1> QED  BY <1>1, <1>2, LayoutAssumption

(* Never more handles are live than slots were taken. *)
LEMMA LiveBound ==
  ASSUME NEW n \in Nat, NEW S, S \subseteq 0 .. n - 1
  PROVE  Cardinality(S) \in Nat /\ Cardinality(S) <= n
<1>1. IsFiniteSet(0 .. n - 1) /\ Cardinality(0 .. n - 1) = n
  BY FS_Interval
<1> QED  BY <1>1, FS_Subset, FS_CardinalityType

(* The peak does not move while the store does not grow. *)
LEMMA PeakKept ==
  ASSUME TypeOK, HighWaterMark, PeakStep, ugc_handle_count' = ugc_handle_count
  PROVE  peak' = peak /\ HighWaterMark'
<1>1. Live' \subseteq 0 .. ugc_handle_count - 1
  BY DEF Live
<1>2. ugc_handle_count \in Nat
  BY DEF TypeOK
<1>3. Cardinality(Live') \in Nat /\ Cardinality(Live') <= ugc_handle_count
  BY <1>1, <1>2, LiveBound
<1> QED  BY <1>2, <1>3 DEF PeakStep, LargerOf, HighWaterMark

(* Type tags are integers. *)
LEMMA TagsAreInts ==
  ASSUME NEW f \in [Idx -> Types \union {0, UGC_HANDLE_TYPE_FREE}]
  PROVE  \A j \in Idx : f[j] \in Int
<1>1. Types \union {0, UGC_HANDLE_TYPE_FREE} \subseteq Int
  BY TypesAssumption DEF UGC_HANDLE_TYPE_FREE
<1> QED  BY <1>1

-----------------------------------------------------------------------------
(* The zeroed arrays satisfy the invariant: nothing is live yet. *)
LEMMA InitIInv == Init => IInv
<1> SUFFICES ASSUME Init PROVE IInv
  OBVIOUS
<1> USE CapacityAssumption DEF Init, CoreInit
<1>1. TypeOK
  BY DEF TypeOK, Idx, ObjectPtrs, ExtraPtrs, NULL
<1>2. FreeStackExact
  BY DEF FreeStackExact, FreeStackSound, FreeStackNoDuplicate,
         FreeStackComplete
<1>3. IdleSlotsScrubbed
  BY DEF IdleSlotsScrubbed, Idx
<1>4. LiveTypes
  BY DEF LiveTypes, Live
<1>5. HighWaterMark
  BY DEF HighWaterMark
<1> QED  BY <1>1, <1>2, <1>3, <1>4, <1>5 DEF IInv

(* A call that only returns a value. *)
LEMMA ReturnIInv ==
  ASSUME IInv, PeakStep, NEW v \in Int, Return(v)
  PROVE  IInv'
<1> USE DEF Return, arrays, counts
<1>1. peak' = peak /\ HighWaterMark'
  BY PeakKept DEF IInv
<1>2. TypeOK'
  BY <1>1 DEF IInv, TypeOK
<1>3. Live' = Live
  BY DEF Live
<1>4. FreeStackExact'
  BY DEF IInv, FreeStackExact, FreeStackSound, FreeStackNoDuplicate,
         FreeStackComplete
<1>5. IdleSlotsScrubbed' /\ LiveTypes'
  BY <1>3 DEF IInv, IdleSlotsScrubbed, LiveTypes
<1> QED  BY <1>1, <1>2, <1>4, <1>5 DEF IInv

(* A call that writes fields of a live slot and of no other. *)
WriteLive(i) ==
  /\ ugc_handles' \in [Idx -> ObjectPtrs]
  /\ ugc_handle_types' \in [Idx -> Types \union {0, UGC_HANDLE_TYPE_FREE}]
  /\ ugc_handle_extra' \in [Idx -> ExtraPtrs]
  /\ ugc_handle_dependent' \in [Idx -> ObjectPtrs]
  /\ ugc_handle_types'[i] \in Types
  /\ \A j \in Idx \ {i} :
       /\ ugc_handles'[j] = ugc_handles[j]
       /\ ugc_handle_types'[j] = ugc_handle_types[j]
       /\ ugc_handle_extra'[j] = ugc_handle_extra[j]
       /\ ugc_handle_dependent'[j] = ugc_handle_dependent[j]
  /\ UNCHANGED <<counts, ugc_handle_free_stack>>
  /\ ret' \in Int

(* A write to the fields of a live slot keeps the invariant. *)
LEMMA WriteLiveIInv ==
  ASSUME IInv, PeakStep, NEW i \in Live, WriteLive(i)
  PROVE  IInv'
<1> USE DEF WriteLive, counts
<1>0. TypeOK /\ 0 .. ugc_handle_count - 1 \subseteq Idx /\ i \in Idx
  BY CapacityAssumption DEF IInv, TypeOK, Idx, Live
<1>t. \A j \in Idx : ugc_handle_types[j] \in Int /\ ugc_handle_types'[j] \in Int
  BY <1>0, TagsAreInts DEF TypeOK
<1>1. peak' = peak /\ HighWaterMark'
  BY PeakKept DEF IInv
<1>2. TypeOK'
  BY <1>1 DEF IInv, TypeOK
<1>3. /\ ugc_handle_types[i] >= 0 /\ ugc_handle_types'[i] >= 0
      /\ \A j \in Idx : ugc_handle_types'[j] >= 0 <=> ugc_handle_types[j] >= 0
  BY <1>0, <1>t, TypesAssumption DEF Live
<1>4. Live' = Live
  BY <1>0, <1>3 DEF Live
<1>5. FreeStackSound'
  <2> SUFFICES ASSUME NEW k \in 0 .. ugc_handle_free_count - 1
               PROVE  /\ ugc_handle_free_stack[k] < ugc_handle_count
                      /\ ugc_handle_types'[ugc_handle_free_stack[k]] < 0
    BY DEF FreeStackSound
  <2>1. /\ ugc_handle_free_stack[k] < ugc_handle_count
        /\ ugc_handle_types[ugc_handle_free_stack[k]] < 0
    BY DEF IInv, FreeStackExact, FreeStackSound
  <2>2. ugc_handle_free_stack[k] \in Idx
    BY <1>0, CapacityAssumption DEF TypeOK, Idx
  <2>3. ugc_handle_free_stack[k] # i
    BY <1>3, <1>t, <2>1, <2>2
  <2> QED  BY <2>1, <2>2, <2>3
<1>6. FreeStackNoDuplicate'
  BY DEF IInv, FreeStackExact, FreeStackNoDuplicate
<1>7. FreeStackComplete'
  <2> SUFFICES ASSUME NEW j \in 0 .. ugc_handle_count - 1,
                      ugc_handle_types'[j] < 0
               PROVE  \E k \in 0 .. ugc_handle_free_count - 1 :
                        ugc_handle_free_stack[k] = j
    BY DEF FreeStackComplete
  <2>1. j \in Idx
    BY <1>0
  <2>2. j # i
    BY <1>0, <1>3, <1>t
  <2>3. ugc_handle_types[j] < 0
    BY <2>1, <2>2
  <2> QED  BY <2>3 DEF IInv, FreeStackExact, FreeStackComplete
<1>8. IdleSlotsScrubbed'
  BY <1>4 DEF IInv, IdleSlotsScrubbed
<1>9. LiveTypes'
  BY <1>0, <1>4 DEF IInv, LiveTypes, Live
<1> QED
  BY <1>1, <1>2, <1>5, <1>6, <1>7, <1>8, <1>9 DEF IInv, FreeStackExact

-----------------------------------------------------------------------------
(* A destroy that frees a slot: the slot is live, so it is not on the      *)
(* stack, and pushing it keeps the stack free of duplicates.               *)
LEMMA FreeSlotIInv ==
  ASSUME IInv, PeakStep, NEW i \in 0 .. ugc_handle_count - 1,
         ugc_handle_types[i] >= 0,
         ugc_handle_free_count # UGC_HANDLE_COUNT,
         FreeSlot(i)
  PROVE  IInv'
<1>0. TypeOK /\ 0 .. ugc_handle_count - 1 \subseteq Idx /\ i \in Idx
  <2>1. TypeOK
    BY DEF IInv
  <2>2. 0 .. ugc_handle_count - 1 \subseteq Idx
    BY <2>1, CapacityAssumption DEF TypeOK, Idx
  <2> QED  BY <2>1, <2>2
<1> USE DEF FreeSlot
<1>t. \A j \in Idx : ugc_handle_types[j] \in Int
  BY <1>0, TagsAreInts DEF TypeOK
<1>a. /\ ugc_handle_free_count \in Idx
      /\ ugc_handle_free_count' = ugc_handle_free_count + 1
      /\ 0 .. ugc_handle_free_count - 1 \subseteq Idx
      /\ ugc_handle_free_count \in Nat
  BY <1>0, CapacityAssumption DEF TypeOK, Idx
<1>1. peak' = peak /\ HighWaterMark'
  BY PeakKept DEF IInv
<1>2. TypeOK'
  <2>1. ugc_handle_count' \in 0 .. UGC_HANDLE_COUNT
    BY <1>0 DEF TypeOK
  <2>2. ugc_handle_free_count' \in 0 .. UGC_HANDLE_COUNT
    BY <1>a, CapacityAssumption DEF Idx
  <2>3. /\ ugc_handles' \in [Idx -> ObjectPtrs]
        /\ ugc_handle_extra' \in [Idx -> ExtraPtrs]
        /\ ugc_handle_dependent' \in [Idx -> ObjectPtrs]
    BY <1>0 DEF TypeOK, ObjectPtrs, ExtraPtrs
  <2>4. ugc_handle_types' \in [Idx -> Types \union {0, UGC_HANDLE_TYPE_FREE}]
    BY <1>0 DEF TypeOK
  <2>5. ugc_handle_free_stack' \in [Idx -> Idx]
    BY <1>0 DEF TypeOK
  <2> QED
    BY <1>0, <1>1, <2>1, <2>2, <2>3, <2>4, <2>5 DEF TypeOK, NULL
<1>3. /\ ugc_handle_types'[i] = -1
      /\ \A j \in Idx \ {i} : ugc_handle_types'[j] = ugc_handle_types[j]
  BY <1>0 DEF TypeOK, UGC_HANDLE_TYPE_FREE
<1>4. /\ ugc_handle_free_stack'[ugc_handle_free_count] = i
      /\ \A k \in 0 .. ugc_handle_free_count - 1 :
           ugc_handle_free_stack'[k] = ugc_handle_free_stack[k]
  BY <1>0, <1>a DEF TypeOK
<1>5. Live' = Live \ {i}
  BY <1>0, <1>3, <1>t DEF Live
<1>6. \A k \in 0 .. ugc_handle_free_count - 1 :
        /\ ugc_handle_free_stack[k] \in Idx
        /\ ugc_handle_free_stack[k] # i
        /\ ugc_handle_free_stack[k] < ugc_handle_count
        /\ ugc_handle_types[ugc_handle_free_stack[k]] < 0
  BY <1>0, <1>a, <1>t DEF IInv, FreeStackExact, FreeStackSound, TypeOK
<1>7. \A k \in 0 .. ugc_handle_free_count' - 1 :
        k = ugc_handle_free_count \/ k \in 0 .. ugc_handle_free_count - 1
  BY <1>a
<1>8. FreeStackSound'
  BY <1>0, <1>3, <1>4, <1>6, <1>7 DEF FreeStackSound, TypeOK
<1>9. FreeStackNoDuplicate'
  BY <1>4, <1>6, <1>7 DEF IInv, FreeStackExact, FreeStackNoDuplicate
<1>10. FreeStackComplete'
  <2> SUFFICES ASSUME NEW j \in 0 .. ugc_handle_count - 1,
                      ugc_handle_types'[j] < 0
               PROVE  \E k \in 0 .. ugc_handle_free_count' - 1 :
                        ugc_handle_free_stack'[k] = j
    BY DEF FreeStackComplete
  <2>1. CASE j = i
    BY <1>4, <1>a, <2>1
  <2>2. CASE j # i
    <3>1. ugc_handle_types[j] < 0
      BY <1>0, <1>3, <2>2
    <3>2. PICK k \in 0 .. ugc_handle_free_count - 1 :
            ugc_handle_free_stack[k] = j
      BY <3>1 DEF IInv, FreeStackExact, FreeStackComplete
    <3> QED  BY <1>4, <1>a, <3>2
  <2> QED  BY <2>1, <2>2
<1>11. IdleSlotsScrubbed'
  BY <1>0, <1>5 DEF IInv, IdleSlotsScrubbed, TypeOK
<1>12. LiveTypes'
  BY <1>0, <1>3, <1>5 DEF IInv, LiveTypes, Live
<1> QED
  BY <1>1, <1>2, <1>8, <1>9, <1>10, <1>11, <1>12 DEF IInv, FreeStackExact

-----------------------------------------------------------------------------
(* A create, whichever way it gets its slot. *)
LEMMA CreateIInv ==
  ASSUME IInv, PeakStep,
         NEW object \in ObjectPtrs, NEW type \in Types,
         NEW extra \in ExtraPtrs, NEW secondary \in ObjectPtrs,
         CreateSlot(object, type, extra, secondary)
  PROVE  IInv'
<1>0. TypeOK /\ 0 .. ugc_handle_count - 1 \subseteq Idx
  <2>1. TypeOK
    BY DEF IInv
  <2> QED  BY <2>1, CapacityAssumption DEF TypeOK, Idx
<1>t. \A j \in Idx : ugc_handle_types[j] \in Int
  BY <1>0, TagsAreInts DEF TypeOK
<1>p. type \in Nat
  BY TypesAssumption
<1>1. PICK idx \in Idx \union {-1} :
        /\ ugc_handle_slot_acquire(idx)
        /\ FillSlot(idx, object, type, extra, secondary)
  BY DEF CreateSlot
<1>2. ugc_handle_free_stack' = ugc_handle_free_stack
  BY DEF CreateSlot
<1>3. ASSUME idx \in Idx
      PROVE  /\ ugc_handles' \in [Idx -> ObjectPtrs]
             /\ ugc_handle_types' \in
                  [Idx -> Types \union {0, UGC_HANDLE_TYPE_FREE}]
             /\ ugc_handle_extra' \in [Idx -> ExtraPtrs]
             /\ ugc_handle_dependent' \in [Idx -> ObjectPtrs]
             /\ ret' \in Int
             /\ ugc_handle_types'[idx] = type
             /\ \A j \in Idx \ {idx} :
                  /\ ugc_handles'[j] = ugc_handles[j]
                  /\ ugc_handle_types'[j] = ugc_handle_types[j]
                  /\ ugc_handle_extra'[j] = ugc_handle_extra[j]
                  /\ ugc_handle_dependent'[j] = ugc_handle_dependent[j]
  <2>1. idx >= 0 /\ ~(idx < 0)
    BY <1>3, CapacityAssumption DEF Idx
  <2>2. /\ ugc_handles' = [ugc_handles EXCEPT ![idx] = object]
        /\ ugc_handle_types' = [ugc_handle_types EXCEPT ![idx] = type]
        /\ ugc_handle_extra' = [ugc_handle_extra EXCEPT ![idx] = extra]
        /\ ugc_handle_dependent' =
             [ugc_handle_dependent EXCEPT ![idx] = secondary]
        /\ ret' = Slot(idx)
    BY <1>1, <2>1 DEF FillSlot
  <2>3. ret' \in Int
    BY <1>3, <2>2, LayoutAssumption, CapacityAssumption DEF Slot, Idx
  <2> QED  BY <1>0, <1>3, <2>2, <2>3 DEF TypeOK
<1>4. CASE /\ ugc_handle_free_count > 0
           /\ idx = ugc_handle_free_stack[ugc_handle_free_count - 1]
           /\ ugc_handle_free_count' = ugc_handle_free_count - 1
           /\ UNCHANGED ugc_handle_count
  <2> DEFINE top == ugc_handle_free_count - 1
  <2>1. /\ top \in 0 .. ugc_handle_free_count - 1
        /\ ugc_handle_free_count \in Nat
        /\ ugc_handle_free_count' = top
        /\ top \in Nat
    BY <1>0, <1>4 DEF TypeOK
  <2>2. /\ \A k \in 0 .. top - 1 : /\ k \in 0 .. ugc_handle_free_count - 1
                                 /\ k # top
        /\ \A k \in 0 .. ugc_handle_free_count - 1 :
             k = top \/ k \in 0 .. top - 1
        /\ 0 .. ugc_handle_free_count - 1 \subseteq Idx
    BY <1>0, <2>1, CapacityAssumption DEF TypeOK, Idx
  <2>3. /\ idx \in Idx
        /\ idx \in 0 .. ugc_handle_count - 1
        /\ ugc_handle_types[idx] < 0
    BY <1>0, <1>4, <2>1, <2>2, CapacityAssumption
       DEF IInv, FreeStackExact, FreeStackSound, TypeOK, Idx
  <2> HIDE DEF top
  <2>4. peak' = peak /\ HighWaterMark'
    BY <1>4, PeakKept DEF IInv
  <2>5. TypeOK'
    <3>1. ugc_handle_free_count' \in 0 .. UGC_HANDLE_COUNT
      BY <1>0, <1>4, CapacityAssumption DEF TypeOK
    <3> QED  BY <1>0, <1>2, <1>3, <1>4, <2>3, <2>4, <3>1 DEF TypeOK
  <2>6. Live' = Live \union {idx}
    BY <1>0, <1>3, <1>4, <1>p, <2>3 DEF Live
  <2>7. FreeStackSound'
    <3> SUFFICES ASSUME NEW k \in 0 .. top - 1
                 PROVE  /\ ugc_handle_free_stack[k] < ugc_handle_count
                        /\ ugc_handle_types'[ugc_handle_free_stack[k]] < 0
      BY <1>2, <1>4, <2>1 DEF FreeStackSound
    <3>1. /\ ugc_handle_free_stack[k] < ugc_handle_count
          /\ ugc_handle_types[ugc_handle_free_stack[k]] < 0
      BY <2>2 DEF IInv, FreeStackExact, FreeStackSound
    <3>2. ugc_handle_free_stack[k] # idx
      BY <1>4, <2>1, <2>2 DEF IInv, FreeStackExact, FreeStackNoDuplicate, top
    <3>3. ugc_handle_free_stack[k] \in Idx
      BY <1>0, <2>2 DEF TypeOK
    <3> QED  BY <1>3, <2>3, <3>1, <3>2, <3>3
  <2>8. FreeStackNoDuplicate'
    BY <1>2, <2>1, <2>2 DEF IInv, FreeStackExact, FreeStackNoDuplicate
  <2>9. FreeStackComplete'
    <3> SUFFICES ASSUME NEW j \in 0 .. ugc_handle_count - 1,
                        ugc_handle_types'[j] < 0
                 PROVE  \E k \in 0 .. top - 1 : ugc_handle_free_stack[k] = j
      BY <1>2, <1>4, <2>1 DEF FreeStackComplete
    <3>1. j \in Idx /\ j # idx
      BY <1>0, <1>3, <1>p, <2>3
    <3>2. ugc_handle_types[j] < 0
      BY <1>3, <2>3, <3>1
    <3>3. PICK k \in 0 .. ugc_handle_free_count - 1 :
            ugc_handle_free_stack[k] = j
      BY <3>2 DEF IInv, FreeStackExact, FreeStackComplete
    <3>4. k # top
      BY <1>4, <3>1, <3>3 DEF top
    <3> QED  BY <2>2, <3>3, <3>4
  <2>10. IdleSlotsScrubbed'
    BY <1>3, <2>3, <2>6 DEF IInv, IdleSlotsScrubbed
  <2>11. LiveTypes'
    <3>1. \A j \in Live : j \in Idx
      BY <1>0 DEF Live
    <3> QED  BY <1>3, <2>3, <2>6, <3>1 DEF IInv, LiveTypes
  <2> QED
    BY <2>4, <2>5, <2>7, <2>8, <2>9, <2>10, <2>11 DEF IInv, FreeStackExact
<1>5. CASE /\ ugc_handle_free_count = 0
           /\ ugc_handle_count < UGC_HANDLE_COUNT
           /\ idx = ugc_handle_count
           /\ ugc_handle_count' = ugc_handle_count + 1
           /\ UNCHANGED ugc_handle_free_count
  <2>1. /\ idx \in Idx
        /\ ugc_handle_count \in Nat
        /\ ugc_handle_count' \in 0 .. UGC_HANDLE_COUNT
        /\ 0 .. ugc_handle_count' - 1 \subseteq Idx
        /\ \A j \in 0 .. ugc_handle_count' - 1 :
             j = idx \/ j \in 0 .. ugc_handle_count - 1
        /\ idx \in 0 .. ugc_handle_count' - 1
    BY <1>0, <1>5, CapacityAssumption DEF TypeOK, Idx
  <2>2. \A j \in 0 .. ugc_handle_count - 1 : ugc_handle_types[j] >= 0
    BY <1>0, <1>5, <1>t DEF IInv, FreeStackExact, FreeStackComplete
  <2>3. \A j \in 0 .. ugc_handle_count' - 1 : ugc_handle_types'[j] >= 0
    BY <1>0, <1>3, <1>p, <2>1, <2>2, <1>5
  <2>4. Live' = 0 .. ugc_handle_count' - 1
    BY <2>3 DEF Live
  <2>5. Cardinality(Live') = ugc_handle_count'
    BY <2>1, <2>4, FS_Interval
  <2>6. peak' = ugc_handle_count' /\ HighWaterMark'
    BY <1>5, <2>1, <2>5 DEF IInv, HighWaterMark, PeakStep, LargerOf
  <2>7. TypeOK'
    BY <1>0, <1>2, <1>3, <1>5, <2>1, <2>6 DEF TypeOK
  <2>8. FreeStackExact'
    BY <1>5, <2>3, <2>1, <2>7, TagsAreInts
       DEF FreeStackExact, FreeStackSound, FreeStackNoDuplicate,
           FreeStackComplete, TypeOK
  <2>9. IdleSlotsScrubbed'
    <3>1. \A j \in Idx \ Live' : j # idx /\ j \notin Live
      BY <2>1, <2>4, <1>5 DEF Live
    <3> QED  BY <1>3, <2>1, <3>1 DEF IInv, IdleSlotsScrubbed
  <2>10. LiveTypes'
    <3>1. \A j \in Live' : j = idx \/ j \in Live
      BY <2>1, <2>2, <2>4 DEF Live
    <3> QED  BY <1>3, <2>1, <2>4, <3>1 DEF IInv, LiveTypes
  <2> QED  BY <2>6, <2>7, <2>8, <2>9, <2>10 DEF IInv
<1>6. CASE idx = -1 /\ UNCHANGED counts
  <2>1. Return(NULL)
    BY <1>1, <1>2, <1>6 DEF FillSlot, Return, arrays
  <2> QED  BY <2>1, ReturnIInv DEF NULL
<1> QED  BY <1>1, <1>4, <1>5, <1>6 DEF ugc_handle_slot_acquire

-----------------------------------------------------------------------------
(* Methods that write one field of a live handle, or several, write a live *)
(* slot only.                                                              *)
LEMMA SetExtraInfoWritesLive ==
  ASSUME IInv, NEW h \in LiveHandles, NEW t \in Types, NEW x \in ExtraPtrs,
         SetExtraInfoForHandle(h, t, x)
  PROVE  WriteLive(ugc_handle_index(h))
<1>1. TypeOK
  BY DEF IInv
<1>2. ugc_handle_index(h) \in Idx
  BY <1>1, LiveIndex
<1> QED
  BY <1>1, <1>2 DEF SetExtraInfoForHandle, ugc_handle_set_type_at,
     ugc_handle_set_extra_at, WriteLive, TypeOK, counts, NULL

(* The object operations write one live slot only. *)
LEMMA WriteObjectWritesLive ==
  ASSUME IInv, NEW h \in LiveHandles, NEW o \in ObjectPtrs, NEW v \in Int,
         WriteObject(h, o, v)
  PROVE  WriteLive(ugc_handle_index(h))
<1>1. TypeOK
  BY DEF IInv
<1>2. ugc_handle_index(h) \in Live /\ ugc_handle_index(h) \in Idx
  BY <1>1, LiveIndex
<1>3. ugc_handle_types[ugc_handle_index(h)] \in Types
  BY <1>2 DEF IInv, LiveTypes
<1> QED
  BY <1>1, <1>2, <1>3 DEF WriteObject, WriteLive, TypeOK, counts

(* Setting the secondary writes one live slot only. *)
LEMMA SetSecondaryWritesLive ==
  ASSUME IInv, NEW h \in LiveHandles, NEW o \in ObjectPtrs,
         SetDependentHandleSecondary(h, o)
  PROVE  WriteLive(ugc_handle_index(h))
<1>1. TypeOK
  BY DEF IInv
<1>2. ugc_handle_index(h) \in Live /\ ugc_handle_index(h) \in Idx
  BY <1>1, LiveIndex
<1>3. ugc_handle_types[ugc_handle_index(h)] \in Types
  BY <1>2 DEF IInv, LiveTypes
<1> QED
  BY <1>1, <1>2, <1>3 DEF SetDependentHandleSecondary,
     ugc_handle_set_dependent_at, WriteLive, TypeOK, counts, NULL

-----------------------------------------------------------------------------
(* Pointers are integers, so results are. *)
LEMMA PointersAreInts == ObjectPtrs \subseteq Int /\ ExtraPtrs \subseteq Int
BY ObjectsAssumption, ExtrasAssumption DEF ObjectPtrs, ExtraPtrs, NULL

(* Every kind of create keeps the invariant. *)
LEMMA CreateStepIInv ==
  ASSUME IInv, PeakStep, CreateStep
  PROVE  IInv'
<1>n. NULL \in ObjectPtrs /\ NULL \in ExtraPtrs
  BY DEF ObjectPtrs, ExtraPtrs
<1>1. CASE \E o \in ObjectPtrs, t \in Types : CreateHandleOfType(o, t)
  BY <1>1, <1>n, CreateIInv DEF CreateHandleOfType, ugc_handle_create
<1>2. CASE \E o \in ObjectPtrs, t \in Types, x \in ExtraPtrs :
             CreateHandleWithExtraInfo(o, t, x)
  BY <1>2, <1>n, CreateIInv
     DEF CreateHandleWithExtraInfo, ugc_handle_create_with_extra
<1>3. CASE \E o, s \in ObjectPtrs : CreateDependentHandle(o, s)
  BY <1>3, <1>n, CreateIInv, TypesAssumption
     DEF CreateDependentHandle, ugc_handle_create_dependent
<1>4. CASE \E h \in LiveHandles \union {NULL} : CreateDuplicateHandle(h)
  <2>1. PICK h \in LiveHandles \union {NULL} : CreateDuplicateHandle(h)
    BY <1>4
  <2>2. CASE Return(NULL)
    BY <2>2, ReturnIInv DEF NULL
  <2>3. CASE /\ h # NULL
             /\ ugc_handle_create(
                  ugc_handles[ugc_handle_index(h)],
                  ugc_handle_get_type_at(ugc_handle_index(h)))
    <3> DEFINE i == ugc_handle_index(h)
    <3>1. TypeOK /\ h \in LiveHandles
      BY <2>1, <2>3 DEF IInv
    <3>2. i \in Live /\ i \in Idx
      BY <3>1, LiveIndex
    <3>3. ugc_handles[i] \in ObjectPtrs /\ ugc_handle_types[i] \in Types
      BY <3>1, <3>2 DEF IInv, TypeOK, LiveTypes
    <3>4. CreateSlot(ugc_handles[i], ugc_handle_types[i], NULL, NULL)
      BY <2>3 DEF ugc_handle_create, ugc_handle_get_type_at
    <3> HIDE DEF i
    <3> QED  BY <3>3, <3>4, <1>n, CreateIInv
  <2> QED  BY <2>1, <2>2, <2>3 DEF CreateDuplicateHandle
<1> QED  BY <1>1, <1>2, <1>3, <1>4 DEF CreateStep

(* Every destroy, double and outside ones too, keeps it. *)
LEMMA DestroyStepIInv ==
  ASSUME IInv, PeakStep, DestroyStep
  PROVE  IInv'
<1>1. PICK h \in IssuedHandles \union OutsidePointers : DestroyHandle(h)
  BY DEF DestroyStep
<1>2. CASE Return(NULL)
  BY <1>2, ReturnIInv DEF NULL
<1>3. CASE /\ ugc_handle_store_contains(h)
           /\ ugc_handle_destroy_at(ugc_handle_index(h))
  <2>1. h \in IssuedHandles
    BY <1>1, <1>3, OutsideNotContained
  <2>2. ugc_handle_index(h) \in 0 .. ugc_handle_count - 1
    BY <2>1, IssuedIndex DEF IInv
  <2>3. CASE Return(NULL)
    BY <2>3, ReturnIInv DEF NULL
  <2>4. CASE /\ ugc_handle_types[ugc_handle_index(h)] >= 0
             /\ ugc_handle_free_count # UGC_HANDLE_COUNT
             /\ FreeSlot(ugc_handle_index(h))
    BY <2>2, <2>4, FreeSlotIInv
  <2> QED
    BY <1>3, <2>3, <2>4 DEF ugc_handle_destroy_at, Return
<1> QED  BY <1>1, <1>2, <1>3 DEF DestroyHandle

(* Every access through a live handle keeps it. *)
LEMMA AccessStepIInv ==
  ASSUME IInv, PeakStep, AccessStep
  PROVE  IInv'
<1>0. TypeOK
  BY DEF IInv
<1>1. CASE \E h \in IssuedHandles \union OutsidePointers : ContainsHandle(h)
  BY <1>1, ReturnIInv DEF ContainsHandle
<1>2. ASSUME NEW h \in LiveHandles,
             \/ \E t \in Types, x \in ExtraPtrs : SetExtraInfoForHandle(h, t, x)
             \/ GetExtraInfoFromHandle(h)
             \/ \E o \in ObjectPtrs :
                  \/ StoreObjectInHandle(h, o)
                  \/ StoreObjectInHandleIfNull(h, o)
                  \/ SetDependentHandleSecondary(h, o)
                  \/ \E c \in ObjectPtrs :
                       InterlockedCompareExchangeObjectInHandle(h, o, c)
             \/ GetDependentHandleSecondary(h)
             \/ HandleFetchType(h)
      PROVE  IInv'
  <2> DEFINE i == ugc_handle_index(h)
  <2>1. i \in Live /\ i \in Idx
    BY <1>0, <1>2, LiveIndex
  <2>2. /\ ugc_handles[i] \in Int
        /\ ugc_handle_types[i] \in Int
        /\ ugc_handle_extra[i] \in Int
        /\ ugc_handle_dependent[i] \in Int
    BY <1>0, <2>1, PointersAreInts, TagsAreInts DEF TypeOK
  <2>3. ASSUME NEW v \in Int, Return(v)
        PROVE  IInv'
    BY <2>3, ReturnIInv
  <2>4. ASSUME WriteLive(i)
        PROVE  IInv'
    BY <2>1, <2>4, WriteLiveIInv
  <2>5. CASE \E t \in Types, x \in ExtraPtrs : SetExtraInfoForHandle(h, t, x)
    BY <1>2, <2>4, <2>5, SetExtraInfoWritesLive
  <2>6. CASE GetExtraInfoFromHandle(h)
    BY <2>2, <2>3, <2>6 DEF GetExtraInfoFromHandle, ugc_handle_get_extra_at
  <2>7. ASSUME NEW o \in ObjectPtrs, StoreObjectInHandle(h, o)
        PROVE  IInv'
    BY <1>2, <2>4, <2>7, WriteObjectWritesLive
       DEF StoreObjectInHandle, ugc_handle_slot_store, NULL
  <2>8. ASSUME NEW o \in ObjectPtrs, StoreObjectInHandleIfNull(h, o)
        PROVE  IInv'
    BY <1>2, <2>3, <2>4, <2>8, WriteObjectWritesLive
       DEF StoreObjectInHandleIfNull, ugc_handle_slot_store_if_null
  <2>9. ASSUME NEW o \in ObjectPtrs, SetDependentHandleSecondary(h, o)
        PROVE  IInv'
    BY <1>2, <2>4, <2>9, SetSecondaryWritesLive
  <2>10. ASSUME NEW o \in ObjectPtrs, NEW c \in ObjectPtrs,
                InterlockedCompareExchangeObjectInHandle(h, o, c)
         PROVE  IInv'
    <3>1. o \in Int
      BY PointersAreInts
    <3>2. WriteObject(h, o, o) \/ Return(ugc_handles[i])
      BY <2>10 DEF InterlockedCompareExchangeObjectInHandle,
                   ugc_handle_slot_cas
    <3> QED  BY <1>2, <2>2, <2>3, <2>4, <3>1, <3>2, WriteObjectWritesLive
  <2>11. CASE GetDependentHandleSecondary(h)
    BY <2>2, <2>3, <2>11
       DEF GetDependentHandleSecondary, ugc_handle_dependent_slot_at
  <2>12. CASE HandleFetchType(h)
    BY <2>2, <2>3, <2>12 DEF HandleFetchType, ugc_handle_get_type_at
  <2> QED  BY <1>2, <2>5, <2>6, <2>7, <2>8, <2>9, <2>10, <2>11, <2>12
<1> QED  BY <1>1, <1>2 DEF AccessStep

(* Every call of the runtime keeps the invariant. *)
LEMMA NextIInv == IInv /\ [Next]_vars => IInv'
<1> SUFFICES ASSUME IInv, [Next]_vars PROVE IInv'
  OBVIOUS
<1>1. CASE Next
  <2>1. PeakStep /\ (CreateStep \/ DestroyStep \/ AccessStep)
    BY <1>1 DEF Next, PeakStep
  <2> QED  BY <2>1, CreateStepIInv, DestroyStepIInv, AccessStepIInv
<1>2. CASE UNCHANGED vars
  BY <1>2 DEF vars, coreVars, IInv, TypeOK, FreeStackExact, FreeStackSound,
     FreeStackNoDuplicate, FreeStackComplete, IdleSlotsScrubbed, LiveTypes,
     HighWaterMark, Live
<1> QED  BY <1>1, <1>2

-----------------------------------------------------------------------------
(* The invariant holds of every behaviour, and with it what HandleManager  *)
(* states about the store at every point between two calls.                *)
THEOREM HandleStoreInvariant == Spec => []IInv
BY InitIInv, NextIInv, PTL DEF Spec

(* For every capacity, the counters stay in range and the arrays keep      *)
(* their types: no index computed by ugc_core.c leaves its array.          *)
THEOREM HandleStoreTypeOK == Spec => []TypeOK
<1>1. IInv => TypeOK
  BY DEF IInv
<1> QED  BY <1>1, HandleStoreInvariant, PTL

(* For every capacity, the free stack holds exactly the destroyed slots,   *)
(* none of them twice: ugc_handle_destroy_at makes a double destroy        *)
(* harmless.                                                               *)
THEOREM HandleStoreFreeStackExact == Spec => []FreeStackExact
<1>1. IInv => FreeStackExact
  BY DEF IInv
<1> QED  BY <1>1, HandleStoreInvariant, PTL

(* For every capacity, a slot at rest keeps nothing of the handles that    *)
(* used it.                                                                *)
THEOREM HandleStoreScrubbed == Spec => []IdleSlotsScrubbed
<1>1. IInv => IdleSlotsScrubbed
  BY DEF IInv
<1> QED  BY <1>1, HandleStoreInvariant, PTL

(* For every capacity, the array has grown to exactly the largest number   *)
(* of handles that were ever live at once (ugc_core.h, "Handle store").    *)
THEOREM HandleStoreHighWaterMark == Spec => []HighWaterMark
<1>1. IInv => HighWaterMark
  BY DEF IInv
<1> QED  BY <1>1, HandleStoreInvariant, PTL

-----------------------------------------------------------------------------
(* HandleManager implements HandleTable: the parallel arrays, counters,    *)
(* free stack and type tags behave as a table of handles in which every    *)
(* call affects the entry of one handle.  A step of the store changes at   *)
(* most one slot.  TableWrite turns that into a change of one entry of the *)
(* table; the cases of the proof say which operation of the table it is.   *)

(* Distinct slots have distinct addresses, and none is NULL. *)
LEMMA SlotInjective ==
  ASSUME NEW i \in Nat, NEW j \in Nat, Slot(i) = Slot(j)
  PROVE  i = j
BY IndexOfSlot

(* The entry of the handle of slot i. *)
LEMMA TableAt ==
  ASSUME NEW i \in Idx
  PROVE  /\ Slot(i) \in AllHandles
         /\ TableOf[Slot(i)] = IF i \in Live THEN Entry(i) ELSE FreeEntry
<1>1. i \in Nat
  BY CapacityAssumption DEF Idx
<1>2. ugc_handle_index(Slot(i)) = i
  BY <1>1, IndexOfSlot
<1>3. Slot(i) \in AllHandles
  BY DEF AllHandles
<1> QED  BY <1>2, <1>3 DEF TableOf

(* The entries in use are those of the live handles. *)
LEMMA InUseIsLive ==
  ASSUME IInv
  PROVE  /\ Table!InUse = LiveHandles
         /\ \A i \in Idx : Slot(i) \in Table!InUse <=> i \in Live
<1>0. TypeOK /\ Live \subseteq Idx
  BY CapacityAssumption DEF IInv, TypeOK, Live, Idx
<1>1. \A i \in Live : Entry(i) # FreeEntry
  BY <1>0, TagsAreInts
     DEF Live, Entry, FreeEntry, UGC_HANDLE_TYPE_FREE, TypeOK
<1>2. FreeEntry = Table!Free
  BY DEF FreeEntry, Table!Free, UGC_HANDLE_TYPE_FREE
<1>3. \A i \in Idx : Slot(i) \in Table!InUse <=> i \in Live
  BY <1>1, <1>2, TableAt DEF Table!InUse
<1>4. Table!InUse = LiveHandles
  BY <1>0, <1>3 DEF Table!InUse, AllHandles, LiveHandles
<1> QED  BY <1>3, <1>4

(* Nothing but slot i changes: nothing but its handle's entry changes. *)
SameSlot(j) ==
  /\ j \in Live' <=> j \in Live
  /\ ugc_handles'[j] = ugc_handles[j]
  /\ ugc_handle_types'[j] = ugc_handle_types[j]
  /\ ugc_handle_extra'[j] = ugc_handle_extra[j]
  /\ ugc_handle_dependent'[j] = ugc_handle_dependent[j]

(* Writing the fields of one slot is an update of one table entry. *)
LEMMA TableWrite ==
  ASSUME NEW i \in Idx, NEW e,
         \A j \in Idx \ {i} : SameSlot(j),
         e = IF i \in Live' THEN Entry(i)' ELSE FreeEntry
  PROVE  TableOf' = [TableOf EXCEPT ![Slot(i)] = e]
<1>0. Idx \subseteq Nat
  BY CapacityAssumption DEF Idx
<1>1. ASSUME NEW h \in AllHandles, h # Slot(i)
      PROVE  TableOf'[h] = TableOf[h]
  <2>1. PICK j \in Idx : h = Slot(j)
    BY DEF AllHandles
  <2>2. ugc_handle_index(h) = j /\ j # i
    BY <1>0, <1>1, <2>1, IndexOfSlot
  <2>3. SameSlot(j)
    BY <2>2
  <2> QED
    BY <1>1, <2>2, <2>3 DEF SameSlot, TableOf, Entry, FreeEntry
<1>2. TableOf'[Slot(i)] = e
  BY <1>0, IndexOfSlot DEF TableOf, AllHandles, FreeEntry
<1> HIDE DEF AllHandles
<1>3. TableOf' = [h \in AllHandles |-> TableOf'[h]]
  BY DEF TableOf
<1>4. TableOf = [h \in AllHandles |-> TableOf[h]]
  BY DEF TableOf
<1> QED  BY <1>1, <1>2, <1>3, <1>4

(* A call that only returns a value reads the table. *)
LEMMA ReturnReads ==
  ASSUME NEW v, Return(v)
  PROVE  Table!Read(v)
<1>1. TableOf' = TableOf
  BY DEF Return, arrays, counts, TableOf, Entry, Live
<1> QED  BY <1>1 DEF Return, Table!Read

-----------------------------------------------------------------------------
(* The zeroed arrays are the empty table. *)
LEMMA InitRefines == CallInit => Table!TableInit
BY DEF CallInit, Init, CoreInit, Table!TableInit, Table!Free, TableOf,
       FreeEntry, Live, UGC_HANDLE_TYPE_FREE

(* A create puts its entry under a handle that is not in use: the slot is  *)
(* tagged free or was never taken.  It fails only when all are in use.     *)
LEMMA CreateRefines ==
  ASSUME IInv,
         NEW object \in ObjectPtrs, NEW type \in Types,
         NEW extra \in ExtraPtrs, NEW secondary \in ObjectPtrs,
         CreateSlot(object, type, extra, secondary)
  PROVE  Table!Create([object |-> object, type |-> type, extra |-> extra,
                       secondary |-> secondary])
<1> DEFINE entry == [object |-> object, type |-> type, extra |-> extra,
                     secondary |-> secondary]
<1>0. TypeOK /\ 0 .. ugc_handle_count - 1 \subseteq Idx
  <2>1. TypeOK
    BY DEF IInv
  <2> QED  BY <2>1, CapacityAssumption DEF TypeOK, Idx
<1>t. \A j \in Idx : ugc_handle_types[j] \in Int
  BY <1>0, TagsAreInts DEF TypeOK
<1>p. type \in Nat
  BY TypesAssumption
<1>1. PICK idx \in Idx \union {-1} :
        /\ ugc_handle_slot_acquire(idx)
        /\ FillSlot(idx, object, type, extra, secondary)
  BY DEF CreateSlot
<1>2. ASSUME idx \in Idx, idx \notin Live,
             idx \in 0 .. ugc_handle_count' - 1,
             \A j \in Idx \ {idx} : j \in 0 .. ugc_handle_count' - 1
                                  <=> j \in 0 .. ugc_handle_count - 1
      PROVE  Table!Create(entry)
  <2>1. /\ ugc_handles' = [ugc_handles EXCEPT ![idx] = object]
        /\ ugc_handle_types' = [ugc_handle_types EXCEPT ![idx] = type]
        /\ ugc_handle_extra' = [ugc_handle_extra EXCEPT ![idx] = extra]
        /\ ugc_handle_dependent' =
             [ugc_handle_dependent EXCEPT ![idx] = secondary]
        /\ ret' = Slot(idx)
    <3>1. ~(idx < 0)
      BY <1>2, CapacityAssumption DEF Idx
    <3> QED  BY <1>1, <3>1 DEF FillSlot
  <2>2. \A j \in Idx \ {idx} : SameSlot(j)
    BY <1>0, <1>2, <2>1 DEF SameSlot, Live, TypeOK
  <2>3. idx \in Live' /\ Entry(idx)' = entry
    BY <1>0, <1>2, <1>p, <2>1 DEF Live, Entry, TypeOK
  <2>4. TableOf' = [TableOf EXCEPT ![Slot(idx)] = entry]
    BY <1>2, <2>2, <2>3, TableWrite
  <2>5. Slot(idx) \in AllHandles \ Table!InUse
    BY <1>2, InUseIsLive, TableAt
  <2> QED  BY <2>1, <2>4, <2>5 DEF Table!Create
<1>3. CASE /\ ugc_handle_free_count > 0
           /\ idx = ugc_handle_free_stack[ugc_handle_free_count - 1]
           /\ UNCHANGED ugc_handle_count
  <2>1. /\ ugc_handle_free_count - 1 \in 0 .. ugc_handle_free_count - 1
        /\ ugc_handle_free_count - 1 \in Idx
    BY <1>0, <1>3, CapacityAssumption DEF TypeOK, Idx
  <2>2. /\ idx \in Idx
        /\ idx < ugc_handle_count
        /\ ugc_handle_types[idx] < 0
    BY <1>0, <1>3, <2>1
       DEF IInv, FreeStackExact, FreeStackSound, TypeOK
  <2>3. idx \notin Live
    BY <1>t, <2>2 DEF Live
  <2>4. idx \in 0 .. ugc_handle_count' - 1
    BY <1>0, <1>3, <2>2, CapacityAssumption DEF TypeOK, Idx
  <2> QED  BY <1>2, <1>3, <2>2, <2>3, <2>4
<1>4. CASE /\ ugc_handle_count < UGC_HANDLE_COUNT
           /\ idx = ugc_handle_count
           /\ ugc_handle_count' = ugc_handle_count + 1
  <2>1. /\ idx \in Idx
        /\ idx \notin 0 .. ugc_handle_count - 1
        /\ idx \in 0 .. ugc_handle_count' - 1
        /\ \A j \in Idx \ {idx} : j \in 0 .. ugc_handle_count' - 1
                                 <=> j \in 0 .. ugc_handle_count - 1
    BY <1>0, <1>4, CapacityAssumption DEF TypeOK, Idx
  <2> QED  BY <1>2, <2>1 DEF Live
<1>5. CASE /\ ugc_handle_free_count = 0
           /\ ugc_handle_count >= UGC_HANDLE_COUNT
           /\ idx = -1
           /\ UNCHANGED counts
  <2>1. Return(NULL)
    BY <1>1, <1>5 DEF CreateSlot, FillSlot, Return, arrays
  <2>2. 0 .. ugc_handle_count - 1 = Idx
    BY <1>0, <1>5, CapacityAssumption DEF TypeOK, Idx
  <2>3. \A j \in 0 .. ugc_handle_count - 1 : ugc_handle_types[j] >= 0
    BY <1>0, <1>5, <1>t DEF IInv, FreeStackExact, FreeStackComplete
  <2>4. Live = Idx
    BY <2>2, <2>3 DEF Live
  <2>5. Table!InUse = AllHandles
    BY <2>4, InUseIsLive DEF LiveHandles, AllHandles
  <2> QED  BY <2>1, <2>5, ReturnReads DEF Table!Create, Table!Read
<1> QED  BY <1>1, <1>3, <1>4, <1>5 DEF ugc_handle_slot_acquire

(* Scrubbing and pushing a slot frees one table entry. *)
LEMMA FreeSlotRefines ==
  ASSUME IInv, NEW i \in 0 .. ugc_handle_count - 1, FreeSlot(i)
  PROVE  TableOf' = [TableOf EXCEPT ![Slot(i)] = Table!Free] /\ ret' = NULL
<1>0. TypeOK /\ 0 .. ugc_handle_count - 1 \subseteq Idx /\ i \in Idx
  <2>1. TypeOK
    BY DEF IInv
  <2>2. 0 .. ugc_handle_count - 1 \subseteq Idx
    BY <2>1, CapacityAssumption DEF TypeOK, Idx
  <2> QED  BY <2>1, <2>2
<1>1. \A j \in Idx \ {i} : SameSlot(j)
  BY <1>0 DEF SameSlot, Live, FreeSlot, TypeOK
<1>2. i \notin Live'
  BY <1>0 DEF Live, FreeSlot, TypeOK, UGC_HANDLE_TYPE_FREE
<1>3. TableOf' = [TableOf EXCEPT ![Slot(i)] = FreeEntry]
  BY <1>0, <1>1, <1>2, TableWrite
<1>4. FreeEntry = Table!Free
  BY DEF FreeEntry, Table!Free, UGC_HANDLE_TYPE_FREE
<1> QED  BY <1>3, <1>4 DEF FreeSlot

(* While a handle is live the free stack is not full: it holds slots that  *)
(* are not live, none twice, so it is lower than the array is long.  So    *)
(* the full-stack test of the destroy never keeps a live handle alive.     *)
LEMMA StackNotFull ==
  ASSUME IInv, NEW i \in Live
  PROVE  ugc_handle_free_count # UGC_HANDLE_COUNT
<1> SUFFICES ASSUME ugc_handle_free_count = UGC_HANDLE_COUNT PROVE FALSE
  OBVIOUS
<1>0. TypeOK /\ FreeStackSound /\ FreeStackNoDuplicate
  BY DEF IInv, FreeStackExact
<1>c. UGC_HANDLE_COUNT \in Nat
  BY CapacityAssumption
<1>i. i \in Idx
  BY <1>0, <1>c DEF TypeOK, Idx, Live
<1>1. Idx = 0 .. ugc_handle_free_count - 1
  BY DEF Idx
<1>t. \A j \in Idx : ugc_handle_types[j] \in Int
  BY <1>0, TagsAreInts DEF TypeOK
<1>2. IsFiniteSet(Idx) /\ Cardinality(Idx) = UGC_HANDLE_COUNT
  BY <1>c, FS_Interval DEF Idx
<1>3. /\ IsFiniteSet(Idx \ {i})
      /\ Cardinality(Idx \ {i}) = Cardinality(Idx) - 1
  BY <1>i, <1>2, FS_RemoveElement
<1>4. \A k \in Idx : ugc_handle_free_stack[k] \in Idx \ {i}
  <2>1. ~(ugc_handle_types[i] < 0)
    BY <1>i, <1>t DEF Live
  <2> QED  BY <1>0, <1>1, <2>1 DEF FreeStackSound, TypeOK
<1>5. ugc_handle_free_stack \in [Idx -> Idx \ {i}]
  BY <1>0, <1>4 DEF TypeOK
<1>6. Cardinality(Idx \ {i}) < Cardinality(Idx)
  BY <1>c, <1>2, <1>3
<1>7. \E x, y \in Idx :
        x # y /\ ugc_handle_free_stack[x] = ugc_handle_free_stack[y]
  BY <1>2, <1>3, <1>5, <1>6, FS_PigeonHole
<1> QED  BY <1>0, <1>1, <1>7 DEF FreeStackNoDuplicate

(* A write to fields of a live slot updates the entry of its handle. *)
LEMMA WriteLiveRefines ==
  ASSUME IInv, NEW h \in LiveHandles, WriteLive(ugc_handle_index(h))
  PROVE  /\ TableOf[h] = Entry(ugc_handle_index(h))
         /\ h \in Table!InUse
         /\ TableOf' = [TableOf EXCEPT ![h] = Entry(ugc_handle_index(h))']
<1>0. TypeOK
  BY DEF IInv
<1>1. PICK i \in Live : h = Slot(i)
  BY DEF LiveHandles
<1>2. i \in Nat /\ i \in Idx /\ ugc_handle_index(h) = i
  BY <1>0, <1>1, CapacityAssumption, IndexOfSlot DEF TypeOK, Idx, Live
<1>3. WriteLive(i)
  BY <1>2
<1>4. i \in Live' /\ \A j \in Idx \ {i} : SameSlot(j)
  <2>1. ugc_handle_types'[i] \in Nat
    BY <1>3, TypesAssumption DEF WriteLive
  <2>2. ugc_handle_count' = ugc_handle_count
    BY <1>3 DEF WriteLive, counts
  <2>3. i \in Live'
    BY <1>1, <2>1, <2>2 DEF Live
  <2>4. \A j \in Idx \ {i} : SameSlot(j)
    BY <1>3, <2>2 DEF WriteLive, SameSlot, Live
  <2> QED  BY <2>3, <2>4
<1>5. TableOf' = [TableOf EXCEPT ![Slot(i)] = Entry(i)']
  BY <1>2, <1>4, TableWrite
<1>6. Entry(ugc_handle_index(h))' = Entry(i)'
  <2>1. ugc_handle_index(h)' = i
    BY <1>2 DEF ugc_handle_index
  <2> QED  BY <1>2 DEF Entry
<1> QED  BY <1>1, <1>2, <1>5, <1>6, TableAt, InUseIsLive

-----------------------------------------------------------------------------
(* The abstract sets of arguments are those of the calls. *)
LEMMA ArgumentSets ==
  /\ Table!ObjectOrNull = ObjectPtrs
  /\ Table!ExtraOrNull = ExtraPtrs
  /\ NULL \in ObjectPtrs
  /\ NULL \in ExtraPtrs
BY DEF Table!ObjectOrNull, Table!ExtraOrNull, ObjectPtrs, ExtraPtrs

(* What may be passed for a handle is a pointer of the table, and is in    *)
(* use exactly when it is a live handle.                                   *)
LEMMA PassedPointers ==
  ASSUME IInv, NEW h \in IssuedHandles \union OutsidePointers
  PROVE  /\ h \in AllHandles \union OutsidePointers
         /\ h \in Table!InUse =>
              /\ ugc_handle_store_contains(h)
              /\ ugc_handle_index(h) \in Live
         /\ h \in AllHandles <=> ugc_handle_store_contains(h)
<1>0. TypeOK
  BY DEF IInv
<1>1. CASE h \in IssuedHandles
  <2>1. PICK i \in 0 .. ugc_handle_count - 1 : h = Slot(i)
    BY <1>1 DEF IssuedHandles
  <2>2. i \in Idx /\ i \in Nat /\ UGC_HANDLE_COUNT \in Nat
    BY <1>0, CapacityAssumption DEF TypeOK, Idx
  <2>3. i < UGC_HANDLE_COUNT
    BY <2>2, CapacityAssumption DEF Idx
  <2>4. ugc_handle_store_contains(h)
    <3>1. CASE PtrSize = 4
      BY <2>1, <2>2, <2>3, <3>1, LayoutAssumption
         DEF ugc_handle_store_contains, Slot
    <3>2. CASE PtrSize = 8
      BY <2>1, <2>2, <2>3, <3>2, LayoutAssumption
         DEF ugc_handle_store_contains, Slot
    <3> QED  BY <3>1, <3>2, LayoutAssumption
  <2>5. ugc_handle_index(h) = i
    BY <2>1, <2>2, IndexOfSlot
  <2> QED  BY <2>1, <2>2, <2>4, <2>5, InUseIsLive DEF AllHandles
<1>2. CASE h \in OutsidePointers
  <2>1. ~ugc_handle_store_contains(h)
    BY <1>2, OutsideNotContained
  <2>2. ASSUME NEW i \in Idx PROVE h # Slot(i)
    <3>1. i \in Nat /\ i < UGC_HANDLE_COUNT
      BY CapacityAssumption DEF Idx
    <3>2. CASE PtrSize = 4
      BY <1>2, <3>1, <3>2, LayoutAssumption, CapacityAssumption
         DEF OutsidePointers, Slot, NULL
    <3>3. CASE PtrSize = 8
      BY <1>2, <3>1, <3>3, LayoutAssumption, CapacityAssumption
         DEF OutsidePointers, Slot, NULL
    <3> QED  BY <3>2, <3>3, LayoutAssumption
  <2>3. h \notin AllHandles
    BY <2>2 DEF AllHandles
  <2> QED  BY <1>2, <2>1, <2>3 DEF Table!InUse
<1> QED  BY <1>1, <1>2

(* Every create is that create of the table. *)
LEMMA CreateCallRefines ==
  ASSUME IInv, CreateCall
  PROVE  Table!TableNext
<1>1. ASSUME NEW o \in ObjectPtrs, NEW t \in Types,
             CreateHandleOfType(o, t), call' = <<"create", o, t>>
      PROVE  Table!TableNext
  <2>1. Table!CreateHandle(o, t)
    BY <1>1, ArgumentSets, CreateRefines
       DEF CreateHandleOfType, ugc_handle_create, Table!CreateHandle
  <2> QED  BY <2>1, ArgumentSets DEF Table!TableNext
<1>2. ASSUME NEW o \in ObjectPtrs, NEW t \in Types, NEW x \in ExtraPtrs,
             CreateHandleWithExtraInfo(o, t, x),
             call' = <<"create with extra", o, t, x>>
      PROVE  Table!TableNext
  <2>1. Table!CreateWithExtra(o, t, x)
    BY <1>2, ArgumentSets, CreateRefines
       DEF CreateHandleWithExtraInfo, ugc_handle_create_with_extra,
           Table!CreateWithExtra
  <2> QED  BY <2>1, ArgumentSets DEF Table!TableNext
<1>3. ASSUME NEW o \in ObjectPtrs, NEW s \in ObjectPtrs,
             CreateDependentHandle(o, s), call' = <<"create dependent", o, s>>
      PROVE  Table!TableNext
  <2>1. Table!CreateDependent(o, s)
    BY <1>3, ArgumentSets, CreateRefines, TypesAssumption
       DEF CreateDependentHandle, ugc_handle_create_dependent,
           Table!CreateDependent
  <2> QED  BY <2>1, ArgumentSets DEF Table!TableNext
<1>4. ASSUME NEW h \in LiveHandles \union {NULL}, CreateDuplicateHandle(h),
             call' = <<"duplicate", h>>
      PROVE  Table!TableNext
  <2>1. Table!Duplicate(h) /\ h \in AllHandles \union OutsidePointers
    <3>1. CASE h = NULL
      BY <1>4, <3>1, ReturnReads
         DEF Table!Duplicate, CreateDuplicateHandle, OutsidePointers
    <3>2. CASE h # NULL
      <4> DEFINE o == ugc_handles[ugc_handle_index(h)]
                 t == ugc_handle_types[ugc_handle_index(h)]
      <4>1. TypeOK /\ h \in LiveHandles
        BY <1>4, <3>2 DEF IInv
      <4>2. PICK i \in Live : h = Slot(i)
        BY <4>1 DEF LiveHandles
      <4>3. ugc_handle_index(h) = i /\ i \in Idx
        BY <4>1, <4>2, CapacityAssumption, IndexOfSlot
           DEF TypeOK, Idx, Live
      <4>4. /\ h \in Table!InUse
            /\ h \in AllHandles
            /\ TableOf[h].object = o
            /\ TableOf[h].type = t
        <5>1. h \in Table!InUse /\ h \in AllHandles /\ TableOf[h] = Entry(i)
          BY <4>2, <4>3, InUseIsLive, TableAt
        <5> QED  BY <4>3, <5>1 DEF Entry
      <4>5. o \in ObjectPtrs /\ t \in Types
        BY <4>1, <4>2, <4>3 DEF IInv, TypeOK, LiveTypes
      <4>6. CreateSlot(o, t, NULL, NULL)
        BY <1>4, <3>2
           DEF CreateDuplicateHandle, ugc_handle_create, ugc_handle_get_type_at
      <4> HIDE DEF o, t
      <4> QED  BY <1>4, <4>4, <4>5, <4>6, ArgumentSets, CreateRefines
               DEF Table!Duplicate
    <3> QED  BY <3>1, <3>2
  <2> QED  BY <2>1, ArgumentSets DEF Table!TableNext
<1> QED  BY <1>1, <1>2, <1>3, <1>4 DEF CreateCall

(* Every destroy is that destroy of the table: a live handle is released,  *)
(* anything else is ignored.                                               *)
LEMMA DestroyCallRefines ==
  ASSUME IInv, DestroyCall
  PROVE  Table!TableNext
<1>1. PICK h \in IssuedHandles \union OutsidePointers :
        DestroyHandle(h) /\ call' = <<"destroy", h>>
  BY DEF DestroyCall
<1>2. CASE h \in Table!InUse
  <2> DEFINE i == ugc_handle_index(h)
  <2>1. ugc_handle_store_contains(h) /\ i \in Live
    BY <1>2, PassedPointers
  <2>2. ugc_handle_free_count # UGC_HANDLE_COUNT
    BY <2>1, StackNotFull
  <2>3. i \in 0 .. ugc_handle_count - 1 /\ i \in Idx
    BY <2>1, CapacityAssumption DEF Live, IInv, TypeOK, Idx
  <2>4. ~(ugc_handle_types[i] < 0)
    BY <2>1, <2>3, TagsAreInts DEF Live, IInv, TypeOK
  <2>5. FreeSlot(i)
    BY <1>1, <2>1, <2>2, <2>4 DEF DestroyHandle, ugc_handle_destroy_at
  <2>6. Slot(i) = h
    <3>1. PICK j \in Live : h = Slot(j)
      BY <1>2, InUseIsLive DEF LiveHandles
    <3>2. j \in Nat
      BY DEF Live
    <3> QED  BY <3>1, <3>2, IndexOfSlot
  <2> HIDE DEF i
  <2>7. Table!Destroy(h)
    BY <1>1, <1>2, <2>3, <2>5, <2>6, FreeSlotRefines DEF Table!Destroy
  <2> QED  BY <2>7, PassedPointers DEF Table!TableNext
<1>3. CASE h \notin Table!InUse
  <2>1. Return(NULL)
    <3>1. CASE ~ugc_handle_store_contains(h)
      BY <1>1, <3>1 DEF DestroyHandle
    <3>2. CASE ugc_handle_store_contains(h)
      <4>1. h \in IssuedHandles
        BY <3>2, OutsideNotContained
      <4>2. PICK j \in 0 .. ugc_handle_count - 1 : h = Slot(j)
        BY <4>1 DEF IssuedHandles
      <4>3. j \in Idx /\ ugc_handle_index(h) = j
        BY <4>2, CapacityAssumption, IndexOfSlot DEF IInv, TypeOK, Idx
      <4>4. j \notin Live
        BY <1>3, <4>2, <4>3, InUseIsLive
      <4>5. ~(ugc_handle_types[j] >= 0)
        BY <4>2, <4>4 DEF Live
      <4> QED
        BY <1>1, <3>2, <4>3, <4>5
           DEF DestroyHandle, ugc_handle_destroy_at, Return
    <3> QED  BY <3>1, <3>2
  <2>2. Table!Destroy(h)
    BY <1>1, <1>3, <2>1, ReturnReads DEF Table!Destroy
  <2> QED  BY <2>2, PassedPointers DEF Table!TableNext
<1> QED  BY <1>2, <1>3

(* Every access is a read or an update of one entry. *)
LEMMA AccessCallRefines ==
  ASSUME IInv,
         \/ \E h \in LiveHandles : WriteCall(h) \/ ReadCall(h)
         \/ ContainsCall
  PROVE  Table!TableNext
<1>0. TypeOK
  BY DEF IInv
<1>1. CASE ContainsCall
  <2>1. PICK h \in IssuedHandles \union OutsidePointers :
          ContainsHandle(h) /\ call' = <<"contains", h>>
    BY <1>1 DEF ContainsCall
  <2>2. Table!Contains(h)
    BY <2>1, ReturnReads, PassedPointers DEF ContainsHandle, Table!Contains
  <2> QED  BY <2>2, PassedPointers DEF Table!TableNext
<1>2. ASSUME NEW h \in LiveHandles, WriteCall(h) \/ ReadCall(h)
      PROVE  Table!TableNext
  <2> DEFINE i == ugc_handle_index(h)
  <2>1. i \in Live /\ i \in Idx /\ Slot(i) = h
    <3>1. PICK j \in Live : h = Slot(j)
      BY <1>2 DEF LiveHandles
    <3>2. j \in Nat
      BY DEF Live
    <3> QED  BY <1>0, <1>2, <3>1, <3>2, LiveIndex, IndexOfSlot
  <2>2. h \in Table!InUse /\ TableOf[h] = Entry(i)
    BY <2>1, InUseIsLive, TableAt
  <2>3. /\ TableOf[h].object = ugc_handles[i]
        /\ TableOf[h].type = ugc_handle_types[i]
        /\ TableOf[h].extra = ugc_handle_extra[i]
        /\ TableOf[h].secondary = ugc_handle_dependent[i]
    BY <2>2 DEF Entry
  <2>4. CASE GetExtraInfoFromHandle(h) /\ call' = <<"get extra", h>>
    <3>1. Table!Read(TableOf[h].extra)
      BY <2>3, <2>4, ReturnReads
         DEF GetExtraInfoFromHandle, ugc_handle_get_extra_at
    <3>2. Table!GetExtraInfo(h)
      BY <2>4, <3>1 DEF Table!GetExtraInfo
    <3> QED  BY <2>2, <3>2, ArgumentSets DEF Table!TableNext
  <2>5. CASE GetDependentHandleSecondary(h) /\ call' = <<"get secondary", h>>
    <3>1. Table!Read(TableOf[h].secondary)
      BY <2>3, <2>5, ReturnReads
         DEF GetDependentHandleSecondary, ugc_handle_dependent_slot_at
    <3>2. Table!GetSecondary(h)
      BY <2>5, <3>1 DEF Table!GetSecondary
    <3> QED  BY <2>2, <3>2, ArgumentSets DEF Table!TableNext
  <2>6. CASE HandleFetchType(h) /\ call' = <<"get type", h>>
    <3>1. Table!Read(TableOf[h].type)
      BY <2>3, <2>6, ReturnReads DEF HandleFetchType, ugc_handle_get_type_at
    <3>2. Table!GetType(h)
      BY <2>6, <3>1 DEF Table!GetType
    <3> QED  BY <2>2, <3>2, ArgumentSets DEF Table!TableNext
  <2>7. ASSUME NEW t \in Types, NEW x \in ExtraPtrs,
               SetExtraInfoForHandle(h, t, x),
               call' = <<"set extra", h, t, x>>
        PROVE  Table!TableNext
    <3>1. TableOf' = [TableOf EXCEPT ![h] = Entry(i)']
      BY <1>2, <2>7, SetExtraInfoWritesLive, WriteLiveRefines
    <3>2. Entry(i)' = [Entry(i) EXCEPT !.type = t, !.extra = x]
      <4>1. /\ ugc_handle_types'[i] = t
            /\ ugc_handle_extra'[i] = x
            /\ ugc_handles' = ugc_handles
            /\ ugc_handle_dependent' = ugc_handle_dependent
        BY <1>0, <2>1, <2>7
           DEF SetExtraInfoForHandle, ugc_handle_set_type_at,
               ugc_handle_set_extra_at, TypeOK
      <4>2. Entry(i)' = [object |-> ugc_handles[i], type |-> t, extra |-> x,
                         secondary |-> ugc_handle_dependent[i]]
        BY <4>1 DEF Entry, ugc_handle_index
      <4> DEFINE e == [object |-> ugc_handles[i], type |-> t,
                       extra |-> ugc_handle_extra[i],
                       secondary |-> ugc_handle_dependent[i]]
      <4>3. [Entry(i) EXCEPT !.type = t] = e
        BY DEF Entry
      <4>4. [Entry(i) EXCEPT !.type = t, !.extra = x] = [e EXCEPT !.extra = x]
        BY <4>3, Zenon
      <4>5. Entry(i)' = [e EXCEPT !.extra = x]
        BY <4>2
      <4> QED  BY <4>4, <4>5, Zenon
    <3>3. ret' = NULL
      BY <2>7 DEF SetExtraInfoForHandle
    <3>4. Table!SetExtraInfo(h, t, x)
      BY <2>2, <2>7, <3>1, <3>2, <3>3 DEF Table!SetExtraInfo, Table!Update
    <3> QED  BY <2>2, <3>4, ArgumentSets DEF Table!TableNext
  <2>8. ASSUME NEW o \in ObjectPtrs, SetDependentHandleSecondary(h, o),
               call' = <<"set secondary", h, o>>
        PROVE  Table!TableNext
    <3>1. TableOf' = [TableOf EXCEPT ![h] = Entry(i)']
      BY <1>2, <2>8, SetSecondaryWritesLive, WriteLiveRefines
    <3>s. SetDependentHandleSecondary(h, o)
      BY <2>8
    <3>2. Entry(i)' = [Entry(i) EXCEPT !.secondary = o]
      BY <1>0, <2>1, <3>s
         DEF Entry, SetDependentHandleSecondary, ugc_handle_set_dependent_at,
             ugc_handle_index, TypeOK
    <3>3. ret' = NULL
      BY <2>8 DEF SetDependentHandleSecondary, ugc_handle_set_dependent_at
    <3>4. Table!SetSecondary(h, o)
      BY <2>2, <2>8, <3>1, <3>2, <3>3 DEF Table!SetSecondary, Table!Update
    <3> QED  BY <2>2, <3>4, ArgumentSets DEF Table!TableNext
  <2>9. ASSUME NEW o \in ObjectPtrs, NEW v \in Int, WriteObject(h, o, v)
        PROVE  Table!Update(h, [TableOf[h] EXCEPT !.object = o], v)
    <3>1. TableOf' = [TableOf EXCEPT ![h] = Entry(i)']
      BY <1>2, <2>9, WriteObjectWritesLive, WriteLiveRefines
    <3>2. Entry(i)' = [Entry(i) EXCEPT !.object = o]
      BY <1>0, <2>1, <2>9 DEF Entry, WriteObject, ugc_handle_index, TypeOK
    <3>3. ret' = v
      BY <2>9 DEF WriteObject
    <3> QED  BY <2>2, <3>1, <3>2, <3>3 DEF Table!Update
  <2>10. ASSUME NEW o \in ObjectPtrs, StoreObjectInHandle(h, o),
                call' = <<"store", h, o>>
         PROVE  Table!TableNext
    <3>1. Table!Store(h, o)
      BY <2>9, <2>10
         DEF StoreObjectInHandle, ugc_handle_slot_store, NULL, Table!Store
    <3> QED  BY <2>2, <3>1, ArgumentSets DEF Table!TableNext
  <2>11. ASSUME NEW o \in ObjectPtrs, StoreObjectInHandleIfNull(h, o),
                call' = <<"store if null", h, o>>
         PROVE  Table!TableNext
    <3>1. \/ ugc_handles[i] = NULL /\ WriteObject(h, o, 1)
          \/ ugc_handles[i] # NULL /\ Return(0)
      BY <2>11 DEF StoreObjectInHandleIfNull, ugc_handle_slot_store_if_null
    <3>2. Table!StoreIfNull(h, o)
      <4>1. CASE ugc_handles[i] = NULL /\ WriteObject(h, o, 1)
        <5>1. Table!Update(h, [TableOf[h] EXCEPT !.object = o], 1)
          BY <2>9, <4>1
        <5> QED  BY <2>3, <2>11, <4>1, <5>1 DEF Table!StoreIfNull
      <4>2. CASE ugc_handles[i] # NULL /\ Return(0)
        BY <2>3, <2>11, <4>2, ReturnReads DEF Table!StoreIfNull
      <4> QED  BY <3>1, <4>1, <4>2
    <3> QED  BY <2>2, <3>2, ArgumentSets DEF Table!TableNext
  <2>12. ASSUME NEW o \in ObjectPtrs, NEW c \in ObjectPtrs,
                InterlockedCompareExchangeObjectInHandle(h, o, c),
                call' = <<"compare exchange", h, o, c>>
         PROVE  Table!TableNext
    <3>1. \/ ugc_handles[i] = c /\ WriteObject(h, o, o)
          \/ ugc_handles[i] # c /\ Return(ugc_handles[i])
      BY <2>12 DEF InterlockedCompareExchangeObjectInHandle,
                   ugc_handle_slot_cas
    <3>2. o \in Int
      BY PointersAreInts
    <3>3. Table!CompareExchange(h, o, c)
      BY <2>3, <2>9, <2>12, <3>1, <3>2, ReturnReads
         DEF Table!CompareExchange
    <3> QED  BY <2>2, <3>3, ArgumentSets DEF Table!TableNext
  <2> HIDE DEF i
  <2> QED
    BY <1>2, <2>4, <2>5, <2>6, <2>7, <2>8, <2>10, <2>11, <2>12
       DEF WriteCall, ReadCall
<1> QED  BY <1>1, <1>2

-----------------------------------------------------------------------------
(* The record of the calls constrains nothing: a recorded step is a step.  *)
LEMMA CallsAreSteps == [CallNext]_callVars => [Next]_vars
<1>1. CASE CallNext
  <2>1. CASE CreateCall
    <3>1. CreateStep
      BY <2>1 DEF CreateCall, CreateStep
    <3> QED  BY <1>1, <3>1 DEF CallNext, Next
  <2>2. CASE DestroyCall
    <3>1. DestroyStep
      BY <2>2 DEF DestroyCall, DestroyStep
    <3> QED  BY <1>1, <3>1 DEF CallNext, Next
  <2>3. CASE ContainsCall
    <3>1. AccessStep
      BY <2>3 DEF ContainsCall, AccessStep
    <3> QED  BY <1>1, <3>1 DEF CallNext, Next
  <2>4. CASE \E h \in LiveHandles : WriteCall(h) \/ ReadCall(h)
    <3>1. AccessStep
      BY <2>4 DEF WriteCall, ReadCall, AccessStep
    <3> QED  BY <1>1, <3>1 DEF CallNext, Next
  <2> QED  BY <1>1, <2>1, <2>2, <2>3, <2>4 DEF CallNext
<1>2. CASE UNCHANGED callVars
  BY <1>2 DEF callVars
<1> QED  BY <1>1, <1>2

(* For every capacity, the handle manager implements the abstract table,   *)
(* call by call: a create returns a handle that nobody holds and returns   *)
(* NULL only when all are in use, the destroy of a live handle releases it *)
(* and any other destroy does nothing, an access reads or changes the      *)
(* handle it names.                                                        *)
THEOREM HandleManagerImplementsTable == CallSpec => ImplementsTable
<1>1. CallInit => Table!TableInit /\ IInv
  BY InitRefines, InitIInv DEF CallInit
<1>2. IInv /\ [CallNext]_callVars => IInv'
  BY CallsAreSteps, NextIInv
<1>3. IInv /\ [CallNext]_callVars => [Table!TableNext]_(Table!tableVars)
  <2>1. ASSUME IInv, CallNext PROVE Table!TableNext
    BY <2>1, CreateCallRefines, DestroyCallRefines, AccessCallRefines
       DEF CallNext
  <2>2. ASSUME UNCHANGED callVars PROVE UNCHANGED Table!tableVars
    BY <2>2
       DEF callVars, vars, coreVars, Table!tableVars, TableOf, Entry, Live
  <2> QED  BY <2>1, <2>2
<1> QED
  BY <1>1, <1>2, <1>3, PTL DEF CallSpec, ImplementsTable, Table!TableSpec

=============================================================================
