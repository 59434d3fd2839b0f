------------------------- MODULE HandleMisuseProofs -------------------------
(***************************************************************************)
(* What survives a runtime that misuses handles, for every capacity and    *)
(* any number of mistakes with slots.  Retyping and foreign destroys       *)
(* included, the store never leaves its arrays; until one of these two, no *)
(* index is on the free stack twice, however many destroyed handles are    *)
(* duplicated; and each of those duplicates costs the store one slot,      *)
(* never more.                                                             *)
(***************************************************************************)
EXTENDS HandleMisuse, FiniteSetTheorems, TLAPS

(* The stack holds indices of the array, above its top as well. *)
RangeInv ==
  /\ ugc_handle_count \in 0 .. UGC_HANDLE_COUNT
  /\ ugc_handle_free_count \in 0 .. UGC_HANDLE_COUNT
  /\ ugc_handle_free_stack \in [Idx -> Idx]

(* Distinct indices below the top, all tagged: the slots that a stale      *)
(* duplicate took are tagged too, but below the top they are not.          *)
AliasInv ==
  /\ RangeInv
  /\ ugc_handle_types \in [Idx -> Int]
  /\ FreeStackSound
  /\ FreeStackNoDuplicate

(* What is inductive for a runtime that may go wild later. *)
TameInv == wild \in BOOLEAN /\ (~wild => AliasInv)

-----------------------------------------------------------------------------
(* The index of the address of a slot is the slot's index. *)
LEMMA IndexOfSlot ==
  ASSUME NEW i \in Nat
  PROVE  ugc_handle_index(Slot(i)) = i
<1>1. CASE PtrSize = 4
  BY <1>1, LayoutAssumption DEF ugc_handle_index, Slot
<1>2. CASE PtrSize = 8
  BY <1>2, LayoutAssumption DEF ugc_handle_index, Slot
<1> QED  BY <1>1, <1>2, LayoutAssumption

(* No slot is at the null address. *)
LEMMA SlotNotNull ==
  ASSUME NEW i \in Nat
  PROVE  Slot(i) # NULL
<1>1. CASE PtrSize = 4
  BY <1>1, LayoutAssumption DEF Slot, NULL
<1>2. CASE PtrSize = 8
  BY <1>2, LayoutAssumption DEF Slot, NULL
<1> QED  BY <1>1, <1>2, LayoutAssumption

(* A pointer outside the array is not contained in it. *)
LEMMA OutsideNotContained ==
  ASSUME NEW h \in OutsidePointers
  PROVE  ~ugc_handle_store_contains(h)
<1>1. CASE PtrSize = 4
  BY <1>1, LayoutAssumption, CapacityAssumption
     DEF ugc_handle_store_contains, OutsidePointers, NULL
<1>2. CASE PtrSize = 8
  BY <1>2, LayoutAssumption, CapacityAssumption
     DEF ugc_handle_store_contains, OutsidePointers, NULL
<1> QED  BY <1>1, <1>2, LayoutAssumption

(* The zeroed arrays satisfy both invariants. *)
LEMMA InitInvs == MisuseInit => RangeInv /\ AliasInv
BY CapacityAssumption
   DEF MisuseInit, Init, CoreInit, RangeInv, AliasInv, FreeStackSound, FreeStackNoDuplicate, Idx

-----------------------------------------------------------------------------
(* What the steps do to counters, stack and tags. *)

Untouched == UNCHANGED <<counts, ugc_handle_free_stack>>

(* Nothing, in most of them. *)
LEMMA UntouchedKeeps ==
  ASSUME Untouched
  PROVE  /\ RangeInv => RangeInv'
         /\ AliasInv /\ UNCHANGED ugc_handle_types => AliasInv'
BY DEF Untouched, RangeInv, AliasInv, FreeStackSound,
       FreeStackNoDuplicate, counts

(* A create takes an index of the array or none. *)
LEMMA CreatedRange ==
  ASSUME RangeInv, NEW o, NEW t, NEW x, NEW s, CreateSlot(o, t, x, s)
  PROVE  RangeInv'
BY CapacityAssumption
   DEF CreateSlot, ugc_handle_slot_acquire, RangeInv, counts

(* A destroy pushes within the stack, for the full-stack test. *)
LEMMA DestroyedRange ==
  ASSUME RangeInv, NEW i \in Idx, ugc_handle_destroy_at(i)
  PROVE  RangeInv'
<1>1. CASE Untouched
  BY <1>1 DEF Untouched, RangeInv, counts
<1>2. CASE ugc_handle_free_count # UGC_HANDLE_COUNT /\ FreeSlot(i)
  <2>1. /\ ugc_handle_count' = ugc_handle_count
        /\ ugc_handle_free_count' = ugc_handle_free_count + 1
        /\ ugc_handle_free_stack' =
             [ugc_handle_free_stack EXCEPT ![ugc_handle_free_count] = i]
    BY <1>2 DEF FreeSlot
  <2>2. ugc_handle_free_count' \in 0 .. UGC_HANDLE_COUNT
    BY <1>2, <2>1, CapacityAssumption DEF RangeInv
  <2>3. ugc_handle_free_stack' \in [Idx -> Idx]
    BY <2>1 DEF RangeInv
  <2> QED  BY <2>1, <2>2, <2>3 DEF RangeInv
<1> QED  BY <1>1, <1>2 DEF ugc_handle_destroy_at, Untouched

(* A create pops one index and may write any tag over it; the indices that *)
(* stay below the top are others.                                          *)
LEMMA CreatedAlias ==
  ASSUME AliasInv, NEW o, NEW t \in Int, NEW x, NEW s, CreateSlot(o, t, x, s)
  PROVE  AliasInv'
<1>1. RangeInv'
  BY CreatedRange DEF AliasInv
<1>2. PICK idx \in Idx \union {-1} : /\ ugc_handle_slot_acquire(idx)
                                     /\ FillSlot(idx, o, t, x, s)
  BY DEF CreateSlot
<1>3. UNCHANGED ugc_handle_free_stack
  BY DEF CreateSlot
<1>4. ugc_handle_types' \in [Idx -> Int]
  BY <1>2 DEF FillSlot, AliasInv, arrays
<1>5. CASE /\ ugc_handle_free_count > 0
           /\ idx = ugc_handle_free_stack[ugc_handle_free_count - 1]
           /\ ugc_handle_free_count' = ugc_handle_free_count - 1
           /\ UNCHANGED ugc_handle_count
  <2>1. /\ ugc_handle_free_count - 1 \in 0 .. ugc_handle_free_count - 1
        /\ \A k \in 0 .. ugc_handle_free_count' - 1 :
             /\ k \in 0 .. ugc_handle_free_count - 1
             /\ k # ugc_handle_free_count - 1
             /\ k \in Idx
    BY <1>5, CapacityAssumption DEF AliasInv, RangeInv, Idx
  <2>2. \A k \in 0 .. ugc_handle_free_count' - 1 :
          ugc_handle_free_stack[k] # idx /\ ugc_handle_free_stack[k] \in Idx
    BY <1>5, <2>1 DEF AliasInv, RangeInv, FreeStackNoDuplicate
  <2>3. \A j \in Idx : j # idx => ugc_handle_types'[j] = ugc_handle_types[j]
    BY <1>2 DEF FillSlot, AliasInv, arrays
  <2>4. FreeStackSound'
    BY <1>3, <1>5, <2>1, <2>2, <2>3 DEF AliasInv, FreeStackSound
  <2>5. FreeStackNoDuplicate'
    BY <1>3, <2>1 DEF AliasInv, FreeStackNoDuplicate
  <2> QED  BY <1>1, <1>4, <2>4, <2>5 DEF AliasInv
<1>6. CASE ugc_handle_free_count = 0 /\ UNCHANGED ugc_handle_free_count
  BY <1>1, <1>4, <1>6
     DEF AliasInv, FreeStackSound, FreeStackNoDuplicate
<1> QED  BY <1>2, <1>5, <1>6 DEF ugc_handle_slot_acquire, counts

(* A destroy pushes an index whose tag says that it is not on the stack. *)
LEMMA DestroyedAlias ==
  ASSUME AliasInv, NEW i \in 0 .. ugc_handle_count - 1,
         ugc_handle_destroy_at(i)
  PROVE  AliasInv'
<1>0. i \in Idx
  BY CapacityAssumption DEF AliasInv, RangeInv, Idx
<1>1. RangeInv'
  BY <1>0, DestroyedRange DEF AliasInv
<1>2. CASE UNCHANGED <<arrays, counts, ugc_handle_free_stack>>
  BY <1>1, <1>2 DEF AliasInv, FreeStackSound,
                    FreeStackNoDuplicate, arrays, counts
<1>3. CASE /\ ugc_handle_types[i] >= 0
           /\ ugc_handle_free_count # UGC_HANDLE_COUNT
           /\ FreeSlot(i)
  <2>0. /\ ugc_handle_free_count \in Idx
        /\ ugc_handle_free_count' = ugc_handle_free_count + 1
        /\ UNCHANGED ugc_handle_count
    BY <1>3, CapacityAssumption DEF FreeSlot, AliasInv, RangeInv, Idx
  <2>1. \A k \in 0 .. ugc_handle_free_count' - 1 :
          /\ k \in Idx
          /\ k = ugc_handle_free_count \/ k \in 0 .. ugc_handle_free_count - 1
    BY <2>0, CapacityAssumption DEF Idx
  <2>2. /\ ugc_handle_free_stack' =
             [ugc_handle_free_stack EXCEPT ![ugc_handle_free_count] = i]
        /\ ugc_handle_types' =
             [ugc_handle_types EXCEPT ![i] = UGC_HANDLE_TYPE_FREE]
        /\ UGC_HANDLE_TYPE_FREE \in Int /\ UGC_HANDLE_TYPE_FREE < 0
    BY <1>3 DEF FreeSlot, UGC_HANDLE_TYPE_FREE
  <2>3. ugc_handle_types' \in [Idx -> Int]
    BY <2>2 DEF AliasInv
  <2>4. \A k \in 0 .. ugc_handle_free_count - 1 :
          /\ ugc_handle_free_stack[k] # i
          /\ ugc_handle_free_stack[k] < ugc_handle_count
          /\ ugc_handle_types[ugc_handle_free_stack[k]] < 0
    <3>1. ugc_handle_types[i] \in Int
      BY <1>0 DEF AliasInv
    <3> QED  BY <1>3, <3>1 DEF AliasInv, FreeStackSound
  <2>5. /\ ugc_handle_free_stack'[ugc_handle_free_count] = i
        /\ \A k \in 0 .. ugc_handle_free_count - 1 : k \in Idx =>
             ugc_handle_free_stack'[k] = ugc_handle_free_stack[k]
    BY <2>0, <2>2 DEF AliasInv, RangeInv
  <2>6. FreeStackSound'
    <3> SUFFICES ASSUME NEW k \in 0 .. ugc_handle_free_count' - 1
                 PROVE  /\ ugc_handle_free_stack'[k] < ugc_handle_count
                        /\ ugc_handle_types'[ugc_handle_free_stack'[k]] < 0
      BY <2>0 DEF FreeStackSound
    <3>1. CASE k = ugc_handle_free_count
      BY <1>0, <2>2, <2>5, <3>1 DEF AliasInv, RangeInv
    <3>2. CASE k \in 0 .. ugc_handle_free_count - 1
      BY <1>0, <2>1, <2>2, <2>4, <2>5, <3>2 DEF AliasInv, RangeInv
    <3> QED  BY <2>1, <3>1, <3>2
  <2>7. FreeStackNoDuplicate'
    BY <2>1, <2>4, <2>5
       DEF AliasInv, FreeStackNoDuplicate
  <2> QED  BY <1>1, <2>3, <2>6, <2>7 DEF AliasInv
<1> QED  BY <1>2, <1>3 DEF ugc_handle_destroy_at

(* A new type over the tag of a live slot, which is not on the stack. *)
LEMMA RetypedAlias ==
  ASSUME AliasInv, NEW i \in Live, NEW t \in Types, Untouched,
         ugc_handle_types' = [ugc_handle_types EXCEPT ![i] = t]
  PROVE  AliasInv'
<1>1. RangeInv'
  BY UntouchedKeeps DEF AliasInv
<1>2. i \in Idx /\ ugc_handle_types[i] \in Int /\ ugc_handle_types[i] >= 0
  BY CapacityAssumption DEF Live, AliasInv, RangeInv, Idx
<1>3. ugc_handle_types' \in [Idx -> Int]
  <2>1. t \in Int
    BY TypesAssumption
  <2> QED  BY <2>1 DEF AliasInv
<1>4. FreeStackSound'
  <2> SUFFICES ASSUME NEW k \in 0 .. ugc_handle_free_count - 1
               PROVE  /\ ugc_handle_free_stack[k] < ugc_handle_count
                      /\ ugc_handle_types'[ugc_handle_free_stack[k]] < 0
    BY DEF Untouched, FreeStackSound, counts
  <2>1. k \in Idx
    BY CapacityAssumption DEF AliasInv, RangeInv, Idx
  <2>2. /\ ugc_handle_free_stack[k] \in Idx
        /\ ugc_handle_free_stack[k] < ugc_handle_count
        /\ ugc_handle_types[ugc_handle_free_stack[k]] < 0
    BY <2>1 DEF AliasInv, RangeInv, FreeStackSound
  <2>3. ugc_handle_free_stack[k] # i
    BY <1>2, <2>2
  <2> QED  BY <2>2, <2>3 DEF AliasInv
<1>5. FreeStackNoDuplicate'
  BY DEF AliasInv, FreeStackNoDuplicate, Untouched, counts
<1> QED  BY <1>1, <1>3, <1>4, <1>5 DEF AliasInv

-----------------------------------------------------------------------------
(* The destroy of a handle that was issued, or of a pointer outside, is    *)
(* that of a slot that was taken, or nothing.                              *)
LEMMA DestroyStepTaken ==
  ASSUME RangeInv, DestroyStep
  PROVE  \/ Return(NULL)
         \/ \E i \in 0 .. ugc_handle_count - 1 : ugc_handle_destroy_at(i)
<1>1. PICK h \in IssuedHandles \union OutsidePointers : DestroyHandle(h)
  BY DEF DestroyStep
<1>2. CASE ugc_handle_store_contains(h)
  <2>1. PICK i \in 0 .. ugc_handle_count - 1 : h = Slot(i)
    BY <1>2, OutsideNotContained DEF IssuedHandles
  <2>2. ugc_handle_index(h) = i
    BY <2>1, IndexOfSlot DEF RangeInv
  <2> QED  BY <1>1, <1>2, <2>2 DEF DestroyHandle
<1>3. CASE ~ugc_handle_store_contains(h)
  BY <1>1, <1>3 DEF DestroyHandle
<1> QED  BY <1>2, <1>3

(* The same for a slot of the array that was never handed out. *)
LEMMA DestroyForeignIndex ==
  ASSUME RangeInv, DestroyForeign
  PROVE  Return(NULL) \/ \E i \in Idx : ugc_handle_destroy_at(i)
<1>1. PICK i \in ugc_handle_count .. UGC_HANDLE_COUNT - 1 :
        DestroyHandle(Slot(i))
  BY DEF DestroyForeign
<1>2. i \in Nat /\ i \in Idx
  BY CapacityAssumption DEF RangeInv, Idx
<1> QED  BY <1>1, <1>2, IndexOfSlot DEF DestroyHandle

(* A duplicate of the handle of a slot that was taken is a create with the *)
(* object and the tag of that slot.                                        *)
LEMMA DuplicateOf ==
  ASSUME RangeInv, NEW i \in 0 .. ugc_handle_count - 1,
         CreateDuplicateHandle(Slot(i))
  PROVE  CreateSlot(ugc_handles[i], ugc_handle_types[i], NULL, NULL)
<1>1. i \in Nat /\ ugc_handle_index(Slot(i)) = i
  BY IndexOfSlot DEF RangeInv
<1>2. Slot(i) # NULL
  BY <1>1, SlotNotNull
<1> QED
  BY <1>1, <1>2
     DEF CreateDuplicateHandle, ugc_handle_create, ugc_handle_get_type_at

(* Creates by the runtime, the duplicates of live handles included. *)
LEMMA CreateSteps ==
  ASSUME RangeInv, CreateStep
  PROVE  \/ Return(NULL)
         \/ \E o \in ObjectPtrs, t \in Types, x \in ExtraPtrs, s \in ObjectPtrs :
              CreateSlot(o, t, x, s)
         \/ \E i \in Live :
              CreateSlot(ugc_handles[i], ugc_handle_types[i], NULL, NULL)
<1>1. CASE \/ \E o \in ObjectPtrs, t \in Types : CreateHandleOfType(o, t)
           \/ \E o \in ObjectPtrs, t \in Types, x \in ExtraPtrs :
                CreateHandleWithExtraInfo(o, t, x)
           \/ \E o, s \in ObjectPtrs : CreateDependentHandle(o, s)
  BY <1>1, TypesAssumption
     DEF CreateHandleOfType, CreateHandleWithExtraInfo, CreateDependentHandle,
         ugc_handle_create, ugc_handle_create_with_extra,
         ugc_handle_create_dependent, ObjectPtrs, ExtraPtrs
<1>2. CASE \E h \in LiveHandles \union {NULL} : CreateDuplicateHandle(h)
  <2>1. PICK h \in LiveHandles \union {NULL} : CreateDuplicateHandle(h)
    BY <1>2
  <2>2. CASE h = NULL
    BY <2>1, <2>2 DEF CreateDuplicateHandle
  <2>3. CASE h \in LiveHandles
    <3>1. PICK i \in Live : h = Slot(i)
      BY <2>3 DEF LiveHandles
    <3>2. i \in 0 .. ugc_handle_count - 1
      BY DEF Live
    <3> QED  BY <2>1, <3>1, <3>2, DuplicateOf
  <2> QED  BY <2>2, <2>3
<1> QED  BY <1>1, <1>2 DEF CreateStep

(* The duplicate of a destroyed handle is a create with a negative type. *)
LEMMA StaleCreate ==
  ASSUME RangeInv, DuplicateDestroyed
  PROVE  \E i \in Destroyed :
           CreateSlot(ugc_handles[i], ugc_handle_types[i], NULL, NULL)
<1>1. PICK i \in Destroyed : CreateDuplicateHandle(Slot(i))
  BY DEF DuplicateDestroyed
<1>2. i \in 0 .. ugc_handle_count - 1
  BY DEF Destroyed
<1> QED  BY <1>1, <1>2, DuplicateOf

(* The slots named there are slots of the array. *)
LEMMA PrefixInArray ==
  ASSUME NEW n \in 0 .. UGC_HANDLE_COUNT
  PROVE  0 .. n - 1 \subseteq Idx
BY CapacityAssumption DEF Idx

LEMMA TakenInArray ==
  ASSUME RangeInv
  PROVE  /\ 0 .. ugc_handle_count - 1 \subseteq Idx
         /\ Live \subseteq Idx /\ Destroyed \subseteq Idx
BY CapacityAssumption DEF RangeInv, Idx, Live, Destroyed

-----------------------------------------------------------------------------
(* Accesses, those to idle slots included, write neither counters nor      *)
(* stack.                                                                  *)
LEMMA AccessUntouched ==
  ASSUME AccessStep \/ RetypeIdle \/ TouchIdle
  PROVE  Untouched
BY DEF AccessStep, RetypeIdle, TouchIdle, SetExtraInfoForHandle,
       GetExtraInfoFromHandle, StoreObjectInHandle, StoreObjectInHandleIfNull,
       SetDependentHandleSecondary, GetDependentHandleSecondary,
       InterlockedCompareExchangeObjectInHandle, HandleFetchType,
       ContainsHandle, ugc_handle_slot_store, ugc_handle_slot_store_if_null,
       ugc_handle_slot_cas, ugc_handle_set_dependent_at, WriteObject, Return,
       Untouched

(* An access to a live handle writes at most the type of its slot. *)
LEMMA AccessTags ==
  ASSUME AccessStep \/ TouchIdle
  PROVE  \/ UNCHANGED ugc_handle_types
         \/ \E h \in LiveHandles, t \in Types :
              ugc_handle_types' =
                [ugc_handle_types EXCEPT ![ugc_handle_index(h)] = t]
BY DEF AccessStep, TouchIdle, SetExtraInfoForHandle, ugc_handle_set_type_at,
       GetExtraInfoFromHandle, StoreObjectInHandle, StoreObjectInHandleIfNull,
       SetDependentHandleSecondary, GetDependentHandleSecondary,
       InterlockedCompareExchangeObjectInHandle, HandleFetchType,
       ContainsHandle, ugc_handle_slot_store, ugc_handle_slot_store_if_null,
       ugc_handle_slot_cas, ugc_handle_set_dependent_at, WriteObject, Return,
       arrays

(* A call that only returns a value keeps it. *)
LEMMA ReturnKeeps ==
  ASSUME Return(NULL)
  PROVE  (RangeInv => RangeInv') /\ (AliasInv => AliasInv')
BY UntouchedKeeps DEF Return, Untouched, arrays

(* Every step, with whatever mistakes, keeps the indices in the arrays. *)
LEMMA NextRange == RangeInv /\ [MisuseNext]_misuseVars => RangeInv'
<1> SUFFICES ASSUME RangeInv, [MisuseNext]_misuseVars PROVE RangeInv'
  OBVIOUS
<1>1. CASE CreateStep \/ DuplicateDestroyed
  BY <1>1, CreateSteps, StaleCreate, CreatedRange, ReturnKeeps
<1>2. CASE DestroyStep
  BY <1>2, TakenInArray, DestroyStepTaken, DestroyedRange, ReturnKeeps
<1>3. CASE DestroyForeign
  BY <1>3, DestroyForeignIndex, DestroyedRange, ReturnKeeps
<1>4. CASE AccessStep \/ RetypeIdle \/ TouchIdle
  BY <1>4, AccessUntouched, UntouchedKeeps
<1>5. CASE UNCHANGED misuseVars
  BY <1>5, UntouchedKeeps DEF misuseVars, vars, coreVars, counts, Untouched
<1> QED  BY <1>1, <1>2, <1>3, <1>4, <1>5 DEF MisuseNext, LegalStep

(* Until a retype or a foreign destroy, the stack stays without aliases. *)
LEMMA NextAlias ==
  ~wild' /\ AliasInv /\ [MisuseNext]_misuseVars => AliasInv'
<1> SUFFICES ASSUME ~wild', AliasInv, [MisuseNext]_misuseVars
             PROVE  AliasInv'
  OBVIOUS
<1>0. RangeInv
  BY DEF AliasInv
<1>1. CASE CreateStep \/ DuplicateDestroyed
  <2>1. Types \subseteq Int /\ \A i \in Idx : ugc_handle_types[i] \in Int
    BY TypesAssumption DEF AliasInv
  <2>2. Live \subseteq Idx /\ Destroyed \subseteq Idx
    BY <1>0, TakenInArray
  <2>3. CASE CreateStep
    BY <1>0, <2>1, <2>2, <2>3, CreateSteps, CreatedAlias, ReturnKeeps
  <2>4. CASE DuplicateDestroyed
    BY <1>0, <2>1, <2>2, <2>4, StaleCreate, CreatedAlias
  <2> QED  BY <1>1, <2>3, <2>4
<1>2. CASE DestroyStep
  BY <1>0, <1>2, DestroyStepTaken, DestroyedAlias, ReturnKeeps
<1>3. ~RetypeIdle /\ ~DestroyForeign
  BY DEF RetypeIdle, DestroyForeign
<1>4. CASE AccessStep \/ TouchIdle
  <2>1. Untouched
    BY <1>4, AccessUntouched
  <2>2. CASE UNCHANGED ugc_handle_types
    BY <2>1, <2>2, UntouchedKeeps
  <2>3. ASSUME NEW h \in LiveHandles, NEW t \in Types,
               ugc_handle_types' =
                 [ugc_handle_types EXCEPT ![ugc_handle_index(h)] = t]
        PROVE  AliasInv'
    <3>1. PICK i \in Live : h = Slot(i)
      BY DEF LiveHandles
    <3>2. ugc_handle_index(h) = i
      BY <1>0, <3>1, IndexOfSlot DEF Live, RangeInv
    <3> QED  BY <2>1, <2>3, <3>2, RetypedAlias
  <2> QED  BY <1>4, <2>2, <2>3, AccessTags
<1>5. CASE UNCHANGED misuseVars
  BY <1>5, UntouchedKeeps
     DEF misuseVars, vars, coreVars, counts, Untouched
<1> QED  BY <1>1, <1>2, <1>3, <1>4, <1>5 DEF MisuseNext, LegalStep

-----------------------------------------------------------------------------
(* For every capacity, and whichever slots a runtime retypes, destroys,    *)
(* duplicates or writes out of turn, the counters and the indices on the   *)
(* free stack stay in the arrays: the tests of ugc_handle_store_contains   *)
(* and of ugc_handle_destroy_at suffice for pointers to slots.             *)
THEOREM MisuseArraysInRange == MisuseSpec => []ArraysInRange
<1>1. RangeInv => ArraysInRange
  BY CapacityAssumption DEF RangeInv, ArraysInRange, Idx
<1> QED  BY <1>1, InitInvs, NextRange, PTL DEF MisuseSpec

(* A runtime that has been wild stays it. *)
LEMMA WildStays ==
  ASSUME wild \in BOOLEAN, [MisuseNext]_misuseVars
  PROVE  wild' \in BOOLEAN /\ (wild => wild')
BY DEF MisuseNext, LegalStep, DuplicateDestroyed, RetypeIdle, DestroyForeign,
       TouchIdle, misuseVars

(* For every capacity, a runtime that duplicates destroyed handles and     *)
(* writes through them never gets the same handle from two creates, as     *)
(* long as it neither retypes idle slots nor destroys slots it was never   *)
(* given: the free stack holds destroyed slots only, and none twice.       *)
THEOREM MisuseNoAliasing == MisuseSpec => []NoAliasing
<1>1. MisuseInit => TameInv
  BY InitInvs DEF MisuseInit, TameInv
<1>2. TameInv /\ [MisuseNext]_misuseVars => TameInv'
  BY NextAlias, WildStays DEF TameInv
<1>3. TameInv => NoAliasing
  BY DEF TameInv, AliasInv, NoAliasing
<1> QED  BY <1>1, <1>2, <1>3, PTL DEF MisuseSpec

-----------------------------------------------------------------------------
(* Lost slots.  A slot is lost only when a create writes a negative tag    *)
(* over the index it popped, which no legal create does; every other step  *)
(* leaves the lost slots as they are, or finds one again.                  *)

TagInv == RangeInv /\ ugc_handle_types \in [Idx -> Int]

LostInv ==
  /\ TagInv
  /\ stale \in Nat
  /\ wild \in BOOLEAN
  /\ LostBounded
  /\ ~wild => AliasInv
  /\ LostExact

(* There are finitely many of them. *)
LEMMA LostFinite ==
  ASSUME RangeInv
  PROVE  IsFiniteSet(LostSlots) /\ Cardinality(LostSlots) \in Nat
<1>1. LostSlots \subseteq Idx
  BY TakenInArray DEF LostSlots
<1>2. 0 \in Int /\ UGC_HANDLE_COUNT - 1 \in Int
  BY CapacityAssumption
<1>3. IsFiniteSet(Idx)
  BY <1>2, FS_Interval DEF Idx
<1> QED  BY <1>1, <1>3, FS_Subset, FS_CardinalityType

(* Losing at most one slot adds at most one. *)
LEMMA LostCount ==
  ASSUME RangeInv, NEW T, NEW i, T \subseteq LostSlots \union {i}
  PROVE  /\ Cardinality(T) \in Nat
         /\ Cardinality(T) <= Cardinality(LostSlots) + 1
         /\ T \subseteq LostSlots => Cardinality(T) <= Cardinality(LostSlots)
         /\ T = LostSlots \union {i} /\ i \notin LostSlots
              => Cardinality(T) = Cardinality(LostSlots) + 1
<1>1. IsFiniteSet(LostSlots) /\ Cardinality(LostSlots) \in Nat
  BY LostFinite
<1>2. /\ IsFiniteSet(LostSlots \union {i})
      /\ Cardinality(LostSlots \union {i}) =
           IF i \in LostSlots THEN Cardinality(LostSlots)
                              ELSE Cardinality(LostSlots) + 1
  BY <1>1, FS_AddElement
<1>3. /\ IsFiniteSet(T)
      /\ Cardinality(T) <= Cardinality(LostSlots \union {i})
  BY <1>2, FS_Subset
<1>4. Cardinality(T) \in Nat
  BY <1>3, FS_CardinalityType
<1>5. T \subseteq LostSlots => Cardinality(T) <= Cardinality(LostSlots)
  BY <1>1, FS_Subset
<1>6. T = LostSlots \union {i} /\ i \notin LostSlots
        => Cardinality(T) = Cardinality(LostSlots) + 1
  BY <1>2
<1>7. ASSUME NEW a \in Nat, NEW b \in Nat, NEW c,
             c = IF i \in LostSlots THEN b ELSE b + 1, a <= c
      PROVE  a <= b + 1
  BY <1>7
<1>8. Cardinality(T) <= Cardinality(LostSlots) + 1
  BY <1>1, <1>2, <1>3, <1>4, <1>7
<1> QED  BY <1>4, <1>5, <1>6, <1>8

(* A step that leaves the count, the stack and the tags. *)
LEMMA LostSame ==
  ASSUME UNCHANGED <<counts, ugc_handle_free_stack, ugc_handle_types>>
  PROVE  LostSlots' = LostSlots
BY DEF LostSlots, Destroyed, OnStack, counts

(* A create that fails loses nothing; one that takes a slot loses that one *)
(* at most, only by a negative tag, and then for certain if there were no  *)
(* aliases on the stack.                                                   *)
LEMMA LostCreate ==
  ASSUME TagInv, NEW o, NEW t \in Int, NEW x, NEW s, CreateSlot(o, t, x, s)
  PROVE  /\ ugc_handle_types' \in [Idx -> Int]
         /\ \/ ret' = NULL /\ LostSlots' = LostSlots
            \/ /\ ret' # NULL
               /\ \E i \in Idx :
                    /\ LostSlots' \subseteq LostSlots \union {i}
                    /\ t >= 0 => LostSlots' \subseteq LostSlots
                    /\ AliasInv =>
                         /\ i \notin LostSlots
                         /\ LostSlots' = IF t < 0 THEN LostSlots \union {i}
                                                  ELSE LostSlots
<1> DEFINE n == ugc_handle_free_count
           stack == ugc_handle_free_stack
<1>1. PICK idx \in Idx \union {-1} : /\ ugc_handle_slot_acquire(idx)
                                     /\ FillSlot(idx, o, t, x, s)
  BY DEF CreateSlot
<1>2. UNCHANGED ugc_handle_free_stack
  BY DEF CreateSlot
<1>3. idx \in Int /\ ugc_handle_types' \in [Idx -> Int]
  BY <1>1, CapacityAssumption DEF FillSlot, TagInv, arrays, Idx
<1>4. CASE idx < 0
  <2>1. UNCHANGED counts
    BY <1>1, <1>4, CapacityAssumption
       DEF ugc_handle_slot_acquire, TagInv, RangeInv, Idx
  <2>2. UNCHANGED ugc_handle_types /\ ret' = NULL
    BY <1>1, <1>3, <1>4 DEF FillSlot, arrays
  <2> QED  BY <1>2, <1>3, <2>1, <2>2, LostSame
<1>5. CASE idx >= 0
  <2>0. idx \in Idx /\ idx \in Nat
    BY <1>1, <1>5, CapacityAssumption DEF Idx
  <2>1. /\ ret' = Slot(idx)
        /\ ugc_handle_types' = [ugc_handle_types EXCEPT ![idx] = t]
    BY <1>1, <1>3, <1>5 DEF FillSlot
  <2>2. ret' # NULL
    BY <2>0, <2>1, SlotNotNull
  <2>3. /\ ugc_handle_types'[idx] = t
        /\ \A j \in Idx : j # idx => ugc_handle_types'[j] = ugc_handle_types[j]
    BY <2>0, <2>1 DEF TagInv
  <2>4. /\ \/ n > 0 /\ idx = stack[n - 1] /\ n' = n - 1
              /\ UNCHANGED ugc_handle_count
           \/ n = 0 /\ n' = 0 /\ idx = ugc_handle_count
              /\ ugc_handle_count' = ugc_handle_count + 1
        /\ n \in Nat /\ ugc_handle_count \in Nat
    BY <1>1, <1>5 DEF ugc_handle_slot_acquire, TagInv, RangeInv
  <2>5. \A j \in Idx : j # idx => (OnStack(j)' <=> OnStack(j))
    BY <1>2, <2>4 DEF OnStack
  <2>6. \A j \in Idx : j # idx => (j \in Destroyed' <=> j \in Destroyed)
    BY <2>3, <2>4 DEF Destroyed, Idx
  <2>7. LostSlots \subseteq Idx /\ LostSlots' \subseteq Idx
    <3>0. RangeInv
      BY DEF TagInv
    <3>1. RangeInv'
      BY <3>0, CreatedRange
    <3>2. LostSlots' \subseteq 0 .. ugc_handle_count' - 1
      BY DEF LostSlots, Destroyed
    <3>3. 0 .. ugc_handle_count' - 1 \subseteq Idx
      BY <3>1, PrefixInArray DEF RangeInv
    <3>4. LostSlots \subseteq Idx
      BY <3>0, TakenInArray DEF LostSlots
    <3> QED  BY <3>2, <3>3, <3>4
  <2>8. \A j \in Idx : j # idx => (j \in LostSlots' <=> j \in LostSlots)
    BY <2>5, <2>6 DEF LostSlots
  <2>9. t >= 0 => idx \notin LostSlots'
    BY <2>3 DEF LostSlots, Destroyed
  <2>10. ASSUME AliasInv
         PROVE  idx \notin LostSlots /\ (t < 0 => idx \in LostSlots')
    <3>1. idx \notin LostSlots
      BY <2>4 DEF LostSlots, Destroyed, OnStack
    <3>2. ~OnStack(idx)'
      BY <1>2, <2>4, <2>10 DEF OnStack, AliasInv, FreeStackNoDuplicate
    <3>3. idx \in 0 .. ugc_handle_count' - 1
      BY <2>0, <2>4, <2>10 DEF AliasInv, FreeStackSound
    <3> QED  BY <2>3, <3>1, <3>2, <3>3 DEF LostSlots, Destroyed
  <2>11. LostSlots' \subseteq LostSlots \union {idx}
    BY <2>7, <2>8
  <2>12. t >= 0 => LostSlots' \subseteq LostSlots
    BY <2>7, <2>8, <2>9
  <2>13. AliasInv => /\ idx \notin LostSlots
                     /\ LostSlots' = IF t < 0 THEN LostSlots \union {idx}
                                              ELSE LostSlots
    BY <2>7, <2>8, <2>9, <2>10
  <2> QED  BY <1>3, <2>0, <2>2, <2>11, <2>12, <2>13
<1> QED  BY <1>3, <1>4, <1>5

(* A destroy, whatever slot of the array it names, loses nothing: a slot   *)
(* that it tags it also pushes.                                            *)
LEMMA LostDestroy ==
  ASSUME TagInv, NEW i \in Idx, ugc_handle_destroy_at(i)
  PROVE  ugc_handle_types' \in [Idx -> Int] /\ LostSlots' = LostSlots
<1>1. CASE UNCHANGED <<arrays, counts, ugc_handle_free_stack>>
  BY <1>1, LostSame DEF arrays, TagInv
<1>2. CASE /\ ugc_handle_types[i] >= 0
           /\ ugc_handle_free_count # UGC_HANDLE_COUNT
           /\ FreeSlot(i)
  <2> DEFINE n == ugc_handle_free_count
  <2>1. /\ n' = n + 1 /\ UNCHANGED ugc_handle_count
        /\ ugc_handle_free_stack' = [ugc_handle_free_stack EXCEPT ![n] = i]
        /\ ugc_handle_types' =
             [ugc_handle_types EXCEPT ![i] = UGC_HANDLE_TYPE_FREE]
        /\ UGC_HANDLE_TYPE_FREE \in Int
    BY <1>2 DEF FreeSlot, UGC_HANDLE_TYPE_FREE
  <2>2. n \in Nat /\ \A k \in 0 .. n : k \in Idx
    BY <1>2, CapacityAssumption DEF TagInv, RangeInv, Idx
  <2>3. /\ ugc_handle_free_stack'[n] = i
        /\ \A k \in 0 .. n - 1 :
             ugc_handle_free_stack'[k] = ugc_handle_free_stack[k]
    BY <2>1, <2>2 DEF TagInv, RangeInv
  <2>4. OnStack(i)'
    BY <2>1, <2>2, <2>3 DEF OnStack
  <2>5. \A j \in Idx : j # i => (OnStack(j)' <=> OnStack(j))
    BY <2>1, <2>2, <2>3 DEF OnStack
  <2>6. ugc_handle_types' \in [Idx -> Int]
    BY <2>1 DEF TagInv
  <2>7. \A j \in Idx : j # i => (j \in Destroyed' <=> j \in Destroyed)
    BY <2>1 DEF Destroyed, TagInv
  <2>8. i \notin Destroyed
    <3>1. ugc_handle_types[i] \in Int
      BY DEF TagInv
    <3> QED  BY <1>2, <3>1 DEF Destroyed
  <2>9. LostSlots \subseteq Idx /\ LostSlots' \subseteq Idx
    BY <2>1, TakenInArray DEF TagInv, LostSlots, Destroyed
  <2> QED  BY <2>4, <2>5, <2>6, <2>7, <2>8, <2>9 DEF LostSlots
<1> QED  BY <1>1, <1>2 DEF ugc_handle_destroy_at

(* A new type over any tag loses nothing; over that of a live slot it      *)
(* finds nothing either.                                                   *)
LEMMA LostRetype ==
  ASSUME TagInv, NEW i \in Idx, NEW t \in Types, Untouched,
         ugc_handle_types' = [ugc_handle_types EXCEPT ![i] = t]
  PROVE  /\ ugc_handle_types' \in [Idx -> Int]
         /\ LostSlots' \subseteq LostSlots
         /\ i \in Live => LostSlots' = LostSlots
<1>1. t \in Int /\ t >= 0
  BY TypesAssumption
<1>2. /\ ugc_handle_types'[i] = t
      /\ \A j \in Idx : j # i => ugc_handle_types'[j] = ugc_handle_types[j]
  BY DEF TagInv
<1>3. /\ UNCHANGED ugc_handle_count
      /\ \A j \in Idx : OnStack(j)' <=> OnStack(j)
  BY DEF Untouched, counts, OnStack
<1>4. LostSlots \subseteq Idx /\ LostSlots' \subseteq Idx
  BY <1>3, TakenInArray DEF TagInv, LostSlots, Destroyed
<1>5. i \notin Destroyed'
  BY <1>1, <1>2 DEF Destroyed
<1>6. i \in Live => i \notin Destroyed
  <2>1. ugc_handle_types[i] \in Int
    BY DEF TagInv
  <2> QED  BY <2>1 DEF Live, Destroyed
<1>7. \A j \in Idx : j # i => (j \in Destroyed' <=> j \in Destroyed)
  BY <1>2, <1>3 DEF Destroyed
<1> QED
  BY <1>1, <1>3, <1>4, <1>5, <1>6, <1>7 DEF LostSlots, TagInv

(* The calls that lose no slot, misuses among them, and find none unless   *)
(* they are wild.                                                          *)
LEMMA NothingLost ==
  ASSUME TagInv,
         \/ LegalStep \/ RetypeIdle \/ DestroyForeign \/ TouchIdle
         \/ UNCHANGED misuseVars
  PROVE  /\ ugc_handle_types' \in [Idx -> Int]
         /\ UNCHANGED stale
         /\ LostSlots' \subseteq LostSlots
         /\ ~wild' /\ AliasInv => LostSlots' = LostSlots
<1> DEFINE Goal == /\ ugc_handle_types' \in [Idx -> Int]
                   /\ LostSlots' \subseteq LostSlots
                   /\ ~wild' /\ AliasInv => LostSlots' = LostSlots
<1>0. RangeInv /\ ugc_handle_types \in [Idx -> Int]
  BY DEF TagInv
<1>1. UNCHANGED stale
  BY DEF LegalStep, RetypeIdle, DestroyForeign, TouchIdle, misuseVars
<1>2. CASE UNCHANGED <<counts, ugc_handle_free_stack, ugc_handle_types>>
  BY <1>0, <1>1, <1>2, LostSame
<1>3. Return(NULL) =>
        UNCHANGED <<counts, ugc_handle_free_stack, ugc_handle_types>>
  BY DEF Return, arrays
<1>4. CASE CreateStep
  <2>1. ASSUME NEW o, NEW t \in Int, t >= 0, NEW x, NEW s,
               CreateSlot(o, t, x, s)
        PROVE  Goal
    BY <2>1, LostCreate
  <2>2. \A t \in Types : t \in Int /\ t >= 0
    BY TypesAssumption
  <2>3. \A i \in Live : ugc_handle_types[i] \in Int /\ ugc_handle_types[i] >= 0
    BY <1>0, TakenInArray DEF Live
  <2> QED  BY <1>0, <1>1, <1>2, <1>3, <1>4, <2>1, <2>2, <2>3, CreateSteps
<1>5. CASE DestroyStep \/ DestroyForeign
  BY <1>0, <1>1, <1>2, <1>3, <1>5, DestroyStepTaken, DestroyForeignIndex,
     TakenInArray, LostDestroy
<1>6. CASE AccessStep \/ TouchIdle
  <2>1. Untouched
    BY <1>6, AccessUntouched
  <2>2. CASE UNCHANGED ugc_handle_types
    BY <1>2, <2>1, <2>2 DEF Untouched
  <2>3. ASSUME NEW h \in LiveHandles, NEW t \in Types,
               ugc_handle_types' =
                 [ugc_handle_types EXCEPT ![ugc_handle_index(h)] = t]
        PROVE  Goal
    <3>1. PICK i \in Live : h = Slot(i)
      BY DEF LiveHandles
    <3>2. i \in Idx /\ ugc_handle_index(h) = i
      BY <1>0, <3>1, IndexOfSlot, TakenInArray DEF Live, RangeInv
    <3> QED  BY <2>1, <2>3, <3>2, LostRetype
  <2> QED  BY <1>1, <1>6, <2>2, <2>3, AccessTags
<1>7. CASE RetypeIdle
  <2>1. PICK i \in Idx \ Live, t \in Types, x \in ExtraPtrs :
          SetExtraInfoForHandle(Slot(i), t, x)
    BY <1>7 DEF RetypeIdle
  <2>2. ugc_handle_index(Slot(i)) = i
    BY IndexOfSlot, CapacityAssumption DEF Idx
  <2>3. ugc_handle_types' = [ugc_handle_types EXCEPT ![i] = t]
    BY <2>1, <2>2 DEF SetExtraInfoForHandle, ugc_handle_set_type_at
  <2>4. Untouched
    BY <1>7, AccessUntouched
  <2>5. wild'
    BY <1>7 DEF RetypeIdle
  <2> QED  BY <1>1, <2>3, <2>4, <2>5, LostRetype
<1>8. CASE UNCHANGED misuseVars
  BY <1>2, <1>8 DEF misuseVars, vars, coreVars, counts
<1> QED  BY <1>4, <1>5, <1>6, <1>7, <1>8 DEF LegalStep

(* The duplicate of a destroyed handle, if it gets a slot, loses it. *)
LEMMA StaleLoses ==
  ASSUME TagInv, DuplicateDestroyed
  PROVE  /\ ugc_handle_types' \in [Idx -> Int]
         /\ \/ UNCHANGED stale /\ LostSlots' = LostSlots
            \/ /\ stale' = stale + 1
               /\ \E i \in Idx :
                    /\ LostSlots' \subseteq LostSlots \union {i}
                    /\ AliasInv => /\ i \notin LostSlots
                                   /\ LostSlots' = LostSlots \union {i}
<1>1. PICK d \in Destroyed :
        CreateSlot(ugc_handles[d], ugc_handle_types[d], NULL, NULL)
  BY StaleCreate DEF TagInv
<1>2. ugc_handle_types[d] \in Int /\ ugc_handle_types[d] < 0
  BY TakenInArray DEF TagInv, Destroyed
<1>3. stale' = IF ret' = NULL THEN stale ELSE stale + 1
  BY DEF DuplicateDestroyed
<1> QED  BY <1>1, <1>2, <1>3, LostCreate

(* Every step keeps the books of the lost slots. *)
LEMMA NextLost == LostInv /\ [MisuseNext]_misuseVars => LostInv'
<1> SUFFICES ASSUME LostInv, [MisuseNext]_misuseVars PROVE LostInv'
  OBVIOUS
<1>0. /\ TagInv /\ RangeInv /\ stale \in Nat /\ wild \in BOOLEAN
      /\ Cardinality(LostSlots) <= stale
      /\ ~wild => AliasInv /\ Cardinality(LostSlots) = stale
      /\ Cardinality(LostSlots) \in Nat
  BY LostFinite DEF LostInv, TagInv, LostBounded, LostExact
<1>1. RangeInv' /\ wild' \in BOOLEAN /\ (wild => wild')
  BY <1>0, NextRange, WildStays
<1>2. ~wild' => AliasInv'
  BY <1>0, <1>1, NextAlias
<1>3. CASE \/ LegalStep \/ RetypeIdle \/ DestroyForeign \/ TouchIdle
           \/ UNCHANGED misuseVars
  <2>1. /\ ugc_handle_types' \in [Idx -> Int]
        /\ UNCHANGED stale
        /\ LostSlots' \subseteq LostSlots
        /\ ~wild' => LostSlots' = LostSlots
    BY <1>0, <1>1, <1>3, NothingLost
  <2>2. Cardinality(LostSlots') <= Cardinality(LostSlots)
    BY <1>0, <2>1, LostFinite, FS_Subset
  <2>3. Cardinality(LostSlots') \in Nat
    BY <1>0, <2>1, LostFinite, FS_Subset, FS_CardinalityType
  <2>4. Cardinality(LostSlots') <= stale'
    BY <1>0, <2>1, <2>2, <2>3
  <2>5. ~wild' => Cardinality(LostSlots') = stale'
    BY <1>0, <1>1, <2>1
  <2> QED
    BY <1>0, <1>1, <1>2, <2>1, <2>4, <2>5
       DEF LostInv, TagInv, LostBounded, LostExact
<1>4. CASE DuplicateDestroyed
  <2>1. ugc_handle_types' \in [Idx -> Int] /\ wild' = wild
    BY <1>0, <1>4, StaleLoses DEF DuplicateDestroyed
  <2>2. CASE UNCHANGED stale /\ LostSlots' = LostSlots
    BY <1>0, <1>1, <1>2, <2>1, <2>2
       DEF LostInv, TagInv, LostBounded, LostExact
  <2>3. ASSUME stale' = stale + 1, NEW i \in Idx,
               LostSlots' \subseteq LostSlots \union {i},
               AliasInv => /\ i \notin LostSlots
                           /\ LostSlots' = LostSlots \union {i}
        PROVE  LostInv'
    <3>1. /\ Cardinality(LostSlots') \in Nat
          /\ Cardinality(LostSlots') <= Cardinality(LostSlots) + 1
          /\ AliasInv => Cardinality(LostSlots') = Cardinality(LostSlots) + 1
      BY <1>0, <2>3, LostCount
    <3>2. stale' \in Nat /\ Cardinality(LostSlots') <= stale'
      BY <1>0, <2>3, <3>1
    <3>3. ~wild' => Cardinality(LostSlots') = stale'
      BY <1>0, <2>1, <2>3, <3>1
    <3> QED
      BY <1>1, <1>2, <2>1, <3>2, <3>3
         DEF LostInv, TagInv, LostBounded, LostExact
  <2> QED  BY <1>0, <1>4, <2>2, <2>3, StaleLoses
<1> QED  BY <1>3, <1>4 DEF MisuseNext

(* No slot is lost when the store is new. *)
LEMMA InitLost == MisuseInit => LostInv
<1> SUFFICES ASSUME MisuseInit PROVE LostInv
  OBVIOUS
<1>1. RangeInv /\ AliasInv
  BY InitInvs
<1>2. LostSlots = {}
  <2>1. ugc_handle_count = 0
    BY DEF MisuseInit, Init, CoreInit
  <2>2. 0 .. ugc_handle_count - 1 = {}
    BY <2>1
  <2> QED  BY <2>2 DEF LostSlots, Destroyed
<1>3. Cardinality(LostSlots) = 0 /\ stale = 0 /\ wild = FALSE
  BY <1>2, FS_EmptySet DEF MisuseInit
<1>4. LostBounded /\ stale \in Nat
  BY <1>3 DEF LostBounded
<1>5. LostExact /\ wild \in BOOLEAN
  BY <1>3 DEF LostExact
<1> QED  BY <1>1, <1>4, <1>5 DEF LostInv, TagInv, AliasInv

(* For every capacity and whatever mistakes are mixed, the store never     *)
(* loses more slots than there were duplicates of destroyed handles.       *)
THEOREM MisuseLostBounded == MisuseSpec => []LostBounded
<1>1. LostInv => LostBounded
  BY DEF LostInv
<1> QED  BY <1>1, InitLost, NextLost, PTL DEF MisuseSpec

(* For every capacity, as long as nothing wild is done, it has lost one    *)
(* for each of them, and nothing the runtime does gives one back.          *)
THEOREM MisuseLostExact == MisuseSpec => []LostExact
<1>1. LostInv => LostExact
  BY DEF LostInv
<1> QED  BY <1>1, InitLost, NextLost, PTL DEF MisuseSpec

=============================================================================
