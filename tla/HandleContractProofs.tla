------------------------ MODULE HandleContractProofs ------------------------
(***************************************************************************)
(* The predicate ugc_store_consistent holds for every capacity and every   *)
(* client that keeps to the contracts of ugc/core/ugc_core.h.              *)
(***************************************************************************)
EXTENDS HandleContract, TLAPS

(* The free stack as an array: what makes StoreConsistent inductive is     *)
(* that a push below the capacity is a write inside the array.             *)
IInv == ugc_handle_free_stack \in [Idx -> Int] /\ StoreConsistent

(* The zeroed arrays are consistent. *)
LEMMA InitIInv == Init => IInv
BY CapacityAssumption
   DEF Init, CoreInit, IInv, StoreConsistent, ugc_store_consistent, Idx

(* A call that moves neither a counter nor the stack. *)
LEMMA KeepIInv ==
  ASSUME IInv, UNCHANGED <<counts, ugc_handle_free_stack>>
  PROVE  IInv'
BY DEF IInv, StoreConsistent, ugc_store_consistent, counts

(* A create pops an index that was taken, grows by one, or fails. *)
LEMMA CreateIInv ==
  ASSUME IInv, NEW o, NEW t, NEW x, NEW s, CreateSlot(o, t, x, s)
  PROVE  IInv'
<1>1. PICK idx \in Idx \union {-1} : ugc_handle_slot_acquire(idx)
  BY DEF CreateSlot
<1>2. UNCHANGED ugc_handle_free_stack
  BY DEF CreateSlot
<1>3. CASE /\ ugc_handle_free_count > 0
           /\ ugc_handle_free_count' = ugc_handle_free_count - 1
           /\ UNCHANGED ugc_handle_count
  BY <1>2, <1>3, CapacityAssumption
     DEF IInv, StoreConsistent, ugc_store_consistent
<1>4. CASE /\ ugc_handle_free_count = 0
           /\ ugc_handle_count < UGC_HANDLE_COUNT
           /\ ugc_handle_count' = ugc_handle_count + 1
           /\ UNCHANGED ugc_handle_free_count
  BY <1>2, <1>4, CapacityAssumption
     DEF IInv, StoreConsistent, ugc_store_consistent
<1>5. CASE UNCHANGED counts
  BY <1>2, <1>5, KeepIInv
<1> QED  BY <1>1, <1>3, <1>4, <1>5 DEF ugc_handle_slot_acquire

(* A destroy pushes within the array, for the full-stack test. *)
LEMMA DestroyIInv ==
  ASSUME IInv, NEW i \in 0 .. ugc_handle_count - 1, ugc_handle_destroy_at(i)
  PROVE  IInv'
<1>1. CASE UNCHANGED <<arrays, counts, ugc_handle_free_stack>>
  BY <1>1, KeepIInv
<1>2. CASE ugc_handle_free_count # UGC_HANDLE_COUNT /\ FreeSlot(i)
  <2>1. /\ ugc_handle_free_count \in Idx
        /\ ugc_handle_free_count' = ugc_handle_free_count + 1
        /\ ugc_handle_free_count' \in 0 .. UGC_HANDLE_COUNT
        /\ UNCHANGED ugc_handle_count
        /\ \A k \in 0 .. ugc_handle_free_count' - 1 :
             /\ k \in Idx
             /\ k = ugc_handle_free_count
                  \/ k \in 0 .. ugc_handle_free_count - 1
    BY <1>2, CapacityAssumption
       DEF FreeSlot, IInv, StoreConsistent, ugc_store_consistent, Idx
  <2>2. ugc_handle_free_stack' =
          [ugc_handle_free_stack EXCEPT ![ugc_handle_free_count] = i]
    BY <1>2 DEF FreeSlot
  <2>3. ugc_handle_free_stack' \in [Idx -> Int]
    BY <2>1, <2>2 DEF IInv
  <2>4. \A k \in 0 .. ugc_handle_free_count' - 1 :
          ugc_handle_free_stack'[k] \in 0 .. ugc_handle_count - 1
    BY <2>1, <2>2 DEF IInv, StoreConsistent, ugc_store_consistent
  <2> QED
    BY <2>1, <2>3, <2>4 DEF IInv, StoreConsistent, ugc_store_consistent
<1> QED  BY <1>1, <1>2 DEF ugc_handle_destroy_at

(* A reset is consistent whatever came before. *)
LEMMA ResetIInv == ugc_handle_store_reset => IInv'
BY CapacityAssumption
   DEF ugc_handle_store_reset, IInv, StoreConsistent, ugc_store_consistent,
       Idx

(* Every call the contracts admit keeps the invariant. *)
LEMMA NextIInv == IInv /\ [Next]_coreVars => IInv'
<1> SUFFICES ASSUME IInv, [Next]_coreVars PROVE IInv'
  OBVIOUS
<1>1. CASE CreateCall
  BY <1>1, CreateIInv
     DEF CreateCall, ugc_handle_create, ugc_handle_create_with_extra,
         ugc_handle_create_dependent
<1>2. CASE DestroyCall
  BY <1>2, DestroyIInv DEF DestroyCall
<1>3. CASE AccessorCall
  BY <1>3, KeepIInv
     DEF AccessorCall, SetTypeCall, SetExtraCall, ugc_handle_set_dependent_at,
         Return, counts
<1>4. CASE SlotCall
  BY <1>4, KeepIInv
     DEF SlotCall, ugc_handle_slot_store, ugc_handle_slot_store_if_null,
         ugc_handle_slot_cas, WriteObject, Return, counts
<1>5. CASE ugc_handle_store_reset
  BY <1>5, ResetIInv
<1>6. CASE UNCHANGED coreVars
  BY <1>6, KeepIInv DEF coreVars, counts
<1> QED  BY <1>1, <1>2, <1>3, <1>4, <1>5, <1>6 DEF Next

(* Whatever a contract-abiding client retypes, destroys or resets, no call *)
(* reads or writes outside the arrays of the store.                        *)
THEOREM ContractStoreConsistent == Spec => []StoreConsistent
<1>1. IInv => StoreConsistent
  BY DEF IInv
<1> QED  BY <1>1, InitIInv, NextIInv, PTL DEF Spec

=============================================================================
