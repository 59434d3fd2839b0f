----------------------------- MODULE HandleCore -----------------------------
(***************************************************************************)
(* The handle store of ugc/core/ugc_core.c: a fixed array of object slots, *)
(* three arrays parallel to it (type, extra info, dependent secondary) and *)
(* a LIFO stack of the indices of destroyed slots.                         *)
(*                                                                         *)
(* Each C function is one operator on the primed variables; the variable   *)
(* ret holds what the last call returned (NULL for a void function, 1 and  *)
(* 0 for a bool).  Modules that EXTEND this one say who calls what.        *)
(*                                                                         *)
(* Pointers are natural numbers and NULL is 0.  A handle is the address of *)
(* a slot, so the conversions between handles and indices are the address  *)
(* computations of the code.                                               *)
(***************************************************************************)
EXTENDS Integers, FiniteSets

CONSTANTS
  UGC_HANDLE_COUNT,   \* capacity of the store
  HandlesBase,        \* the address of ugc_handles[0]
  PtrSize             \* sizeof(ugc_handles[0]): 4 on RV32, 8 on RV64

ASSUME CapacityAssumption == UGC_HANDLE_COUNT \in Nat \ {0}

ASSUME LayoutAssumption == /\ HandlesBase \in Nat \ {0}
                           /\ PtrSize \in {4, 8}

VARIABLES
  ugc_handle_count,       \* slots ever taken from the array
  ugc_handle_free_count,  \* height of the free stack
  ugc_handles,            \* the object of each slot
  ugc_handle_types,       \* its HandleType, or UGC_HANDLE_TYPE_FREE
  ugc_handle_extra,       \* its extra info
  ugc_handle_dependent,   \* its dependent secondary
  ugc_handle_free_stack,  \* the free stack, from index 0 upwards
  ret                     \* the result of the last call

arrays == <<ugc_handles, ugc_handle_types, ugc_handle_extra,
            ugc_handle_dependent>>
counts == <<ugc_handle_count, ugc_handle_free_count>>
coreVars == <<ugc_handle_count, ugc_handle_free_count, ugc_handles,
              ugc_handle_types, ugc_handle_extra, ugc_handle_dependent,
              ugc_handle_free_stack, ret>>

NULL == 0
UGC_HANDLE_TYPE_FREE == -1

Idx == 0 .. UGC_HANDLE_COUNT - 1

(* &ugc_handles[i] *)
Slot(i) == HandlesBase + i * PtrSize

ugc_handle_store_contains(hndl) ==
  hndl >= HandlesBase /\ hndl < HandlesBase + UGC_HANDLE_COUNT * PtrSize

(* Defined, as in the code, for pointers into the array only. *)
ugc_handle_index(hndl) == (hndl - HandlesBase) \div PtrSize

-----------------------------------------------------------------------------
(* Static initialisation: everything is zero, the types included. *)
CoreInit ==
  /\ ugc_handle_count = 0
  /\ ugc_handle_free_count = 0
  /\ ugc_handles = [i \in Idx |-> NULL]
  /\ ugc_handle_types = [i \in Idx |-> 0]
  /\ ugc_handle_extra = [i \in Idx |-> NULL]
  /\ ugc_handle_dependent = [i \in Idx |-> NULL]
  /\ ugc_handle_free_stack = [i \in Idx |-> 0]
  /\ ret = NULL

-----------------------------------------------------------------------------
(* Creating handles. *)

\* Mutant: the array grows while it can, recycling comes second.
Acquire_GrowFirst(idx) ==
  \/ /\ ugc_handle_count < UGC_HANDLE_COUNT
     /\ idx = ugc_handle_count
     /\ ugc_handle_count' = ugc_handle_count + 1
     /\ UNCHANGED ugc_handle_free_count
  \/ /\ ugc_handle_count = UGC_HANDLE_COUNT
     /\ ugc_handle_free_count > 0
     /\ idx = ugc_handle_free_stack[ugc_handle_free_count - 1]
     /\ ugc_handle_free_count' = ugc_handle_free_count - 1
     /\ UNCHANGED ugc_handle_count
  \/ /\ ugc_handle_count = UGC_HANDLE_COUNT
     /\ ugc_handle_free_count = 0
     /\ idx = -1
     /\ UNCHANGED counts

\* Mutant: the array only grows; the free stack is never popped.
Acquire_NoRecycle(idx) ==
  \/ /\ ugc_handle_count < UGC_HANDLE_COUNT
     /\ idx = ugc_handle_count
     /\ ugc_handle_count' = ugc_handle_count + 1
     /\ UNCHANGED ugc_handle_free_count
  \/ /\ ugc_handle_count >= UGC_HANDLE_COUNT
     /\ idx = -1
     /\ UNCHANGED counts

(* Take the index of a slot for a new handle: pop the free stack, else     *)
(* grow, else report -1.                                                   *)
ugc_handle_slot_acquire(idx) ==
  \/ /\ ugc_handle_free_count > 0
     /\ idx = ugc_handle_free_stack[ugc_handle_free_count - 1]
     /\ ugc_handle_free_count' = ugc_handle_free_count - 1
     /\ UNCHANGED ugc_handle_count
  \/ /\ ugc_handle_free_count = 0
     /\ ugc_handle_count < UGC_HANDLE_COUNT
     /\ idx = ugc_handle_count
     /\ ugc_handle_count' = ugc_handle_count + 1
     /\ UNCHANGED ugc_handle_free_count
  \/ /\ ugc_handle_free_count = 0
     /\ ugc_handle_count >= UGC_HANDLE_COUNT
     /\ idx = -1
     /\ UNCHANGED counts

\* Mutant: the extra info and the secondary are written to each other's array.
FillSlot_Swapped(idx, object, type, extra, secondary) ==
  \/ /\ idx < 0
     /\ ret' = NULL
     /\ UNCHANGED arrays
  \/ /\ idx >= 0
     /\ ugc_handles' = [ugc_handles EXCEPT ![idx] = object]
     /\ ugc_handle_types' = [ugc_handle_types EXCEPT ![idx] = type]
     /\ ugc_handle_extra' = [ugc_handle_extra EXCEPT ![idx] = secondary]
     /\ ugc_handle_dependent' = [ugc_handle_dependent EXCEPT ![idx] = extra]
     /\ ret' = Slot(idx)

(* What the three create functions do with the acquired index: return NULL *)
(* when there is none, else overwrite all four fields of the slot.         *)
FillSlot(idx, object, type, extra, secondary) ==
  \/ /\ idx < 0
     /\ ret' = NULL
     /\ UNCHANGED arrays
  \/ /\ idx >= 0
     /\ ugc_handles' = [ugc_handles EXCEPT ![idx] = object]
     /\ ugc_handle_types' = [ugc_handle_types EXCEPT ![idx] = type]
     /\ ugc_handle_extra' = [ugc_handle_extra EXCEPT ![idx] = extra]
     /\ ugc_handle_dependent' =
          [ugc_handle_dependent EXCEPT ![idx] = secondary]
     /\ ret' = Slot(idx)

CreateSlot(object, type, extra, secondary) ==
  /\ \E idx \in Idx \union {-1} :
       /\ ugc_handle_slot_acquire(idx)
       /\ FillSlot(idx, object, type, extra, secondary)
  /\ UNCHANGED ugc_handle_free_stack

ugc_handle_create(object, type) == CreateSlot(object, type, NULL, NULL)

ugc_handle_create_with_extra(object, type, extra) ==
  CreateSlot(object, type, extra, NULL)

ugc_handle_create_dependent(primary, secondary, type) ==
  CreateSlot(primary, type, NULL, secondary)

-----------------------------------------------------------------------------
(* Destroying handles. *)

\* Mutant: the index is not pushed.
FreeSlot_NoPush(idx) ==
  /\ ugc_handles' = [ugc_handles EXCEPT ![idx] = NULL]
  /\ ugc_handle_types' =
       [ugc_handle_types EXCEPT ![idx] = UGC_HANDLE_TYPE_FREE]
  /\ ugc_handle_extra' = [ugc_handle_extra EXCEPT ![idx] = NULL]
  /\ ugc_handle_dependent' = [ugc_handle_dependent EXCEPT ![idx] = NULL]
  /\ ret' = NULL
  /\ UNCHANGED <<counts, ugc_handle_free_stack>>

(* Scrub the slot and push its index. *)
FreeSlot(idx) ==
  /\ ugc_handles' = [ugc_handles EXCEPT ![idx] = NULL]
  /\ ugc_handle_types' =
       [ugc_handle_types EXCEPT ![idx] = UGC_HANDLE_TYPE_FREE]
  /\ ugc_handle_extra' = [ugc_handle_extra EXCEPT ![idx] = NULL]
  /\ ugc_handle_dependent' = [ugc_handle_dependent EXCEPT ![idx] = NULL]
  /\ ugc_handle_free_stack' =
       [ugc_handle_free_stack EXCEPT ![ugc_handle_free_count] = idx]
  /\ ugc_handle_free_count' = ugc_handle_free_count + 1
  /\ ret' = NULL
  /\ UNCHANGED ugc_handle_count

\* Mutant: no test for a slot that is destroyed already.
Destroy_NoTypeTest(idx) ==
  \/ /\ ugc_handle_free_count = UGC_HANDLE_COUNT
     /\ ret' = NULL
     /\ UNCHANGED <<arrays, counts, ugc_handle_free_stack>>
  \/ /\ ugc_handle_free_count # UGC_HANDLE_COUNT
     /\ FreeSlot(idx)

\* Mutant: no test for a full free stack.
Destroy_NoFullTest(idx) ==
  \/ /\ ugc_handle_types[idx] < 0
     /\ ret' = NULL
     /\ UNCHANGED <<arrays, counts, ugc_handle_free_stack>>
  \/ /\ ugc_handle_types[idx] >= 0
     /\ FreeSlot(idx)

\* Mutant: the slot keeps its secondary.
Destroy_KeepSecondary(idx) ==
  \/ /\ \/ ugc_handle_types[idx] < 0
        \/ ugc_handle_free_count = UGC_HANDLE_COUNT
     /\ ret' = NULL
     /\ UNCHANGED <<arrays, counts, ugc_handle_free_stack>>
  \/ /\ ugc_handle_types[idx] >= 0
     /\ ugc_handle_free_count # UGC_HANDLE_COUNT
     /\ ugc_handles' = [ugc_handles EXCEPT ![idx] = NULL]
     /\ ugc_handle_types' =
          [ugc_handle_types EXCEPT ![idx] = UGC_HANDLE_TYPE_FREE]
     /\ ugc_handle_extra' = [ugc_handle_extra EXCEPT ![idx] = NULL]
     /\ ugc_handle_free_stack' =
          [ugc_handle_free_stack EXCEPT ![ugc_handle_free_count] = idx]
     /\ ugc_handle_free_count' = ugc_handle_free_count + 1
     /\ ret' = NULL
     /\ UNCHANGED <<ugc_handle_count, ugc_handle_dependent>>

ugc_handle_destroy_at(idx) ==
  \/ /\ \/ ugc_handle_types[idx] < 0
        \/ ugc_handle_free_count = UGC_HANDLE_COUNT
     /\ ret' = NULL
     /\ UNCHANGED <<arrays, counts, ugc_handle_free_stack>>
  \/ /\ ugc_handle_types[idx] >= 0
     /\ ugc_handle_free_count # UGC_HANDLE_COUNT
     /\ FreeSlot(idx)

-----------------------------------------------------------------------------
(* Reading and writing the fields of a slot. *)

\* A call that only returns a value.
Return(value) ==
  /\ ret' = value
  /\ UNCHANGED <<arrays, counts, ugc_handle_free_stack>>

ugc_handle_get_type_at(idx) == ugc_handle_types[idx]
ugc_handle_get_extra_at(idx) == ugc_handle_extra[idx]

(* The pointer that ugc_handle_dependent_slot_at returns is dereferenced   *)
(* by its only caller; this is the value it points to.                     *)
ugc_handle_dependent_slot_at(idx) == ugc_handle_dependent[idx]

ugc_handle_set_dependent_at(idx, secondary) ==
  /\ ugc_handle_dependent' = [ugc_handle_dependent EXCEPT ![idx] = secondary]
  /\ ret' = NULL
  /\ UNCHANGED <<counts, ugc_handles, ugc_handle_types, ugc_handle_extra,
                 ugc_handle_free_stack>>

(* The type and the extra info are set by two functions; the handle        *)
(* manager calls one after the other, so each names only its own array.    *)
ugc_handle_set_type_at(idx, type) ==
  ugc_handle_types' = [ugc_handle_types EXCEPT ![idx] = type]

ugc_handle_set_extra_at(idx, extra) ==
  ugc_handle_extra' = [ugc_handle_extra EXCEPT ![idx] = extra]

-----------------------------------------------------------------------------
(* The operations on the object slot a handle points to. *)

WriteObject(slot, object, result) ==
  /\ ugc_handles' = [ugc_handles EXCEPT ![ugc_handle_index(slot)] = object]
  /\ ret' = result
  /\ UNCHANGED <<counts, ugc_handle_types, ugc_handle_extra,
                 ugc_handle_dependent, ugc_handle_free_stack>>

ugc_handle_slot_store(slot, object) == WriteObject(slot, object, NULL)

ugc_handle_slot_store_if_null(slot, object) ==
  \/ /\ ugc_handles[ugc_handle_index(slot)] = NULL
     /\ WriteObject(slot, object, 1)
  \/ /\ ugc_handles[ugc_handle_index(slot)] # NULL
     /\ Return(0)

(* Returns the value of the slot after the operation. *)
ugc_handle_slot_cas(slot, object, comparand) ==
  \/ /\ ugc_handles[ugc_handle_index(slot)] = comparand
     /\ WriteObject(slot, object, object)
  \/ /\ ugc_handles[ugc_handle_index(slot)] # comparand
     /\ Return(ugc_handles[ugc_handle_index(slot)])

-----------------------------------------------------------------------------
(* Back to the initial state, whatever handles are outstanding. *)
ugc_handle_store_reset ==
  /\ ugc_handles' = [i \in Idx |-> NULL]
  /\ ugc_handle_types' = [i \in Idx |-> 0]
  /\ ugc_handle_extra' = [i \in Idx |-> NULL]
  /\ ugc_handle_dependent' = [i \in Idx |-> NULL]
  /\ ugc_handle_free_stack' = [i \in Idx |-> 0]
  /\ ugc_handle_count' = 0
  /\ ugc_handle_free_count' = 0
  /\ ret' = NULL

-----------------------------------------------------------------------------
(* The predicate ugc_store_consistent of the ACSL contracts: the counters  *)
(* are in range and the free stack holds only slots that were ever taken.  *)
ugc_store_consistent ==
  /\ ugc_handle_count \in 0 .. UGC_HANDLE_COUNT
  /\ ugc_handle_free_count \in 0 .. UGC_HANDLE_COUNT
  /\ \A k \in 0 .. ugc_handle_free_count - 1 :
       ugc_handle_free_stack[k] \in 0 .. ugc_handle_count - 1

=============================================================================
