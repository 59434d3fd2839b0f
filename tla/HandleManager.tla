--------------------------- MODULE HandleManager ----------------------------
(***************************************************************************)
(* The handle manager and the handle store as the runtime sees them:       *)
(* ugc/uGCHandleManager.cpp and ugc/uGCHandleStore.cpp over HandleCore.    *)
(* Each public method is one action, with the runtime choosing the         *)
(* arguments:                                                              *)
(*   - handles are dereferenced only while they are live;                  *)
(*   - a destroy may name a live handle, a handle that is destroyed        *)
(*     already (the double destroy the code defends against), NULL (the    *)
(*     result of a failed create) or a pointer outside the store.          *)
(* The target has one hart and the store has no locks: a method runs to    *)
(* its end before the next one starts.                                     *)
(***************************************************************************)
EXTENDS HandleCore

CONSTANTS
  Objects,            \* non-null object pointers
  Types,              \* the HandleTypes the runtime uses
  Extras,             \* non-null extra-info pointers
  HNDTYPE_DEPENDENT   \* the HandleType of dependent handles

ASSUME ObjectsAssumption == Objects \subseteq Nat \ {0}
ASSUME ExtrasAssumption == Extras \subseteq Nat \ {0}
ASSUME TypesAssumption == /\ Types \subseteq Nat
                          /\ HNDTYPE_DEPENDENT \in Types

VARIABLE
  peak    \* history: the most handles that were ever live at once

vars == <<coreVars, peak>>

ObjectPtrs == Objects \union {NULL}
ExtraPtrs == Extras \union {NULL}

(* The slots whose handle is live, by the tag the code keeps in the type.  *)
Live == {i \in 0 .. ugc_handle_count - 1 : ugc_handle_types[i] >= 0}
LiveHandles == {Slot(i) : i \in Live}
IssuedHandles == {Slot(i) : i \in 0 .. ugc_handle_count - 1}

(* NULL, and the address one past the end of the array. *)
OutsidePointers == {NULL, HandlesBase + UGC_HANDLE_COUNT * PtrSize}

Init == CoreInit /\ peak = 0

-----------------------------------------------------------------------------
(* Creating and destroying handles. *)

(* Both overloads, and CreateGlobalHandleOfType, which forwards to it. *)
CreateHandleOfType(object, type) == ugc_handle_create(object, type)

CreateHandleWithExtraInfo(object, type, pExtraInfo) ==
  ugc_handle_create_with_extra(object, type, pExtraInfo)

CreateDependentHandle(primary, secondary) ==
  ugc_handle_create_dependent(primary, secondary, HNDTYPE_DEPENDENT)

\* Mutant: the handle itself is stored, not the object it refers to.
Duplicate_NoDereference(handle) ==
  \/ handle = NULL /\ Return(NULL)
  \/ /\ handle # NULL
     /\ ugc_handle_create(handle,
                          ugc_handle_get_type_at(ugc_handle_index(handle)))

(* The duplicate gets the object and the type, not the extra info and not  *)
(* the secondary.                                                          *)
CreateDuplicateHandle(handle) ==
  \/ handle = NULL /\ Return(NULL)
  \/ /\ handle # NULL
     /\ ugc_handle_create(ugc_handles[ugc_handle_index(handle)],
                          ugc_handle_get_type_at(ugc_handle_index(handle)))

(* DestroyHandleOfType and DestroyHandleOfUnknownType: uDestroyHandle. *)
DestroyHandle(hndl) ==
  \/ ~ugc_handle_store_contains(hndl) /\ Return(NULL)
  \/ /\ ugc_handle_store_contains(hndl)
     /\ ugc_handle_destroy_at(ugc_handle_index(hndl))

-----------------------------------------------------------------------------
(* Access to a handle. *)

SetExtraInfoForHandle(handle, type, pExtraInfo) ==
  /\ ugc_handle_set_type_at(ugc_handle_index(handle), type)
  /\ ugc_handle_set_extra_at(ugc_handle_index(handle), pExtraInfo)
  /\ ret' = NULL
  /\ UNCHANGED <<counts, ugc_handles, ugc_handle_dependent,
                 ugc_handle_free_stack>>

GetExtraInfoFromHandle(handle) ==
  Return(ugc_handle_get_extra_at(ugc_handle_index(handle)))

StoreObjectInHandle(handle, object) == ugc_handle_slot_store(handle, object)

StoreObjectInHandleIfNull(handle, object) ==
  ugc_handle_slot_store_if_null(handle, object)

SetDependentHandleSecondary(handle, object) ==
  ugc_handle_set_dependent_at(ugc_handle_index(handle), object)

GetDependentHandleSecondary(handle) ==
  Return(ugc_handle_dependent_slot_at(ugc_handle_index(handle)))

InterlockedCompareExchangeObjectInHandle(handle, object, oldObject) ==
  ugc_handle_slot_cas(handle, object, oldObject)

HandleFetchType(handle) ==
  Return(ugc_handle_get_type_at(ugc_handle_index(handle)))

ContainsHandle(hndl) ==
  Return(IF ugc_handle_store_contains(hndl) THEN 1 ELSE 0)

-----------------------------------------------------------------------------
CreateStep ==
  \/ \E o \in ObjectPtrs, t \in Types : CreateHandleOfType(o, t)
  \/ \E o \in ObjectPtrs, t \in Types, x \in ExtraPtrs :
       CreateHandleWithExtraInfo(o, t, x)
  \/ \E o, s \in ObjectPtrs : CreateDependentHandle(o, s)
  \/ \E h \in LiveHandles \union {NULL} : CreateDuplicateHandle(h)

DestroyStep == \E h \in IssuedHandles \union OutsidePointers : DestroyHandle(h)

AccessStep ==
  \/ \E h \in LiveHandles :
       \/ \E t \in Types, x \in ExtraPtrs : SetExtraInfoForHandle(h, t, x)
       \/ GetExtraInfoFromHandle(h)
       \/ \E o \in ObjectPtrs :
            \/ StoreObjectInHandle(h, o)
            \/ StoreObjectInHandleIfNull(h, o)
            \/ SetDependentHandleSecondary(h, o)
            \/ \E c \in ObjectPtrs :
                 InterlockedCompareExchangeObjectInHandle(h, o, c)
       \/ GetDependentHandleSecondary(h)
       \/ HandleFetchType(h)
  \/ \E h \in IssuedHandles \union OutsidePointers : ContainsHandle(h)

LargerOf(a, b) == IF a >= b THEN a ELSE b

Next ==
  /\ CreateStep \/ DestroyStep \/ AccessStep
  /\ peak' = LargerOf(peak, Cardinality(Live'))

Spec == Init /\ [][Next]_vars

-----------------------------------------------------------------------------
(* Properties. *)

(* The values each variable can take: the counters in range, object, extra *)
(* and secondary slots holding pointers the runtime passed in or NULL, the *)
(* types holding HandleTypes or the free mark, the stack holding indices.  *)
TypeOK ==
  /\ ugc_handle_count \in 0 .. UGC_HANDLE_COUNT
  /\ ugc_handle_free_count \in 0 .. UGC_HANDLE_COUNT
  /\ ugc_handles \in [Idx -> ObjectPtrs]
  /\ ugc_handle_types \in [Idx -> Types \union {0, UGC_HANDLE_TYPE_FREE}]
  /\ ugc_handle_extra \in [Idx -> ExtraPtrs]
  /\ ugc_handle_dependent \in [Idx -> ObjectPtrs]
  /\ ugc_handle_free_stack \in [Idx -> Idx]
  /\ ret \in Int
  /\ peak \in 0 .. UGC_HANDLE_COUNT

(* A negative type unambiguously tags a slot that sits on the free stack   *)
(* (ugc_core.h, UGC_HANDLE_TYPE_FREE): the stack holds exactly the         *)
(* destroyed slots, and none of them twice, so two creates never hand out  *)
(* the same handle.                                                        *)
FreeStackSound ==
  \A k \in 0 .. ugc_handle_free_count - 1 :
    /\ ugc_handle_free_stack[k] < ugc_handle_count
    /\ ugc_handle_types[ugc_handle_free_stack[k]] < 0

FreeStackNoDuplicate ==
  \A j, k \in 0 .. ugc_handle_free_count - 1 :
    ugc_handle_free_stack[j] = ugc_handle_free_stack[k] => j = k

FreeStackComplete ==
  \A i \in 0 .. ugc_handle_count - 1 :
    ugc_handle_types[i] < 0 =>
      \E k \in 0 .. ugc_handle_free_count - 1 : ugc_handle_free_stack[k] = i

FreeStackExact ==
  FreeStackSound /\ FreeStackNoDuplicate /\ FreeStackComplete

(* A slot that is not live keeps nothing of the handles that used it: the  *)
(* object, extra info and secondary are scrubbed by the destroy, and no    *)
(* access through another handle ever writes into a slot at rest.          *)
IdleSlotsScrubbed ==
  \A i \in Idx \ Live :
    /\ ugc_handles[i] = NULL
    /\ ugc_handle_extra[i] = NULL
    /\ ugc_handle_dependent[i] = NULL

(* The live-handle high-water mark, not the number of handles ever         *)
(* created, bounds the memory the store touches: the array has grown to    *)
(* exactly the largest number of handles that were ever live at once.      *)
HighWaterMark == ugc_handle_count = peak

=============================================================================
