--------------------------- MODULE HandleContract ---------------------------
(***************************************************************************)
(* HandleCore under the weakest client the contracts of ugc/core/ugc_core.h*)
(* admit: any call whose arguments meet the function's "requires" clauses. *)
(* The runtime (HandleManager) keeps to its live handles; here a destroyed *)
(* slot, or one never taken, may be accessed and retyped, which the        *)
(* contracts of the accessors allow (0 <= idx < UGC_HANDLE_COUNT), and the *)
(* store may be reset at any time, as the unit tests do.                   *)
(***************************************************************************)
EXTENDS HandleCore

CONSTANTS
  Pointers,   \* non-null objects, extra infos and secondaries
  Types       \* the HandleTypes passed in; all of them non-negative

ASSUME PointersAssumption == Pointers \subseteq Nat \ {0}
ASSUME LiveTypesAssumption == Types \subseteq Nat

PointerArgs == Pointers \union {NULL}

Init == CoreInit

(* requires type_live: 0 <= type *)
CreateCall ==
  \E p, q \in PointerArgs, t \in Types :
    \/ ugc_handle_create(p, t)
    \/ ugc_handle_create_with_extra(p, t, q)
    \/ ugc_handle_create_dependent(p, q, t)

(* requires valid_index: 0 <= idx < ugc_handle_count *)
DestroyCall == \E i \in 0 .. ugc_handle_count - 1 : ugc_handle_destroy_at(i)

(* requires valid_index: 0 <= idx < UGC_HANDLE_COUNT *)
SetTypeCall(idx, type) ==
  /\ ugc_handle_set_type_at(idx, type)
  /\ ret' = NULL
  /\ UNCHANGED <<counts, ugc_handles, ugc_handle_extra, ugc_handle_dependent,
                 ugc_handle_free_stack>>

SetExtraCall(idx, extra) ==
  /\ ugc_handle_set_extra_at(idx, extra)
  /\ ret' = NULL
  /\ UNCHANGED <<counts, ugc_handles, ugc_handle_types, ugc_handle_dependent,
                 ugc_handle_free_stack>>

AccessorCall ==
  \E i \in Idx :
    \/ \E t \in Types \union {UGC_HANDLE_TYPE_FREE} : SetTypeCall(i, t)
    \/ \E p \in PointerArgs : SetExtraCall(i, p)
    \/ \E p \in PointerArgs : ugc_handle_set_dependent_at(i, p)
    \/ Return(ugc_handle_get_type_at(i))
    \/ Return(ugc_handle_get_extra_at(i))
    \/ Return(ugc_handle_dependent_slot_at(i))

(* requires \valid(slot) *)
SlotCall ==
  \E i \in Idx, p \in PointerArgs :
    \/ ugc_handle_slot_store(Slot(i), p)
    \/ ugc_handle_slot_store_if_null(Slot(i), p)
    \/ \E c \in PointerArgs : ugc_handle_slot_cas(Slot(i), p, c)

Next ==
  \/ CreateCall
  \/ DestroyCall
  \/ AccessorCall
  \/ SlotCall
  \/ ugc_handle_store_reset

Spec == Init /\ [][Next]_coreVars

-----------------------------------------------------------------------------
(* Properties. *)

(* The predicate that every contract of the store requires and ensures:    *)
(* whatever slots a client retypes and destroys again, the counters stay   *)
(* in range and every index on the free stack is one that was taken, so no *)
(* create or destroy touches memory outside the arrays.  It rests on the   *)
(* full-stack test of ugc_handle_destroy_at.                               *)
StoreConsistent == ugc_store_consistent

(* The contract of ugc_handle_destroy_at says that a double destroy must   *)
(* not push the same index twice, or two later creates would hand out      *)
(* aliasing handles: no index is on the free stack twice.                  *)
NoIndexPushedTwice ==
  \A j, k \in 0 .. ugc_handle_free_count - 1 :
    ugc_handle_free_stack[j] = ugc_handle_free_stack[k] => j = k

=============================================================================
