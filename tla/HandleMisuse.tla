---------------------------- MODULE HandleMisuse ----------------------------
(***************************************************************************)
(* The handle manager under a runtime that uses handles it does not own,   *)
(* beyond the double destroy that HandleManager allows.  The C++ layer     *)
(* does not stop it from                                                   *)
(*   - CreateDuplicateHandle of a handle that was destroyed: it reads the  *)
(*     type -1 and creates a slot with it (ugc/uGCHandleManager.cpp:58);   *)
(*   - SetExtraInfoForHandle on a slot that is not live, which overwrites  *)
(*     the tag of a destroyed one (:78);                                   *)
(*   - the destroy of a slot that was never handed out, since              *)
(*     uDestroyHandle tests the bounds of the array only                   *)
(*     (ugc/uGCHandleStore.cpp:54);                                        *)
(*   - writing the object or the secondary of any slot.                    *)
(* It tells what such a runtime can and cannot break.                      *)
(*                                                                         *)
(* Every pointer it dereferences here is the address of a slot, live or    *)
(* not.  Only uDestroyHandle and ContainsHandle test a pointer at all: an  *)
(* access through NULL, as a failed create returns it, or through another  *)
(* pointer that is no slot is undefined behaviour in all other methods     *)
(* (ugc/uGCHandleManager.cpp:58-105 and ugc_handle_index), and out of this *)
(* module's scope.                                                         *)
(***************************************************************************)
EXTENDS HandleManager

CONSTANT MaxStale   \* bound on the duplicates made of destroyed handles

ASSUME MaxStaleAssumption == MaxStale \in Nat

VARIABLES
  stale,   \* history: slots created with the type of a destroyed handle
  wild     \* history: a slot was retyped idle or destroyed though never given out

misuseVars == <<vars, stale, wild>>

MisuseInit == Init /\ stale = 0 /\ wild = FALSE

Destroyed == {i \in 0 .. ugc_handle_count - 1 : ugc_handle_types[i] < 0}

DuplicateDestroyed ==
  /\ stale < MaxStale
  /\ \E i \in Destroyed : CreateDuplicateHandle(Slot(i))
  /\ stale' = IF ret' = NULL THEN stale ELSE stale + 1
  /\ UNCHANGED wild

(* The index is computed without a test; for the address of a slot, as     *)
(* here, it is that slot's.                                                *)
RetypeIdle ==
  /\ \E i \in Idx \ Live, t \in Types, x \in ExtraPtrs :
       SetExtraInfoForHandle(Slot(i), t, x)
  /\ wild' = TRUE
  /\ UNCHANGED stale

DestroyForeign ==
  /\ \E i \in ugc_handle_count .. UGC_HANDLE_COUNT - 1 : DestroyHandle(Slot(i))
  /\ wild' = TRUE
  /\ UNCHANGED stale

TouchIdle ==
  /\ \E i \in Idx \ Live, o \in ObjectPtrs :
       \/ StoreObjectInHandle(Slot(i), o)
       \/ SetDependentHandleSecondary(Slot(i), o)
  /\ UNCHANGED <<stale, wild>>

LegalStep ==
  /\ CreateStep \/ DestroyStep \/ AccessStep
  /\ UNCHANGED <<stale, wild>>

(* The peak of HandleManager plays no part here. *)
MisuseNext ==
  /\ \/ LegalStep
     \/ DuplicateDestroyed
     \/ RetypeIdle
     \/ DestroyForeign
     \/ TouchIdle
  /\ UNCHANGED peak

MisuseSpec == MisuseInit /\ [][MisuseNext]_misuseVars

-----------------------------------------------------------------------------
(* Properties. *)

(* Mistakes with slots do not become accesses outside the arrays: whatever *)
(* slots are retyped, destroyed or duplicated out of turn, the counters    *)
(* stay in range, so the push of a destroy is in bounds, and an index that *)
(* a create may pop lies in the array, although it may be of a slot that   *)
(* was never handed out.                                                   *)
ArraysInRange ==
  /\ ugc_handle_count \in 0 .. UGC_HANDLE_COUNT
  /\ ugc_handle_free_count \in 0 .. UGC_HANDLE_COUNT
  /\ \A k \in 0 .. ugc_handle_free_count - 1 : ugc_handle_free_stack[k] \in Idx

OnStack(i) ==
  \E k \in 0 .. ugc_handle_free_count - 1 : ugc_handle_free_stack[k] = i

(* Slots that are out of use for good: taken, refused by every destroy for *)
(* their tag, and never popped.                                            *)
LostSlots == {i \in Destroyed : ~OnStack(i)}

(* Capacity is lost to stale duplicates only: a retype, a foreign destroy, *)
(* a double destroy or a write to an idle slot never strands a slot.       *)
LostBounded == Cardinality(LostSlots) <= stale

(* Each duplicate of a destroyed handle costs one slot of the array, for   *)
(* good, unless an idle slot is retyped: no legal call, no double destroy  *)
(* and no stray write gives it back.                                       *)
LostExact == ~wild => Cardinality(LostSlots) = stale

(* As long as idle slots are not retyped and destroys name slots that were *)
(* handed out, stale duplicates and stray writes do no more harm than      *)
(* that: the stack holds destroyed slots only, none twice, so no two       *)
(* creates return the same handle.                                         *)
NoAliasing == ~wild => FreeStackSound /\ FreeStackNoDuplicate

=============================================================================
