----------------------------- MODULE GCRuntime ------------------------------
(***************************************************************************)
(* Heap and handles together, as the runtime gets them from the entry      *)
(* point of ugc/uGC.cpp: GC_Initialize makes the heap and the manager, the *)
(* manager's Initialize makes the one handle store, and from then on the   *)
(* runtime allocates objects and refers to them by handles.                *)
(*                                                                         *)
(* CreateHandleStore gives every collectible load context the same store,  *)
(* and DestroyHandleStore does nothing (ugc/uGCHandleManager.cpp:31-45).   *)
(* The ledger is history: what the runtime believes of every handle it was *)
(* given, and through which store it got it.  Extra info, which plays no   *)
(* part here, is left to HandleManager.                                    *)
(***************************************************************************)
EXTENDS CoreAlloc

CONSTANTS
  UGC_HANDLE_COUNT, HandlesBase, PtrSize,  \* of the handle store
  Types, HNDTYPE_DEPENDENT,                \* the HandleTypes
  LoadContexts                             \* owners of secondary stores

ASSUME StoreAssumption ==
  /\ UGC_HANDLE_COUNT \in Nat \ {0}
  /\ HandlesBase \in Nat \ {0}
  /\ PtrSize \in {4, 8}
ASSUME HandleTypesAssumption == /\ Types \subseteq Nat
                                /\ HNDTYPE_DEPENDENT \in Types
ASSUME OwnersAssumption ==
  \* the marks of the ledger are not names of load contexts
  {"global", "none", "orphan"} \cap LoadContexts = {}

VARIABLES
  ugc_handle_count, ugc_handle_free_count, ugc_handles, ugc_handle_types,
  ugc_handle_extra, ugc_handle_dependent, ugc_handle_free_stack, ret,
  gc,            \* "none", or "made" by GC_Initialize
  handleStore,   \* the manager's _handleStore: "null" or "store"
  stores,        \* the store the runtime holds for each owner, or "null"
  ledger         \* history: owner and contents of every slot handed out

Store == INSTANCE HandleManager WITH
           Objects <- 1 .. HeapLimit, Extras <- {}, peak <- 0

Owners == LoadContexts \union {"global"}

handleVars ==
  <<ugc_handle_count, ugc_handle_free_count, ugc_handles, ugc_handle_types,
    ugc_handle_extra, ugc_handle_dependent, ugc_handle_free_stack, ret>>
storeVars == <<gc, handleStore, stores>>
runtimeVars == <<vars, handleVars, storeVars, ledger>>

NoEntry == [owner |-> "none", object |-> NULL, secondary |-> NULL]

RuntimeInit ==
  /\ Init
  /\ Store!CoreInit
  /\ gc = "none"
  /\ handleStore = "null"
  /\ stores = [w \in Owners |-> "null"]
  /\ ledger = [i \in Store!Idx |-> NoEntry]

-----------------------------------------------------------------------------
(* Starting up. *)

GC_Initialize ==
  /\ gc = "none"
  /\ gc' = "made"
  /\ UNCHANGED <<vars, handleVars, handleStore, stores, ledger>>

Initialize ==
  /\ gc = "made" /\ handleStore = "null"
  /\ handleStore' = "store"
  /\ UNCHANGED <<vars, handleVars, gc, stores, ledger>>

-----------------------------------------------------------------------------
(* Stores. *)

GetGlobalHandleStore ==
  /\ gc = "made"
  /\ stores' = [stores EXCEPT !["global"] = handleStore]
  /\ UNCHANGED <<vars, handleVars, gc, handleStore, ledger>>

CreateHandleStore(w) ==
  /\ gc = "made" /\ stores[w] = "null"
  /\ stores' = [stores EXCEPT ![w] = handleStore]
  /\ UNCHANGED <<vars, handleVars, gc, handleStore, ledger>>

(* The runtime drops the store and every handle it got through it. *)
Orphaned(w) ==
  [i \in Store!Idx |-> IF ledger[i].owner = w
                       THEN [ledger[i] EXCEPT !.owner = "orphan"]
                       ELSE ledger[i]]

\* Mutant: destroying a store resets the array behind it.
DestroyHandleStore_Resets(w) ==
  /\ stores[w] # "null"
  /\ stores' = [stores EXCEPT ![w] = "null"]
  /\ ledger' = Orphaned(w)
  /\ Store!ugc_handle_store_reset
  /\ UNCHANGED <<vars, gc, handleStore>>

DestroyHandleStore(w) ==
  /\ stores[w] # "null"
  /\ stores' = [stores EXCEPT ![w] = "null"]
  /\ ledger' = Orphaned(w)
  /\ UNCHANGED <<vars, handleVars, gc, handleStore>>

(* Uproot of a store that is about to go, the manager's Shutdown and the   *)
(* trace of ref-counted handles: no effect.                                *)
Uproot(w) == stores[w] # "null" /\ UNCHANGED runtimeVars
Shutdown == gc = "made" /\ UNCHANGED runtimeVars
TraceRefCountedHandles == gc = "made" /\ UNCHANGED runtimeVars

-----------------------------------------------------------------------------
(* Handles.  The runtime passes objects it was served, or NULL, which a    *)
(* failed Alloc returned.                                                  *)

KnownObjects == {NULL} \union {o.addr : o \in objects}

Held == {i \in Store!Idx : ledger[i].owner \in Owners}

(* What a create returned goes into the books. *)
File(w, object, secondary) ==
  ledger' = IF ret' = NULL THEN ledger
            ELSE [ledger EXCEPT ![Store!ugc_handle_index(ret')] =
                    [owner |-> w, object |-> object, secondary |-> secondary]]

CreateHandle ==
  /\ \E w \in Owners, o \in KnownObjects :
       /\ stores[w] = "store"
       /\ \/ \E t \in Types : /\ Store!CreateHandleOfType(o, t)
                              /\ File(w, o, NULL)
          \/ \E s \in KnownObjects : /\ Store!CreateDependentHandle(o, s)
                                     /\ File(w, o, s)
  /\ UNCHANGED <<vars, storeVars>>

(* Handles the manager makes itself are in the global store. *)
CreateManagerHandle ==
  /\ handleStore = "store"
  /\ \/ \E o \in KnownObjects, t \in Types :
          /\ Store!CreateHandleOfType(o, t)
          /\ File("global", o, NULL)
     \/ \E i \in Held : /\ Store!CreateDuplicateHandle(Store!Slot(i))
                        /\ File("global", ledger[i].object, NULL)
  /\ UNCHANGED <<vars, storeVars>>

DestroyHandle ==
  /\ \E i \in Held : /\ Store!DestroyHandle(Store!Slot(i))
                     /\ ledger' = [ledger EXCEPT ![i] = NoEntry]
  /\ UNCHANGED <<vars, storeVars>>

WriteHandle ==
  /\ \E i \in Held, o \in KnownObjects :
       \/ /\ Store!StoreObjectInHandle(Store!Slot(i), o)
          /\ ledger' = [ledger EXCEPT ![i].object = o]
       \/ /\ Store!StoreObjectInHandleIfNull(Store!Slot(i), o)
          /\ ledger' = IF ret' = 1 THEN [ledger EXCEPT ![i].object = o]
                       ELSE ledger
       \/ /\ Store!SetDependentHandleSecondary(Store!Slot(i), o)
          /\ ledger' = [ledger EXCEPT ![i].secondary = o]
       \/ \E c \in KnownObjects :
            /\ Store!InterlockedCompareExchangeObjectInHandle(
                 Store!Slot(i), o, c)
            /\ ledger' = [ledger EXCEPT ![i].object = ret']
  /\ UNCHANGED <<vars, storeVars>>

AllocateObject ==
  /\ gc = "made"
  /\ Next
  /\ UNCHANGED <<handleVars, storeVars, ledger>>

RuntimeNext ==
  \/ GC_Initialize
  \/ Initialize
  \/ GetGlobalHandleStore
  \/ \E w \in LoadContexts : \/ CreateHandleStore(w)
                             \/ DestroyHandleStore(w)
                             \/ Uproot(w)
  \/ Shutdown
  \/ TraceRefCountedHandles
  \/ CreateHandle
  \/ CreateManagerHandle
  \/ DestroyHandle
  \/ WriteHandle
  \/ AllocateObject

RuntimeSpec == RuntimeInit /\ [][RuntimeNext]_runtimeVars

-----------------------------------------------------------------------------
(* Properties. *)

(* The store and the runtime agree on every handle, whichever store it was *)
(* created through and whichever stores were destroyed since: a slot is in *)
(* use exactly when the runtime holds its handle or lost it with a store,  *)
(* and what can be read through it is what was stored there last.  So the  *)
(* one array behind all stores never mixes them up, and a store's end      *)
(* takes no handle of another store with it.                               *)
LedgerTrue ==
  \A i \in Store!Idx :
    /\ ledger[i].owner # "none" <=> i \in Store!Live
    /\ i \in Store!Live => /\ ugc_handles[i] = ledger[i].object
                           /\ ugc_handle_dependent[i] = ledger[i].secondary

(* A handle in use refers to null or to an object the heap served, which   *)
(* lies with its header in memory that calloc returned: no call leaves a   *)
(* bogus or stale pointer where the runtime will dereference one.          *)
TargetsAllocated ==
  \A i \in Store!Live :
    \A p \in {ugc_handles[i], ugc_handle_dependent[i]} \ {NULL} :
      \E o \in objects, b \in blocks : o.addr = p /\ InBlock(o, b)

=============================================================================
