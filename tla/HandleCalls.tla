---------------------------- MODULE HandleCalls -----------------------------
(***************************************************************************)
(* HandleManager with a record of the calls: the history variable call     *)
(* holds the method called last and its arguments, ret what it returned.   *)
(* A call is thereby told from any other call that could have had the same *)
(* effect, and the handle manager can be compared, call by call, with what *)
(* the table of HandleTable promises.                                      *)
(***************************************************************************)
EXTENDS HandleManager

VARIABLE
  call    \* history: the last call, its method and its arguments

callVars == <<vars, call>>

CallInit == Init /\ call = <<"none">>

CreateCall ==
  \/ \E o \in ObjectPtrs, t \in Types :
       \/ /\ CreateHandleOfType(o, t)
          /\ call' = <<"create", o, t>>
       \/ \E x \in ExtraPtrs : /\ CreateHandleWithExtraInfo(o, t, x)
                               /\ call' = <<"create with extra", o, t, x>>
  \/ \E o, s \in ObjectPtrs : /\ CreateDependentHandle(o, s)
                              /\ call' = <<"create dependent", o, s>>
  \/ \E h \in LiveHandles \union {NULL} : /\ CreateDuplicateHandle(h)
                                          /\ call' = <<"duplicate", h>>

DestroyCall ==
  \E h \in IssuedHandles \union OutsidePointers :
    /\ DestroyHandle(h)
    /\ call' = <<"destroy", h>>

WriteCall(h) ==
  \/ \E t \in Types, x \in ExtraPtrs : /\ SetExtraInfoForHandle(h, t, x)
                                       /\ call' = <<"set extra", h, t, x>>
  \/ \E o \in ObjectPtrs :
       \/ StoreObjectInHandle(h, o) /\ call' = <<"store", h, o>>
       \/ StoreObjectInHandleIfNull(h, o) /\ call' = <<"store if null", h, o>>
       \/ SetDependentHandleSecondary(h, o) /\ call' = <<"set secondary", h, o>>
       \/ \E c \in ObjectPtrs :
            /\ InterlockedCompareExchangeObjectInHandle(h, o, c)
            /\ call' = <<"compare exchange", h, o, c>>

ReadCall(h) ==
  \/ GetExtraInfoFromHandle(h) /\ call' = <<"get extra", h>>
  \/ GetDependentHandleSecondary(h) /\ call' = <<"get secondary", h>>
  \/ HandleFetchType(h) /\ call' = <<"get type", h>>

ContainsCall ==
  \E h \in IssuedHandles \union OutsidePointers :
    /\ ContainsHandle(h)
    /\ call' = <<"contains", h>>

CallNext ==
  /\ \/ CreateCall
     \/ DestroyCall
     \/ \E h \in LiveHandles : WriteCall(h) \/ ReadCall(h)
     \/ ContainsCall
  /\ peak' = LargerOf(peak, Cardinality(Live'))

CallSpec == CallInit /\ [][CallNext]_callVars

-----------------------------------------------------------------------------
(* The table that the arrays stand for: an entry is in use when its slot   *)
(* was taken and is not tagged free.                                       *)
Entry(i) ==
  [object |-> ugc_handles[i], type |-> ugc_handle_types[i],
   extra |-> ugc_handle_extra[i], secondary |-> ugc_handle_dependent[i]]

FreeEntry ==
  [object |-> NULL, type |-> UGC_HANDLE_TYPE_FREE, extra |-> NULL,
   secondary |-> NULL]

AllHandles == {Slot(i) : i \in Idx}

TableOf ==
  [h \in AllHandles |-> IF ugc_handle_index(h) \in Live
                        THEN Entry(ugc_handle_index(h)) ELSE FreeEntry]

Table == INSTANCE HandleTable WITH
           Handles <- AllHandles, Pointers <- AllHandles \union OutsidePointers,
           Null <- NULL, table <- TableOf, result <- ret

(* The parallel arrays, counters, stack and tags implement the abstract    *)
(* table of handles, call by call.  So a create never returns a handle     *)
(* that is in use, and returns NULL only when UGC_HANDLE_COUNT handles are *)
(* live: after any destroy of a live handle the next create succeeds, on   *)
(* that slot or another.  A destroy of a live handle always releases it    *)
(* and a second one does nothing, a duplicate has the object and the type  *)
(* of its original, and every other call reads or changes the entry of the *)
(* handle it names and no other.                                           *)
ImplementsTable == Table!TableSpec

=============================================================================
