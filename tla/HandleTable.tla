---------------------------- MODULE HandleTable -----------------------------
(***************************************************************************)
(* What the handle interface promises the runtime, without free stacks,    *)
(* counters or type tags: a table of at most Cardinality(Handles) entries. *)
(* A create hands out a handle that is not in use, whichever it is, and    *)
(* fails only when all are in use; a destroy releases exactly the handle   *)
(* it names; an access to one handle reads or changes the entry of that    *)
(* handle only.  The variable call says which call was made and with which *)
(* arguments, so that a step is judged as the answer to that call and not  *)
(* to some other one that would allow it.                                  *)
(*                                                                         *)
(* The promises are those of the ACSL contracts of ugc/core/ugc_core.h and *)
(* of the comments on them; HandleCalls implements this specification.     *)
(***************************************************************************)
EXTENDS Integers

CONSTANTS
  Handles,           \* the handles that can exist
  Pointers,          \* what may be passed for a handle: Null and others too
  Objects,           \* object pointers
  Types,             \* the HandleTypes the runtime uses
  Extras,            \* extra-info pointers
  HNDTYPE_DEPENDENT, \* the HandleType of dependent handles
  Null               \* the null pointer

VARIABLES
  table,             \* the entry of each handle; Free when it is not in use
  call,              \* the last call: its method and its arguments
  result             \* what it returned

tableVars == <<table, call, result>>

Free == [object |-> Null, type |-> -1, extra |-> Null, secondary |-> Null]

InUse == {h \in Handles : table[h] # Free}

ObjectOrNull == Objects \union {Null}
ExtraOrNull == Extras \union {Null}

TableInit ==
  /\ table = [h \in Handles |-> Free]
  /\ call = <<"none">>
  /\ result = Null

-----------------------------------------------------------------------------
(* Creating and destroying handles. *)

(* A create returns a handle that nobody holds, or Null at capacity. *)
Create(entry) ==
  \/ \E h \in Handles \ InUse :
       /\ table' = [table EXCEPT ![h] = entry]
       /\ result' = h
  \/ /\ InUse = Handles
     /\ result' = Null
     /\ UNCHANGED table

Read(value) == result' = value /\ UNCHANGED table

CreateHandle(object, type) ==
  /\ call' = <<"create", object, type>>
  /\ Create([object |-> object, type |-> type, extra |-> Null,
             secondary |-> Null])

CreateWithExtra(object, type, extra) ==
  /\ call' = <<"create with extra", object, type, extra>>
  /\ Create([object |-> object, type |-> type, extra |-> extra,
             secondary |-> Null])

CreateDependent(primary, secondary) ==
  /\ call' = <<"create dependent", primary, secondary>>
  /\ Create([object |-> primary, type |-> HNDTYPE_DEPENDENT, extra |-> Null,
             secondary |-> secondary])

(* A duplicate has the object and the type of its original. *)
Duplicate(h) ==
  /\ call' = <<"duplicate", h>>
  /\ \/ h = Null /\ Read(Null)
     \/ /\ h \in InUse
        /\ Create([object |-> table[h].object, type |-> table[h].type,
                   extra |-> Null, secondary |-> Null])

(* The destroy of anything but a handle in use changes nothing. *)
Destroy(p) ==
  /\ call' = <<"destroy", p>>
  /\ \/ /\ p \in InUse
        /\ table' = [table EXCEPT ![p] = Free]
        /\ result' = Null
     \/ p \notin InUse /\ Read(Null)

-----------------------------------------------------------------------------
(* Access to a handle in use. *)

Update(h, entry, value) ==
  /\ table' = [table EXCEPT ![h] = entry]
  /\ result' = value

SetExtraInfo(h, type, extra) ==
  /\ call' = <<"set extra", h, type, extra>>
  /\ Update(h, [table[h] EXCEPT !.type = type, !.extra = extra], Null)

SetSecondary(h, object) ==
  /\ call' = <<"set secondary", h, object>>
  /\ Update(h, [table[h] EXCEPT !.secondary = object], Null)

Store(h, object) ==
  /\ call' = <<"store", h, object>>
  /\ Update(h, [table[h] EXCEPT !.object = object], Null)

StoreIfNull(h, object) ==
  /\ call' = <<"store if null", h, object>>
  /\ \/ /\ table[h].object = Null
        /\ Update(h, [table[h] EXCEPT !.object = object], 1)
     \/ table[h].object # Null /\ Read(0)

(* Non-standard: the result is the object of the handle after the call. *)
CompareExchange(h, object, comparand) ==
  /\ call' = <<"compare exchange", h, object, comparand>>
  /\ \/ /\ table[h].object = comparand
        /\ Update(h, [table[h] EXCEPT !.object = object], object)
     \/ table[h].object # comparand /\ Read(table[h].object)

GetType(h) == call' = <<"get type", h>> /\ Read(table[h].type)
GetExtraInfo(h) == call' = <<"get extra", h>> /\ Read(table[h].extra)
GetSecondary(h) == call' = <<"get secondary", h>> /\ Read(table[h].secondary)

Contains(p) ==
  /\ call' = <<"contains", p>>
  /\ Read(IF p \in Handles THEN 1 ELSE 0)

TableNext ==
  \/ \E o \in ObjectOrNull, t \in Types :
       \/ CreateHandle(o, t)
       \/ \E x \in ExtraOrNull : CreateWithExtra(o, t, x)
  \/ \E o, s \in ObjectOrNull : CreateDependent(o, s)
  \/ \E p \in Pointers : Duplicate(p) \/ Destroy(p) \/ Contains(p)
  \/ \E h \in InUse :
       \/ \E t \in Types, x \in ExtraOrNull : SetExtraInfo(h, t, x)
       \/ \E o \in ObjectOrNull :
            \/ SetSecondary(h, o)
            \/ Store(h, o)
            \/ StoreIfNull(h, o)
            \/ \E c \in ObjectOrNull : CompareExchange(h, o, c)
       \/ GetType(h)
       \/ GetExtraInfo(h)
       \/ GetSecondary(h)

TableSpec == TableInit /\ [][TableNext]_tableVars

=============================================================================
