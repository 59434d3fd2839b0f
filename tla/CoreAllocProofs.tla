-------------------------- MODULE CoreAllocProofs ---------------------------
(***************************************************************************)
(* Proofs about CoreAlloc, for every number of contexts, quantum, set of   *)
(* sizes, header size, size_t and heap.                                    *)
(*                                                                         *)
(* Only four kinds of step touch memory: a failure, a direct block, a bump *)
(* of a window (by Alloc or by the runtime) and a refill.  Each has a      *)
(* lemma.                                                                  *)
(***************************************************************************)
EXTENDS CoreAlloc, FiniteSetTheorems, TLAPS

(* The strengthening that makes the disjointness of objects inductive: the *)
(* rest of a window, from the header of the next object on, is apart from  *)
(* every object and from the rest of every other window, and everything    *)
(* lies in blocks, so that a fresh block is apart from all of it.          *)
BlocksInHeap == \A b \in blocks : b.base + b.size <= HeapLimit

WindowsAligned == \A c \in Contexts : alloc_ptr[c] % 8 = 0

WindowsFree ==
  \A c \in Contexts, o \in objects :
    \/ EmptyWindow(c)
    \/ o.addr + o.size <= alloc_ptr[c]
    \/ alloc_limit[c] <= o.addr - ObjectGap

WindowsApart ==
  \A c, d \in Contexts :
    \/ c = d
    \/ EmptyWindow(c)
    \/ EmptyWindow(d)
    \/ alloc_limit[c] <= alloc_ptr[d] - ObjectGap
    \/ alloc_limit[d] <= alloc_ptr[c] - ObjectGap

IInv ==
  /\ TypeOK
  /\ BlocksInHeap
  /\ ContextWindow
  /\ WindowsAligned
  /\ WindowsFree
  /\ WindowsApart
  /\ ObjectsInBlocks
  /\ ObjectsAligned
  /\ ObjectsDisjoint

(* What the steps leave to the accounting. *)
CountersOK ==
  /\ alloc_bytes \in [Contexts -> Nat]
  /\ alloc_bytes_uoh \in [Contexts -> Nat]
  /\ allocatedBytes \in Nat
  /\ result \in 0 .. HeapLimit

-----------------------------------------------------------------------------
(* On both targets the room for a header is 8 bytes. *)
LEMMA GapIs8 == ObjectGap = 8
BY HeaderAssumption DEF ObjectGap

(* size_t arithmetic is exact for what fits. *)
LEMMA WrapSmall ==
  ASSUME NEW n \in Nat, n <= SIZE_MAX
  PROVE  Wrap(n) = n
BY AddressAssumption DEF Wrap

(* The sum of multiples of 8 is a multiple of 8. *)
LEMMA AddAligned ==
  ASSUME NEW m \in Nat, NEW n \in Nat, m % 8 = 0, n % 8 = 0
  PROVE  (m + n) % 8 = 0
OBVIOUS

(* What calloc guarantees of the place it returns. *)
LEMMA PlaceFacts ==
  ASSUME NEW n \in Nat, NEW a \in FreePlaces(n)
  PROVE  /\ a \in Nat
         /\ a % 8 = 0
         /\ a >= 8
         /\ a + n <= HeapLimit
         /\ \A b \in blocks : Disjoint(a, n, b.base, b.size)
<1>1. PICK k \in 1 .. HeapLimit \div CallocAlign : a = CallocAlign * k
  BY DEF FreePlaces
<1>2. k \in Int /\ k >= 1
  OBVIOUS
<1>3. CASE CallocAlign = 8
  <2>1. a \in Nat /\ a % 8 = 0 /\ a >= 8
    BY <1>1, <1>2, <1>3
  <2> QED  BY <2>1 DEF FreePlaces
<1>4. CASE CallocAlign = 16
  <2>1. a \in Nat /\ a % 8 = 0 /\ a >= 8
    BY <1>1, <1>2, <1>4
  <2> QED  BY <2>1 DEF FreePlaces
<1> QED  BY <1>3, <1>4, CallocAssumption

(* TypeOK as facts about single blocks, windows and objects. *)
LEMMA TypeFacts ==
  ASSUME TypeOK
  PROVE  /\ \A b \in blocks : b.base \in Nat /\ b.size \in Nat /\ b.base >= 1
         /\ \A c \in Contexts : alloc_ptr[c] \in Nat /\ alloc_limit[c] \in Nat
         /\ \A o \in objects : /\ o.addr \in Nat
                               /\ o.size \in Nat
                               /\ o.size >= ObjectGap
         /\ HeapLimit \in Nat /\ SIZE_MAX \in Nat
         /\ HeapLimit <= SIZE_MAX
BY AddressAssumption, SizesAssumption DEF TypeOK

(* No memory, no windows and no objects: everything holds. *)
LEMMA InitIInv == Init => IInv
<1> SUFFICES ASSUME Init PROVE IInv
  OBVIOUS
<1> USE AddressAssumption DEF Init
<1>1. TypeOK
  BY DEF TypeOK, NULL
<1>2. BlocksInHeap /\ ObjectsInBlocks /\ ObjectsAligned /\ ObjectsDisjoint
  BY DEF BlocksInHeap, ObjectsInBlocks, ObjectsAligned, ObjectsDisjoint
<1>3. \A c \in Contexts : EmptyWindow(c)
  BY DEF EmptyWindow
<1>4. ContextWindow /\ WindowsFree /\ WindowsApart
  BY <1>3 DEF ContextWindow, WindowsFree, WindowsApart
<1>5. WindowsAligned
  BY DEF WindowsAligned, NULL
<1> QED  BY <1>1, <1>2, <1>4, <1>5 DEF IInv

(* A failed allocation. *)
LEMMA NothingIInv ==
  ASSUME IInv, CountersOK', UNCHANGED <<blocks, windows, objects>>
  PROVE  IInv'
BY DEF IInv, TypeOK, CountersOK, windows, BlocksInHeap, ContextWindow,
       WindowsAligned, WindowsFree, WindowsApart, ObjectsInBlocks,
       ObjectsAligned, ObjectsDisjoint, EmptyWindow, InQuantum, InBlock

-----------------------------------------------------------------------------
ObjectRecords ==
  [addr : 1 .. HeapLimit, size : Sizes, context : Contexts \union {NoContext},
   path : {"soh", "uoh", "fast"}]

(* The front of a window becomes an object. *)
LEMMA BumpIInv ==
  ASSUME IInv, CountersOK',
         NEW c \in Contexts, NEW s \in Sizes, NEW o \in ObjectRecords,
         alloc_ptr[c] # NULL, alloc_ptr[c] + s <= alloc_limit[c],
         alloc_ptr' = [alloc_ptr EXCEPT ![c] = alloc_ptr[c] + s],
         UNCHANGED <<blocks, alloc_limit>>,
         o.addr = alloc_ptr[c], o.size = s,
         objects' = objects \union {o}
  PROVE  IInv'
<1> USE GapIs8
<1>0. TypeOK
  BY DEF IInv
<1>1. /\ \A b \in blocks : b.base \in Nat /\ b.size \in Nat /\ b.base >= 1
      /\ \A d \in Contexts : alloc_ptr[d] \in Nat /\ alloc_limit[d] \in Nat
      /\ \A p \in objects : p.addr \in Nat /\ p.size \in Nat /\ p.size >= 8
      /\ HeapLimit \in Nat
  BY <1>0, TypeFacts
<1>2. s \in Nat /\ s >= 8 /\ s % 8 = 0
  BY SizesAssumption
<1>3. PICK b \in blocks : InQuantum(c, b)
  BY DEF IInv, ContextWindow, EmptyWindow
<1>4. /\ alloc_ptr'[c] = alloc_ptr[c] + s
      /\ alloc_ptr'[c] \in Nat
      /\ \A d \in Contexts \ {c} : alloc_ptr'[d] = alloc_ptr[d]
  BY <1>0, <1>1, <1>2 DEF TypeOK
<1>5. TypeOK'
  <2>1. alloc_ptr[c] + s \in 0 .. HeapLimit
    BY <1>0, <1>1, <1>2 DEF TypeOK
  <2>2. alloc_ptr' \in [Contexts -> 0 .. HeapLimit]
    BY <1>0, <2>1 DEF TypeOK
  <2>3. objects' \subseteq ObjectRecords
    BY <1>0 DEF TypeOK, ObjectRecords
  <2> QED  BY <1>0, <2>2, <2>3 DEF TypeOK, CountersOK, ObjectRecords
<1>6. ~EmptyWindow(c) /\ ~EmptyWindow(c)'
  BY <1>1, <1>2, <1>4 DEF EmptyWindow, NULL
<1>7. \A d \in Contexts \ {c} : EmptyWindow(d)' <=> EmptyWindow(d)
  BY <1>4 DEF EmptyWindow
<1>8. ContextWindow'
  <2>1. InQuantum(c, b)'
    BY <1>1, <1>2, <1>3, <1>4 DEF InQuantum
  <2>2. \A d \in Contexts \ {c}, e \in blocks :
          InQuantum(d, e) => InQuantum(d, e)'
    BY <1>4 DEF InQuantum
  <2> QED  BY <1>7, <2>1, <2>2 DEF IInv, ContextWindow
<1>9. WindowsAligned'
  BY <1>1, <1>2, <1>4, AddAligned DEF IInv, WindowsAligned
<1>10. WindowsFree'
  <2> SUFFICES ASSUME NEW d \in Contexts, NEW p \in objects \union {o},
                      ~EmptyWindow(d)'
               PROVE  \/ p.addr + p.size <= alloc_ptr'[d]
                      \/ alloc_limit[d] <= p.addr - ObjectGap
    BY DEF WindowsFree
  <2>1. ~EmptyWindow(d)
    BY <1>6, <1>7
  <2>2. CASE p \in objects
    BY <1>1, <1>2, <1>4, <2>1, <2>2 DEF IInv, WindowsFree
  <2>3. CASE p = o /\ d = c
    BY <1>1, <1>2, <1>4, <2>3
  <2>4. CASE p = o /\ d # c
    <3>1. \/ alloc_limit[c] <= alloc_ptr[d] - ObjectGap
          \/ alloc_limit[d] <= alloc_ptr[c] - ObjectGap
      BY <1>6, <2>1, <2>4 DEF IInv, WindowsApart
    <3> QED  BY <1>1, <1>2, <1>4, <2>4, <3>1
  <2> QED  BY <2>2, <2>3, <2>4
<1>11. WindowsApart'
  <2> SUFFICES ASSUME NEW d \in Contexts, NEW e \in Contexts, d # e,
                      ~EmptyWindow(d)', ~EmptyWindow(e)'
               PROVE  \/ alloc_limit[d] <= alloc_ptr'[e] - ObjectGap
                      \/ alloc_limit[e] <= alloc_ptr'[d] - ObjectGap
    BY DEF WindowsApart
  <2>1. ~EmptyWindow(d) /\ ~EmptyWindow(e)
    BY <1>6, <1>7
  <2>2. \/ alloc_limit[d] <= alloc_ptr[e] - ObjectGap
        \/ alloc_limit[e] <= alloc_ptr[d] - ObjectGap
    BY <2>1 DEF IInv, WindowsApart
  <2>3. alloc_ptr[d] <= alloc_ptr'[d] /\ alloc_ptr'[d] \in Nat
    BY <1>1, <1>2, <1>4
  <2>4. alloc_ptr[e] <= alloc_ptr'[e] /\ alloc_ptr'[e] \in Nat
    BY <1>1, <1>2, <1>4
  <2> QED  BY <1>1, <2>2, <2>3, <2>4
<1>12. ObjectsInBlocks'
  <2>1. InBlock(o, b)
    BY <1>1, <1>2, <1>3 DEF InBlock, InQuantum
  <2> QED  BY <2>1 DEF IInv, ObjectsInBlocks, InBlock
<1>13. ObjectsAligned'
  BY DEF IInv, ObjectsAligned, WindowsAligned
<1>14. ObjectsDisjoint'
  <2>1. \A p \in objects :
          \/ p.addr + p.size <= o.addr
          \/ alloc_limit[c] <= p.addr - ObjectGap
    BY <1>6 DEF IInv, WindowsFree
  <2>2. \A p \in objects :
          /\ Disjoint(o.addr - ObjectGap, o.size, p.addr - ObjectGap, p.size)
          /\ Disjoint(p.addr - ObjectGap, p.size, o.addr - ObjectGap, o.size)
    BY <1>1, <1>2, <2>1 DEF Disjoint
  <2> QED  BY <2>2 DEF IInv, ObjectsDisjoint
<1> QED
  BY <1>5, <1>8, <1>9, <1>10, <1>11, <1>12, <1>13, <1>14
     DEF IInv, BlocksInHeap

-----------------------------------------------------------------------------
(* A fresh block is apart from every object and every window. *)
LEMMA FreshApart ==
  ASSUME IInv, NEW n \in Nat, NEW a \in FreePlaces(n)
  PROVE  /\ \A p \in objects : \/ p.addr + p.size <= a
                               \/ a + n <= p.addr - ObjectGap
         /\ \A d \in Contexts : \/ EmptyWindow(d)
                                \/ alloc_limit[d] <= a
                                \/ a + n <= alloc_ptr[d] - ObjectGap
<1> USE GapIs8
<1>0. TypeOK
  BY DEF IInv
<1>1. /\ \A b \in blocks : b.base \in Nat /\ b.size \in Nat
      /\ \A d \in Contexts : alloc_ptr[d] \in Nat /\ alloc_limit[d] \in Nat
      /\ \A p \in objects : p.addr \in Nat /\ p.size \in Nat
  BY <1>0, TypeFacts
<1>2. /\ a \in Nat
      /\ \A b \in blocks : a + n <= b.base \/ b.base + b.size <= a
  BY PlaceFacts DEF Disjoint
<1>3. ASSUME NEW p \in objects
      PROVE  p.addr + p.size <= a \/ a + n <= p.addr - ObjectGap
  <2>1. PICK b \in blocks : InBlock(p, b)
    BY DEF IInv, ObjectsInBlocks
  <2> QED  BY <1>1, <1>2, <2>1 DEF InBlock
<1>4. ASSUME NEW d \in Contexts, ~EmptyWindow(d)
      PROVE  alloc_limit[d] <= a \/ a + n <= alloc_ptr[d] - ObjectGap
  <2>1. PICK b \in blocks : InQuantum(d, b)
    BY <1>4 DEF IInv, ContextWindow
  <2> QED  BY <1>1, <1>2, <2>1 DEF InQuantum
<1> QED  BY <1>3, <1>4

(* The object at the front of a fresh block, behind its header. *)
LEMMA FreshObject ==
  ASSUME IInv, NEW n \in Nat, NEW a \in FreePlaces(n), n <= SIZE_MAX,
         NEW s \in Sizes, NEW o \in ObjectRecords,
         s + ObjectGap <= n, o.addr = a + ObjectGap, o.size = s,
         blocks' = blocks \union {[base |-> a, size |-> n]},
         objects' = objects \union {o}
  PROVE  /\ blocks' \subseteq [base : 1 .. HeapLimit, size : 1 .. SIZE_MAX]
         /\ objects' \subseteq ObjectRecords
         /\ BlocksInHeap'
         /\ ObjectsInBlocks'
         /\ ObjectsAligned'
         /\ ObjectsDisjoint'
<1> USE GapIs8
<1>0. TypeOK
  BY DEF IInv
<1>1. /\ \A p \in objects : p.addr \in Nat /\ p.size \in Nat
      /\ HeapLimit \in Nat /\ SIZE_MAX \in Nat
  BY <1>0, TypeFacts
<1>2. s \in Nat /\ s >= 8 /\ s % 8 = 0
  BY SizesAssumption
<1>3. /\ a \in Nat
      /\ a % 8 = 0
      /\ a >= 8
      /\ a + n <= HeapLimit
  BY PlaceFacts
<1>4. [base |-> a, size |-> n] \in [base : 1 .. HeapLimit, size : 1 .. SIZE_MAX]
  BY <1>1, <1>2, <1>3
<1>5. /\ blocks' \subseteq [base : 1 .. HeapLimit, size : 1 .. SIZE_MAX]
      /\ objects' \subseteq ObjectRecords
  BY <1>0, <1>4 DEF TypeOK, ObjectRecords
<1>6. BlocksInHeap'
  BY <1>3 DEF IInv, BlocksInHeap
<1>7. ObjectsInBlocks'
  <2>1. InBlock(o, [base |-> a, size |-> n])
    BY <1>2, <1>3 DEF InBlock
  <2> QED  BY <2>1 DEF IInv, ObjectsInBlocks, InBlock
<1>8. ObjectsAligned'
  BY <1>3, AddAligned DEF IInv, ObjectsAligned
<1>9. ObjectsDisjoint'
  <2>1. \A p \in objects : \/ p.addr + p.size <= a
                          \/ a + n <= p.addr - ObjectGap
    BY FreshApart
  <2>2. \A p \in objects :
          /\ Disjoint(o.addr - ObjectGap, o.size, p.addr - ObjectGap, p.size)
          /\ Disjoint(p.addr - ObjectGap, p.size, o.addr - ObjectGap, o.size)
    BY <1>1, <1>2, <1>3, <2>1 DEF Disjoint
  <2> QED  BY <2>2 DEF IInv, ObjectsDisjoint
<1> QED  BY <1>5, <1>6, <1>7, <1>8, <1>9

(* The direct path: a block for one object, no window changes. *)
LEMMA DirectIInv ==
  ASSUME IInv, CountersOK', NEW s \in Sizes, NEW o \in ObjectRecords,
         s + ObjectGap <= SIZE_MAX,
         NEW a \in FreePlaces(s + ObjectGap),
         o.addr = a + ObjectGap, o.size = s,
         blocks' = blocks \union {[base |-> a, size |-> s + ObjectGap]},
         objects' = objects \union {o},
         UNCHANGED windows
  PROVE  IInv'
<1> USE GapIs8
<1>0. TypeOK
  BY DEF IInv
<1>1. /\ \A d \in Contexts : alloc_ptr[d] \in Nat /\ alloc_limit[d] \in Nat
      /\ \A p \in objects : p.addr \in Nat /\ p.size \in Nat
      /\ HeapLimit \in Nat /\ SIZE_MAX \in Nat
  BY <1>0, TypeFacts
<1>2. s \in Nat /\ s + ObjectGap \in Nat
  BY SizesAssumption
<1>3. /\ blocks' \subseteq [base : 1 .. HeapLimit, size : 1 .. SIZE_MAX]
      /\ objects' \subseteq ObjectRecords
      /\ BlocksInHeap'
      /\ ObjectsInBlocks'
      /\ ObjectsAligned'
      /\ ObjectsDisjoint'
  BY <1>2, FreshObject
<1>4. TypeOK'
  BY <1>0, <1>3 DEF TypeOK, CountersOK, windows, ObjectRecords
<1>5. ContextWindow' /\ WindowsAligned' /\ WindowsApart'
  BY DEF IInv, ContextWindow, EmptyWindow, InQuantum, WindowsAligned,
         WindowsApart, windows
<1>6. WindowsFree'
  <2>1. \A d \in Contexts :
          \/ EmptyWindow(d)
          \/ o.addr + o.size <= alloc_ptr[d]
          \/ alloc_limit[d] <= o.addr - ObjectGap
    <3>1. a \in Nat
      BY <1>2, PlaceFacts
    <3>2. \A d \in Contexts : \/ EmptyWindow(d)
                             \/ alloc_limit[d] <= a
                             \/ a + (s + ObjectGap) <= alloc_ptr[d] - ObjectGap
      BY <1>2, FreshApart
    <3> QED  BY <1>1, <1>2, <3>1, <3>2
  <2> QED  BY <2>1 DEF IInv, WindowsFree, EmptyWindow, windows
<1> QED  BY <1>3, <1>4, <1>5, <1>6 DEF IInv

(* The refill path: a quantum for one object and the rest of the window.   *)
LEMMA RefillIInv ==
  ASSUME IInv, CountersOK', NEW c \in Contexts, NEW s \in Sizes,
         NEW o \in ObjectRecords,
         s + ObjectGap <= UGC_ALLOC_QUANTUM,
         NEW a \in FreePlaces(UGC_ALLOC_QUANTUM),
         o.addr = a + ObjectGap, o.size = s,
         blocks' = blocks \union {[base |-> a, size |-> UGC_ALLOC_QUANTUM]},
         objects' = objects \union {o},
         alloc_ptr' = [alloc_ptr EXCEPT ![c] = a + ObjectGap + s],
         alloc_limit' = [alloc_limit EXCEPT ![c] = a + UGC_ALLOC_QUANTUM]
  PROVE  IInv'
<1> USE GapIs8
<1> DEFINE Q == UGC_ALLOC_QUANTUM
<1>0. TypeOK
  BY DEF IInv
<1>1. /\ \A d \in Contexts : alloc_ptr[d] \in Nat /\ alloc_limit[d] \in Nat
      /\ \A p \in objects : p.addr \in Nat /\ p.size \in Nat
      /\ HeapLimit \in Nat /\ SIZE_MAX \in Nat
  BY <1>0, TypeFacts
<1>2. s \in Nat /\ s >= 8 /\ s % 8 = 0 /\ Q \in Nat /\ Q <= SIZE_MAX
  BY SizesAssumption, QuantumAssumption
<1>3. a \in Nat /\ a % 8 = 0 /\ a >= 8 /\ a + Q <= HeapLimit
  BY <1>2, PlaceFacts
<1>4. /\ blocks' \subseteq [base : 1 .. HeapLimit, size : 1 .. SIZE_MAX]
      /\ objects' \subseteq ObjectRecords
      /\ BlocksInHeap'
      /\ ObjectsInBlocks'
      /\ ObjectsAligned'
      /\ ObjectsDisjoint'
  BY <1>2, FreshObject
<1>5. /\ alloc_ptr'[c] = a + ObjectGap + s
      /\ alloc_limit'[c] = a + Q
      /\ \A d \in Contexts \ {c} : /\ alloc_ptr'[d] = alloc_ptr[d]
                                  /\ alloc_limit'[d] = alloc_limit[d]
  BY <1>0 DEF TypeOK
<1>6. TypeOK'
  <2>1. a + ObjectGap + s \in 0 .. HeapLimit /\ a + Q \in 0 .. HeapLimit
    BY <1>1, <1>2, <1>3
  <2>2. /\ alloc_ptr' \in [Contexts -> 0 .. HeapLimit]
        /\ alloc_limit' \in [Contexts -> 0 .. HeapLimit]
    BY <1>0, <2>1 DEF TypeOK
  <2> QED  BY <1>0, <1>4, <2>2 DEF TypeOK, CountersOK, ObjectRecords
<1>7. \A d \in Contexts \ {c} : EmptyWindow(d)' <=> EmptyWindow(d)
  BY <1>5 DEF EmptyWindow
<1>8. ContextWindow'
  <2>1. InQuantum(c, [base |-> a, size |-> Q])'
    BY <1>2, <1>3, <1>5 DEF InQuantum
  <2>2. \A d \in Contexts \ {c}, e \in blocks :
          InQuantum(d, e) => InQuantum(d, e)'
    BY <1>5 DEF InQuantum
  <2> QED  BY <1>7, <2>1, <2>2 DEF IInv, ContextWindow
<1>9. WindowsAligned'
  <2>1. alloc_ptr'[c] % 8 = 0
    BY <1>2, <1>3, <1>5, AddAligned
  <2> QED  BY <1>5, <2>1 DEF IInv, WindowsAligned
<1>a. /\ \A p \in objects : \/ p.addr + p.size <= a
                            \/ a + Q <= p.addr - ObjectGap
      /\ \A d \in Contexts : \/ EmptyWindow(d)
                             \/ alloc_limit[d] <= a
                             \/ a + Q <= alloc_ptr[d] - ObjectGap
  BY <1>2, FreshApart
<1>10. WindowsFree'
  <2> SUFFICES ASSUME NEW d \in Contexts, NEW p \in objects \union {o},
                      ~EmptyWindow(d)'
               PROVE  \/ p.addr + p.size <= alloc_ptr'[d]
                      \/ alloc_limit'[d] <= p.addr - ObjectGap
    BY DEF WindowsFree
  <2>1. CASE d = c /\ p = o
    BY <1>2, <1>3, <1>5, <2>1
  <2>2. CASE d = c /\ p \in objects
    <3>1. p.addr + p.size <= a \/ a + Q <= p.addr - ObjectGap
      BY <1>a, <2>2
    <3> QED  BY <1>1, <1>2, <1>3, <1>5, <2>2, <3>1
  <2>3. CASE d # c /\ p = o
    <3>1. alloc_limit[d] <= a \/ a + Q <= alloc_ptr[d] - ObjectGap
      BY <1>7, <1>a, <2>3
    <3> QED  BY <1>1, <1>2, <1>3, <1>5, <2>3, <3>1
  <2>4. CASE d # c /\ p \in objects
    BY <1>5, <1>7, <2>4 DEF IInv, WindowsFree
  <2> QED  BY <2>1, <2>2, <2>3, <2>4
<1>11. WindowsApart'
  <2>1. ASSUME NEW d \in Contexts, d # c, ~EmptyWindow(d)'
        PROVE  \/ alloc_limit'[d] <= alloc_ptr'[c] - ObjectGap
               \/ alloc_limit'[c] <= alloc_ptr'[d] - ObjectGap
    <3>1. alloc_limit[d] <= a \/ a + Q <= alloc_ptr[d] - ObjectGap
      BY <1>7, <1>a, <2>1
    <3> QED  BY <1>1, <1>2, <1>3, <1>5, <2>1, <3>1
  <2>2. ASSUME NEW d \in Contexts, NEW e \in Contexts, d # c, e # c, d # e,
               ~EmptyWindow(d)', ~EmptyWindow(e)'
        PROVE  \/ alloc_limit'[d] <= alloc_ptr'[e] - ObjectGap
               \/ alloc_limit'[e] <= alloc_ptr'[d] - ObjectGap
    BY <1>5, <1>7, <2>2 DEF IInv, WindowsApart
  <2> QED  BY <2>1, <2>2 DEF WindowsApart
<1> QED  BY <1>4, <1>6, <1>8, <1>9, <1>10, <1>11 DEF IInv

-----------------------------------------------------------------------------
(* An Alloc is a failure or one of the three ways to get an object. *)
LEMMA AllocIInv ==
  ASSUME IInv, NEW c \in Contexts \union {NoContext}, NEW s \in Sizes,
         NEW oldHeap \in BOOLEAN, Alloc(c, s, oldHeap)
  PROVE  /\ IInv'
         /\ result' = NULL => UNCHANGED <<blocks, windows, counters>>
         /\ result' # NULL => objects' # objects
<1> USE GapIs8
<1> DEFINE o == [addr |-> result', size |-> s, context |-> c,
                 path |-> IF oldHeap THEN "uoh" ELSE "soh"]
<1>0. TypeOK
  BY DEF IInv
<1>1. /\ \A d \in Contexts : alloc_ptr[d] \in Nat /\ alloc_limit[d] \in Nat
      /\ HeapLimit \in Nat /\ SIZE_MAX \in Nat /\ HeapLimit <= SIZE_MAX
  BY <1>0, TypeFacts
<1>2. s \in Nat /\ s >= 8 /\ s <= SIZE_MAX
  BY SizesAssumption
<1>3. ugc_core_alloc(c, s, oldHeap, ObjectGap) /\ Account(c, s, oldHeap)
  BY DEF Alloc
<1>4. /\ alloc_bytes' \in [Contexts -> Nat]
      /\ alloc_bytes_uoh' \in [Contexts -> Nat]
      /\ allocatedBytes' \in Nat
  BY <1>0, <1>2, <1>3 DEF Account, TypeOK, counters
<1>5. ASSUME result' = NULL, UNCHANGED <<blocks, windows>>
      PROVE  /\ IInv'
             /\ result' = NULL => UNCHANGED <<blocks, windows, counters>>
             /\ result' # NULL => objects' # objects
  <2>1. UNCHANGED objects
    BY <1>5 DEF Alloc
  <2>2. CountersOK'
    BY <1>1, <1>4, <1>5 DEF CountersOK, NULL
  <2>3. UNCHANGED counters
    BY <1>3, <1>5 DEF Account
  <2> QED  BY <1>5, <2>1, <2>2, <2>3, NothingIInv
<1>6. ASSUME result' # NULL, result' \in 0 .. HeapLimit
      PROVE  /\ CountersOK'
             /\ objects' = objects \union {o}
             /\ o \in ObjectRecords
             /\ o.addr = result' /\ o.size = s
  <2>1. CountersOK'
    BY <1>4, <1>6 DEF CountersOK
  <2>2. objects' = objects \union {o}
    BY <1>6 DEF Alloc, Record
  <2>3. result' \in 1 .. HeapLimit
    BY <1>1, <1>6 DEF NULL
  <2> QED  BY <2>1, <2>2, <2>3 DEF ObjectRecords
<1> HIDE DEF o
<1>7. CASE Overflows(s, ObjectGap)
  <2>1. result' = NULL /\ UNCHANGED <<blocks, windows>>
    BY <1>3, <1>7 DEF ugc_core_alloc
  <2> QED  BY <1>5, <2>1
<1>8. CASE ~Overflows(s, ObjectGap)
  <2>1. s + ObjectGap <= SIZE_MAX /\ s + ObjectGap \in Nat
    BY <1>1, <1>2, <1>8 DEF Overflows
  <2>2. Wrap(s + ObjectGap) = s + ObjectGap
    BY <2>1, WrapSmall
  <2>3. CASE ugc_alloc_direct(s, ObjectGap)
    <3>1. PICK a \in FreePlaces(s + ObjectGap) \union {NULL} :
            /\ ugc_zalloc(s + ObjectGap, a)
            /\ result' = IF a = NULL THEN NULL ELSE a + ObjectGap
      BY <2>2, <2>3 DEF ugc_alloc_direct
    <3>2. UNCHANGED windows
      BY <2>3 DEF ugc_alloc_direct
    <3>3. NULL \notin FreePlaces(s + ObjectGap)
      <4>1. \A p \in FreePlaces(s + ObjectGap) : p >= 8
        BY <2>1, PlaceFacts
      <4> QED  BY <4>1 DEF NULL
    <3>4. CASE a = NULL
      BY <1>5, <3>1, <3>2, <3>3, <3>4 DEF ugc_zalloc
    <3>5. CASE a # NULL
      <4>1. /\ a \in FreePlaces(s + ObjectGap)
            /\ blocks' = blocks \union {[base |-> a, size |-> s + ObjectGap]}
            /\ result' = a + ObjectGap
        BY <3>1, <3>5 DEF ugc_zalloc
      <4>2. a \in Nat /\ a >= 8 /\ a + (s + ObjectGap) <= HeapLimit
        BY <2>1, <4>1, PlaceFacts
      <4>3. result' # NULL /\ result' \in 0 .. HeapLimit
        BY <1>1, <1>2, <4>1, <4>2 DEF NULL
      <4>4. o \notin objects
        BY <1>0, <1>2, <1>6, <2>1, <4>1, <4>2, <4>3, FreshApart, TypeFacts
      <4> QED  BY <1>6, <2>1, <3>2, <4>1, <4>3, <4>4, DirectIInv
    <3> QED  BY <3>4, <3>5
  <2>4. CASE /\ ~Bypasses(c, s, oldHeap, ObjectGap)
             /\ FitsWindow(c, s)
             /\ Bump(c, s)
    <3>1. c \in Contexts
      BY <2>4 DEF Bypasses
    <3>2. alloc_ptr[c] # NULL
      BY <2>4 DEF FitsWindow
    <3>3. PICK b \in blocks : InQuantum(c, b)
      BY <3>1, <3>2 DEF IInv, ContextWindow, EmptyWindow
    <3>4. alloc_limit[c] - alloc_ptr[c] \in Nat
      BY <1>1, <3>1, <3>3 DEF InQuantum
    <3>5. alloc_limit[c] - alloc_ptr[c] <= SIZE_MAX
      BY <1>0, <1>1, <3>1 DEF TypeOK
    <3>6. alloc_limit[c] - alloc_ptr[c] >= s
      BY <2>4, <3>4, <3>5, WrapSmall DEF FitsWindow
    <3>7. alloc_ptr[c] + s <= alloc_limit[c]
      BY <1>1, <1>2, <3>1, <3>6
    <3>8. /\ alloc_ptr' = [alloc_ptr EXCEPT ![c] = alloc_ptr[c] + s]
          /\ result' = alloc_ptr[c]
          /\ UNCHANGED <<blocks, alloc_limit>>
      BY <2>4 DEF Bump
    <3>9. result' # NULL /\ result' \in 0 .. HeapLimit
      BY <1>0, <3>1, <3>2, <3>8 DEF TypeOK
    <3>10. \A p \in objects : \/ p.addr + p.size <= alloc_ptr[c]
                              \/ alloc_limit[c] <= p.addr - ObjectGap
      BY <3>1, <3>2 DEF IInv, WindowsFree, EmptyWindow
    <3>11. o \notin objects
      BY <1>0, <1>1, <1>2, <1>6, <3>1, <3>7, <3>8, <3>9, <3>10, TypeFacts
    <3> QED  BY <1>6, <3>1, <3>2, <3>7, <3>8, <3>9, <3>11, BumpIInv
  <2>5. CASE /\ ~Bypasses(c, s, oldHeap, ObjectGap)
             /\ ugc_ctx_refill(c, s, ObjectGap)
    <3>1. c \in Contexts /\ ~(s + ObjectGap > UGC_ALLOC_QUANTUM)
      BY <2>2, <2>5 DEF Bypasses
    <3>2. s + ObjectGap <= UGC_ALLOC_QUANTUM /\ UGC_ALLOC_QUANTUM \in Nat
      BY <1>2, <3>1, QuantumAssumption
    <3>3. PICK a \in FreePlaces(UGC_ALLOC_QUANTUM) \union {NULL} :
            /\ ugc_zalloc(UGC_ALLOC_QUANTUM, a)
            /\ \/ a = NULL /\ result' = NULL /\ UNCHANGED windows
               \/ /\ a # NULL
                  /\ alloc_ptr' = [alloc_ptr EXCEPT ![c] = a + ObjectGap + s]
                  /\ alloc_limit' =
                       [alloc_limit EXCEPT ![c] = a + UGC_ALLOC_QUANTUM]
                  /\ result' = a + ObjectGap
      BY <2>5 DEF ugc_ctx_refill
    <3>4. NULL \notin FreePlaces(UGC_ALLOC_QUANTUM)
      <4>1. \A p \in FreePlaces(UGC_ALLOC_QUANTUM) : p >= 8
        BY <3>2, PlaceFacts
      <4> QED  BY <4>1 DEF NULL
    <3>5. CASE a = NULL
      BY <1>5, <3>3, <3>4, <3>5 DEF ugc_zalloc
    <3>6. CASE a # NULL
      <4>1. /\ a \in FreePlaces(UGC_ALLOC_QUANTUM)
            /\ blocks' = blocks \union {[base |-> a,
                                        size |-> UGC_ALLOC_QUANTUM]}
        BY <3>3, <3>6 DEF ugc_zalloc
      <4>2. a \in Nat /\ a >= 8 /\ a + UGC_ALLOC_QUANTUM <= HeapLimit
        BY <3>2, <4>1, PlaceFacts
      <4>3. result' # NULL /\ result' \in 0 .. HeapLimit
        BY <1>1, <1>2, <3>2, <3>3, <3>6, <4>2 DEF NULL
      <4>4. o \notin objects
        BY <1>0, <1>2, <1>6, <3>2, <3>3, <3>6, <4>1, <4>2, <4>3, FreshApart,
           TypeFacts
      <4> QED  BY <1>6, <3>1, <3>2, <3>3, <3>6, <4>1, <4>3, <4>4, RefillIInv
    <3> QED  BY <3>5, <3>6
  <2> QED  BY <1>3, <1>8, <2>3, <2>4, <2>5 DEF ugc_core_alloc
<1> QED  BY <1>7, <1>8

(* The runtime's own bump. *)
LEMMA FastAllocIInv ==
  ASSUME IInv, NEW c \in Contexts, NEW s \in Sizes, FastAlloc(c, s)
  PROVE  IInv' /\ objects' # objects
<1> USE GapIs8
<1> DEFINE o == [addr |-> alloc_ptr[c], size |-> s, context |-> c,
                 path |-> "fast"]
<1>0. TypeOK
  BY DEF IInv
<1>1. /\ alloc_ptr[c] \in Nat /\ alloc_limit[c] \in Nat
      /\ HeapLimit \in Nat
      /\ \A p \in objects : p.addr \in Nat /\ p.size \in Nat /\ p.size >= 8
  BY <1>0, TypeFacts
<1>2. s \in Nat /\ s >= 8
  BY SizesAssumption
<1>3. alloc_ptr[c] + s <= alloc_limit[c]
  BY DEF FastAlloc
<1>4. alloc_ptr[c] # NULL /\ ~EmptyWindow(c)
  <2>1. ~EmptyWindow(c)
    BY <1>1, <1>2, <1>3 DEF EmptyWindow, NULL
  <2>2. PICK b \in blocks : InQuantum(c, b)
    BY <2>1 DEF IInv, ContextWindow
  <2>3. b.base \in Nat
    BY <1>0, TypeFacts
  <2> QED  BY <1>1, <2>1, <2>2, <2>3 DEF InQuantum, NULL
<1>5. /\ alloc_ptr' = [alloc_ptr EXCEPT ![c] = alloc_ptr[c] + s]
      /\ UNCHANGED <<blocks, alloc_limit>>
      /\ objects' = objects \union {o}
  BY DEF FastAlloc, Record
<1>6. CountersOK'
  BY <1>0 DEF FastAlloc, CountersOK, TypeOK, counters
<1>7. o \in ObjectRecords /\ o.addr = alloc_ptr[c] /\ o.size = s
  <2>1. alloc_ptr[c] \in 1 .. HeapLimit
    BY <1>0, <1>1, <1>4 DEF TypeOK, NULL
  <2> QED  BY <2>1 DEF ObjectRecords
<1> HIDE DEF o
<1>8. o \notin objects
  <2>1. \A p \in objects : \/ p.addr + p.size <= alloc_ptr[c]
                          \/ alloc_limit[c] <= p.addr - ObjectGap
    BY <1>4 DEF IInv, WindowsFree
  <2> QED  BY <1>1, <1>2, <1>3, <1>7, <2>1
<1>9. IInv'
  BY <1>3, <1>4, <1>5, <1>6, <1>7, BumpIInv
<1> QED  BY <1>5, <1>8, <1>9

(* Every step of the runtime and of Alloc keeps the invariant. *)
LEMMA NextIInv == IInv /\ [Next]_vars => IInv'
<1> SUFFICES ASSUME IInv, [Next]_vars PROVE IInv'
  OBVIOUS
<1>1. CASE Next
  BY <1>1, AllocIInv, FastAllocIInv DEF Next
<1>2. CASE UNCHANGED vars
  <2>1. CountersOK'
    BY <1>2 DEF IInv, TypeOK, CountersOK, vars
  <2> QED  BY <1>2, <2>1, NothingIInv DEF vars, windows
<1> QED  BY <1>1, <1>2

-----------------------------------------------------------------------------
(* The inductive invariant holds in every reachable state of Alloc and the *)
(* runtime's fast path, for any contexts, sizes and quantum.               *)
THEOREM AllocInvariant == Spec => []IInv
BY InitIInv, NextIInv, PTL DEF Spec

(* For every configuration the variables keep their types: no pointer      *)
(* leaves the heap and no block has more bytes than a size_t counts.       *)
THEOREM AllocTypeOK == Spec => []TypeOK
<1>1. IInv => TypeOK
  BY DEF IInv
<1> QED  BY <1>1, AllocInvariant, PTL

(* The unchecked precondition context_window of ugc_core_alloc holds at    *)
(* every call.                                                             *)
THEOREM AllocContextWindow == Spec => []ContextWindow
<1>1. IInv => ContextWindow
  BY DEF IInv
<1> QED  BY <1>1, AllocInvariant, PTL

(* Every object lies in memory that calloc returned, header included.      *)
THEOREM AllocInBlocks == Spec => []ObjectsInBlocks
<1>1. IInv => ObjectsInBlocks
  BY DEF IInv
<1> QED  BY <1>1, AllocInvariant, PTL

(* Every object is 8-byte aligned, with 4-byte headers too.                *)
THEOREM AllocAligned == Spec => []ObjectsAligned
<1>1. IInv => ObjectsAligned
  BY DEF IInv
<1> QED  BY <1>1, AllocInvariant, PTL

(* No two objects share a byte, whichever contexts and paths they are of.  *)
THEOREM AllocDisjoint == Spec => []ObjectsDisjoint
<1>1. IInv => ObjectsDisjoint
  BY DEF IInv
<1> QED  BY <1>1, AllocInvariant, PTL

(* A failed Alloc leaves no trace.                                         *)
THEOREM AllocFailureHarmless == Spec => FailedAllocChangesNothing
<1>1. IInv /\ [Next]_vars =>
        [result' = NULL /\ objects' = objects
           => UNCHANGED <<blocks, windows, counters>>]_vars
  BY AllocIInv, FastAllocIInv DEF Next
<1> QED  BY <1>1, AllocInvariant, PTL DEF Spec, FailedAllocChangesNothing

-----------------------------------------------------------------------------
(* The abstract heap.  The inductive invariant in the state after a call   *)
(* says that the object it served is aligned, in memory and apart from the *)
(* others; that it is not one of them is the second half of the lemmas on  *)
(* steps.                                                                  *)

(* Placed forgets the context and the path of an object. *)
LEMMA PlacedAdd ==
  ASSUME NEW o, objects' = objects \union {o}
  PROVE  Placed' = Placed \union {[addr |-> o.addr, size |-> o.size]}
BY DEF Placed

(* An object that a step adds has one of the places of the abstract heap.  *)
LEMMA NewObjectPlace ==
  ASSUME IInv, IInv', NEW o \in ObjectRecords, o \notin objects,
         objects' = objects \union {o}
  PROVE  o.addr \in Heap!Places(o.size)
<1> USE GapIs8
<1>0. TypeOK
  BY DEF IInv
<1>1. /\ o.addr \in 1 .. HeapLimit
      /\ o.size \in Nat
      /\ HeapLimit \in Nat
      /\ \A p \in objects : p.addr \in Nat /\ p.size \in Nat
  BY <1>0, TypeFacts, SizesAssumption DEF ObjectRecords
<1>2. o \in objects'
  OBVIOUS
<1>3. o.addr % 8 = 0
  BY <1>2 DEF IInv, ObjectsAligned
<1>4. ObjectGap < o.addr /\ o.addr + o.size <= HeapLimit
  <2>1. PICK b \in blocks' : InBlock(o, b)
    BY <1>2 DEF IInv, ObjectsInBlocks, InBlock
  <2>2. b.base \in 1 .. HeapLimit /\ b.size \in 1 .. SIZE_MAX
    BY DEF IInv, TypeOK
  <2>3. b.base + b.size <= HeapLimit
    BY DEF IInv, BlocksInHeap
  <2> QED  BY <1>1, <2>1, <2>2, <2>3, AddressAssumption DEF InBlock
<1>5. ASSUME NEW q \in Placed PROVE Heap!Apart(o.addr, o.size, q)
  <2>1. PICK p \in objects : q = [addr |-> p.addr, size |-> p.size]
    BY DEF Placed
  <2>2. o # p /\ p \in objects'
    OBVIOUS
  <2>3. Disjoint(o.addr - ObjectGap, o.size, p.addr - ObjectGap, p.size)
    BY <1>2, <2>2 DEF IInv, ObjectsDisjoint
  <2> QED  BY <1>1, <2>1, <2>3 DEF Disjoint, Heap!Apart
<1> QED  BY <1>1, <1>3, <1>4, <1>5 DEF Heap!Places

(* A call of Alloc serves a new object and counts it, or fails.            *)
LEMMA AllocServes ==
  ASSUME IInv, NEW c \in Contexts \union {NoContext}, NEW s \in Sizes,
         NEW oldHeap \in BOOLEAN, Alloc(c, s, oldHeap)
  PROVE  Heap!Fail \/ Heap!Serve(s)
<1>1. IInv'
  BY AllocIInv
<1>2. CASE result' = NULL
  <2>1. UNCHANGED counters /\ UNCHANGED objects
    BY <1>2, AllocIInv DEF Alloc
  <2> QED  BY <1>2, <2>1 DEF counters, Placed, Heap!Fail
<1>3. CASE result' # NULL
  <2> DEFINE o == [addr |-> result', size |-> s, context |-> c,
                   path |-> IF oldHeap THEN "uoh" ELSE "soh"]
  <2>1. objects' = objects \union {o} /\ objects' # objects
    BY <1>3, AllocIInv DEF Alloc, Record
  <2>2. allocatedBytes' = allocatedBytes + s
    BY <1>3 DEF Alloc, Account
  <2>3. result' \in 1 .. HeapLimit
    BY <1>1, <1>3, AddressAssumption DEF IInv, TypeOK, NULL
  <2>4. o \in ObjectRecords /\ o.addr = result' /\ o.size = s
    BY <2>3 DEF ObjectRecords
  <2> HIDE DEF o
  <2>5. result' \in Heap!Places(s)
    BY <1>1, <2>1, <2>4, NewObjectPlace
  <2>6. Placed' = Placed \union {[addr |-> result', size |-> s]}
    BY <2>1, <2>4, PlacedAdd
  <2> QED  BY <2>2, <2>5, <2>6 DEF Heap!Serve, Heap!Add
<1> QED  BY <1>2, <1>3

(* The runtime's own bump adds an object that is not counted.              *)
LEMMA FastAllocServes ==
  ASSUME IInv, NEW c \in Contexts, NEW s \in Sizes, FastAlloc(c, s)
  PROVE  Heap!ServeInline(s)
<1> DEFINE o == [addr |-> alloc_ptr[c], size |-> s, context |-> c,
                 path |-> "fast"]
<1>1. IInv' /\ objects' # objects
  BY FastAllocIInv
<1>2. objects' = objects \union {o}
  BY DEF FastAlloc, Record
<1>3. o \in objects' /\ o \notin objects
  BY <1>1, <1>2
<1>4. o \in ObjectRecords /\ o.addr = alloc_ptr[c] /\ o.size = s
  BY <1>1, <1>3 DEF IInv, TypeOK, ObjectRecords
<1>5. UNCHANGED <<allocatedBytes, result>>
  BY DEF FastAlloc, counters
<1> HIDE DEF o
<1>6. alloc_ptr[c] \in Heap!Places(s)
  BY <1>1, <1>2, <1>3, <1>4, NewObjectPlace
<1>7. Placed' = Placed \union {[addr |-> alloc_ptr[c], size |-> s]}
  BY <1>2, <1>4, PlacedAdd
<1> QED  BY <1>5, <1>6, <1>7 DEF Heap!ServeInline, Heap!Add

(* For every configuration, number of contexts and placement by calloc,    *)
(* allocation implements the abstract heap: every object is new and        *)
(* counted once, and a failure is visible in the result only.              *)
THEOREM AllocImplementsHeap == Spec => ImplementsHeap
<1>1. Init => Heap!HeapInit
  BY DEF Init, Heap!HeapInit, Placed
<1>2. IInv /\ [Next]_vars => [Heap!HeapNext]_(Heap!heapVars)
  <2> SUFFICES ASSUME IInv, [Next]_vars
               PROVE  [Heap!HeapNext]_(Heap!heapVars)
    OBVIOUS
  <2>1. CASE Next
    BY <2>1, AllocServes, FastAllocServes DEF Next, Heap!HeapNext
  <2>2. CASE UNCHANGED vars
    BY <2>2 DEF vars, Heap!heapVars, Placed
  <2> QED  BY <2>1, <2>2
<1> QED  BY <1>1, <1>2, AllocInvariant, PTL
         DEF Spec, ImplementsHeap, Heap!HeapSpec

-----------------------------------------------------------------------------
(* The counters.  A counter is the number of bytes its objects own, and an *)
(* object that a step adds owns bytes that no other does: the count grows  *)
(* by its size.                                                            *)

Owned(S) == UNION {Extent(o) : o \in S}

(* What objects own lies in the heap, so it can be counted. *)
LEMMA OwnedInHeap ==
  ASSUME IInv, NEW S, S \subseteq objects
  PROVE  /\ Owned(S) \subseteq 1 .. HeapLimit
         /\ IsFiniteSet(Owned(S))
         /\ Cardinality(Owned(S)) \in 0 .. HeapLimit
<1>0. TypeOK
  BY DEF IInv
<1>1. ASSUME NEW o \in objects PROVE Extent(o) \subseteq 1 .. HeapLimit
  <2>1. PICK b \in blocks : InBlock(o, b)
    BY DEF IInv, ObjectsInBlocks
  <2>2. b.base \in Nat /\ b.size \in Nat /\ b.base >= 1
    BY <1>0, TypeFacts
  <2>3. b.base + b.size <= HeapLimit
    BY DEF IInv, BlocksInHeap
  <2>4. o.addr \in Nat /\ o.size \in Nat /\ HeapLimit \in Nat
    BY <1>0, TypeFacts
  <2> QED  BY <2>1, <2>2, <2>3, <2>4, GapIs8 DEF InBlock, Extent
<1>2. Owned(S) \subseteq 1 .. HeapLimit
  BY <1>1 DEF Owned
<1>3. HeapLimit \in Nat
  BY AddressAssumption
<1>4. IsFiniteSet(1 .. HeapLimit) /\ Cardinality(1 .. HeapLimit) = HeapLimit
  BY <1>3, FS_Interval
<1>5. IsFiniteSet(Owned(S)) /\ Cardinality(Owned(S)) <= HeapLimit
  BY <1>2, <1>4, FS_Subset
<1>6. Cardinality(Owned(S)) \in Nat
  BY <1>5, FS_CardinalityType
<1> QED  BY <1>2, <1>3, <1>5, <1>6

(* The bytes of a new object are counted on top of the others. *)
LEMMA BytesAdd ==
  ASSUME IInv, IInv', NEW o \in ObjectRecords, o \notin objects,
         objects' = objects \union {o},
         NEW S, S \subseteq objects
  PROVE  Bytes(S \union {o}) = Bytes(S) + o.size
<1> USE GapIs8
<1>0. TypeOK
  BY DEF IInv
<1>1. /\ o.addr \in Nat
      /\ o.size \in Nat /\ o.size >= 8
      /\ \A p \in objects : p.addr \in Nat /\ p.size \in Nat
  BY <1>0, TypeFacts, SizesAssumption, AddressAssumption DEF ObjectRecords
<1>2. Owned(S) \cap Extent(o) = {}
  <2>1. ASSUME NEW p \in S, NEW n \in Extent(p), n \in Extent(o)
        PROVE  FALSE
    <3>1. p \in objects /\ p \in objects' /\ o \in objects' /\ o # p
      OBVIOUS
    <3>2. Disjoint(o.addr - ObjectGap, o.size, p.addr - ObjectGap, p.size)
      BY <3>1 DEF IInv, ObjectsDisjoint
    <3> QED  BY <1>1, <2>1, <3>1, <3>2 DEF Extent, Disjoint
  <2> QED  BY <2>1 DEF Owned
<1>3. Owned(S \union {o}) = Owned(S) \union Extent(o)
  BY DEF Owned
<1>4. IsFiniteSet(Owned(S)) /\ Cardinality(Owned(S)) \in Nat
  BY OwnedInHeap
<1>5. IsFiniteSet(Extent(o)) /\ Cardinality(Extent(o)) = o.size
  <2> DEFINE first == o.addr - ObjectGap
             last == first + o.size - 1
  <2>1. first \in Int /\ last \in Int /\ first <= last
    BY <1>1
  <2>2. last - first + 1 = o.size
    BY <1>1
  <2>3. Extent(o) = first .. last
    BY DEF Extent
  <2> HIDE DEF first, last
  <2>4. IsFiniteSet(first .. last) /\
        Cardinality(first .. last) = last - first + 1
    BY <2>1, FS_Interval
  <2> QED  BY <2>2, <2>3, <2>4
<1>6. Cardinality(Owned(S \union {o})) =
        Cardinality(Owned(S)) + o.size - Cardinality({})
  BY <1>2, <1>3, <1>4, <1>5, FS_Union
<1> QED  BY <1>1, <1>4, <1>6, FS_EmptySet DEF Bytes, Owned

(* Nothing is counted while nothing is served. *)
LEMMA InitCounters == Init => CountersExact
<1>1. Bytes({}) = 0
  <2>1. UNION {Extent(o) : o \in {}} = {}
    OBVIOUS
  <2> QED  BY <2>1, FS_EmptySet DEF Bytes
<1> QED  BY <1>1 DEF Init, CountersExact, Served

(* A served object is counted for the heap, and for one context.           *)
LEMMA AllocCounters ==
  ASSUME IInv, CountersExact, NEW c \in Contexts \union {NoContext},
         NEW s \in Sizes, NEW oldHeap \in BOOLEAN, Alloc(c, s, oldHeap)
  PROVE  CountersExact'
<1>1. IInv'
  BY AllocIInv
<1>2. CASE result' = NULL
  <2>1. UNCHANGED counters /\ UNCHANGED objects
    BY <1>2, AllocIInv DEF Alloc
  <2> QED  BY <2>1 DEF counters, CountersExact, Served
<1>3. CASE result' # NULL
  <2> DEFINE path == IF oldHeap THEN "uoh" ELSE "soh"
             o == [addr |-> result', size |-> s, context |-> c, path |-> path]
  <2>1. objects' = objects \union {o} /\ o \notin objects
    BY <1>3, AllocIInv DEF Alloc, Record
  <2>2. result' \in 1 .. HeapLimit
    BY <1>1, <1>3, AddressAssumption DEF IInv, TypeOK, NULL
  <2>3. /\ o \in ObjectRecords
        /\ o.size = s /\ o.context = c /\ o.path = path
        /\ path # "fast" /\ (path = "soh" <=> ~oldHeap)
        /\ (path = "uoh" <=> oldHeap)
    BY <2>2 DEF ObjectRecords
  <2> HIDE DEF o, path
  <2>4. ASSUME NEW S, S \subseteq objects
        PROVE  Bytes(S \union {o}) = Bytes(S) + s
    BY <1>1, <2>1, <2>3, <2>4, BytesAdd
  <2>5. {p \in objects' : p.path # "fast"} =
          {p \in objects : p.path # "fast"} \union {o}
    BY <2>1, <2>3
  <2>6. allocatedBytes' = Bytes({p \in objects' : p.path # "fast"})
    <3>1. Bytes({p \in objects : p.path # "fast"} \union {o}) =
            Bytes({p \in objects : p.path # "fast"}) + s
      BY <2>4
    <3>2. allocatedBytes' = allocatedBytes + s
      BY <1>3 DEF Alloc, Account
    <3> QED  BY <2>5, <3>1, <3>2 DEF CountersExact
  <2>7. \A d \in Contexts, q \in {"soh", "uoh"} :
          Served(d, q)' = IF d = c /\ q = path THEN Served(d, q) \union {o}
                                               ELSE Served(d, q)
    BY <2>1, <2>3 DEF Served
  <2>8. \A d \in Contexts, q \in {"soh", "uoh"} :
          Bytes(Served(d, q))' =
            IF d = c /\ q = path THEN Bytes(Served(d, q)) + s
                                 ELSE Bytes(Served(d, q))
    <3> SUFFICES ASSUME NEW d \in Contexts, NEW q \in {"soh", "uoh"}
                 PROVE  Bytes(Served(d, q)') =
                          IF d = c /\ q = path THEN Bytes(Served(d, q)) + s
                                               ELSE Bytes(Served(d, q))
      BY DEF Bytes, Extent
    <3>1. Bytes(Served(d, q) \union {o}) = Bytes(Served(d, q)) + s
      BY <2>4 DEF Served
    <3> QED  BY <2>7, <3>1
  <2>9. ASSUME NEW d \in Contexts
        PROVE  /\ alloc_bytes'[d] = Bytes(Served(d, "soh"))'
               /\ alloc_bytes_uoh'[d] = Bytes(Served(d, "uoh"))'
    <3>1. /\ alloc_bytes[d] = Bytes(Served(d, "soh"))
          /\ alloc_bytes_uoh[d] = Bytes(Served(d, "uoh"))
      BY DEF CountersExact
    <3>2. /\ alloc_bytes'[d] =
               IF d = c /\ ~oldHeap THEN alloc_bytes[d] + s ELSE alloc_bytes[d]
          /\ alloc_bytes_uoh'[d] = IF d = c /\ oldHeap
               THEN alloc_bytes_uoh[d] + s ELSE alloc_bytes_uoh[d]
      BY <1>3, ContextAssumption DEF Alloc, Account, IInv, TypeOK
    <3> QED  BY <2>3, <2>8, <3>1, <3>2
  <2> QED  BY <2>6, <2>9 DEF CountersExact, Bytes, Extent
<1> QED  BY <1>2, <1>3

(* The runtime's own bump is not counted. *)
LEMMA FastAllocCounters ==
  ASSUME CountersExact, NEW c \in Contexts, NEW s \in Sizes, FastAlloc(c, s)
  PROVE  CountersExact'
<1> DEFINE o == [addr |-> alloc_ptr[c], size |-> s, context |-> c,
                 path |-> "fast"]
<1>1. objects' = objects \union {o} /\ o.path = "fast"
  BY DEF FastAlloc, Record
<1> HIDE DEF o
<1>2. /\ {p \in objects' : p.path # "fast"} = {p \in objects : p.path # "fast"}
      /\ \A d \in Contexts, q \in {"soh", "uoh"} : Served(d, q)' = Served(d, q)
  BY <1>1 DEF Served
<1>3. UNCHANGED counters
  BY DEF FastAlloc
<1> QED  BY <1>2, <1>3 DEF CountersExact, counters, Bytes, Extent

(* For every configuration, whatever calls failed and whatever the runtime *)
(* allocated inline in between, each counter is the number of bytes that   *)
(* its objects own.                                                        *)
THEOREM AllocCountersExact == Spec => []CountersExact
<1>1. IInv /\ CountersExact /\ [Next]_vars => CountersExact'
  <2> SUFFICES ASSUME IInv, CountersExact, [Next]_vars PROVE CountersExact'
    OBVIOUS
  <2>1. CASE Next
    BY <2>1, AllocCounters, FastAllocCounters DEF Next
  <2>2. CASE UNCHANGED vars
    BY <2>2 DEF vars, CountersExact, Served, Bytes, Extent
  <2> QED  BY <2>1, <2>2
<1> QED  BY <1>1, InitCounters, AllocInvariant, PTL DEF Spec

(* What is counted lies in memory, and a size_t can count memory. *)
LEMMA BytesInUse ==
  ASSUME IInv, CountersExact
  PROVE  BytesInUseExact /\ allocatedBytes \in 0 .. HeapLimit
<1>1. allocatedBytes = Cardinality(Owned({o \in objects : o.path # "fast"}))
  BY DEF CountersExact, Bytes, Owned
<1>2. allocatedBytes \in 0 .. HeapLimit
  BY <1>1, OwnedInHeap
<1>3. allocatedBytes \in Nat /\ allocatedBytes <= SIZE_MAX
  BY <1>2, AddressAssumption
<1> QED  BY <1>2, <1>3, WrapSmall DEF BytesInUseExact, GetTotalBytesInUse

(* For every configuration the 64-bit count fits a size_t, so that         *)
(* GetTotalBytesInUse returns all of it on 32-bit targets too.             *)
THEOREM AllocBytesInUseExact == Spec => []BytesInUseExact
BY BytesInUse, AllocInvariant, AllocCountersExact, PTL

=============================================================================
