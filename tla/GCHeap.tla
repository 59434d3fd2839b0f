------------------------------- MODULE GCHeap -------------------------------
(***************************************************************************)
(* The whole of the IGCHeap interface, ugc/uGCHeap.cpp: allocation, from   *)
(* CoreAlloc; the frozen segments; the memory reports; and the methods     *)
(* that do nothing, or return a constant, because nothing is ever          *)
(* collected, finalized, waited for or walked.  The runtime calls them in  *)
(* any order between its allocations.                                      *)
(*                                                                         *)
(* The variable answer holds the method called last and its value, Void    *)
(* where there is none; symbolic constants of the interface are strings.   *)
(***************************************************************************)
EXTENDS CoreAlloc, Sequences

CONSTANTS
  Segments,          \* frozen segments of the program image
  MaxRegistrations   \* bound on the calls of RegisterFrozenSegment

ASSUME RegistrationsAssumption == MaxRegistrations \in Nat

VARIABLES
  registeredSegments,  \* the count that becomes the next segment handle
  segmentHandle,       \* history: the handle the runtime holds, or NULL
  answer               \* the last call and what it returned

segmentVars == <<registeredSegments, segmentHandle>>
gcVars == <<vars, segmentVars, answer>>

Void == "void"
Answer(method, value) == answer' = [method |-> method, value |-> value]

GCInit ==
  /\ Init
  /\ registeredSegments = 0
  /\ segmentHandle = [g \in Segments |-> NULL]
  /\ answer = [method |-> "uGCHeap", value |-> Void]

-----------------------------------------------------------------------------
(* Methods that change nothing and return the same value every time, in    *)
(* the order of the source.                                                *)

HostingMethods ==
  [IsValidSegmentSize |-> FALSE, IsValidGen0MaxSize |-> FALSE,
   GetValidSegmentSize |-> 0, SetReservedVMLimit |-> Void,
   WaitUntilConcurrentGCComplete |-> Void, IsConcurrentGCInProgress |-> FALSE,
   TemporaryEnableConcurrentGC |-> Void, TemporaryDisableConcurrentGC |-> Void,
   IsConcurrentGCEnabled |-> FALSE,
   WaitUntilConcurrentGCCompleteAsync |-> "E_NOTIMPL",
   GetNumberOfFinalizable |-> 0, GetNextFinalizable |-> NULL]

ModeMethods ==
  [GetMemoryLoad |-> 0, GetGcLatencyMode |-> 0, SetGcLatencyMode |-> 0,
   GetLOHCompactionMode |-> 0, SetLOHCompactionMode |-> Void,
   RegisterForFullGCNotification |-> FALSE, CancelFullGCNotification |-> FALSE,
   WaitForFullGCApproach |-> "wait_full_gc_na",
   WaitForFullGCComplete |-> "wait_full_gc_na",
   WhichGeneration |-> 0, CollectionCount |-> 0, StartNoGCRegion |-> 0,
   EndNoGCRegion |-> 0]

FinalizationMethods ==
  [GetMaxGeneration |-> 2, SetFinalizationRun |-> Void,
   RegisterForFinalization |-> TRUE, GetLastGCPercentTimeInGC |-> 1,
   GetLastGCGenerationSize |-> 1, Initialize |-> "NOERROR",
   IsPromoted |-> TRUE]

StateMethods ==
  [GetCondemnedGeneration |-> 0, IsGCInProgressHelper |-> FALSE,
   GetGcCount |-> 0, IsThreadUsingAllocationContextHeap |-> FALSE,
   IsEphemeral |-> FALSE, WaitUntilGCComplete |-> 0]

SuspensionMethods ==
  [SetGCInProgress |-> Void, RuntimeStructuresValid |-> TRUE,
   SetSuspensionPending |-> Void, SetYieldProcessorScalingFactor |-> Void,
   Shutdown |-> Void, GetLastGCStartTime |-> 0, GetLastGCDuration |-> 0,
   GetNow |-> 0]

WalkMethods ==
  [PublishObject |-> Void, SetWaitForGCEvent |-> Void,
   ResetWaitForGCEvent |-> Void, IsLargeObject |-> FALSE,
   ValidateObjectMember |-> Void, NextObj |-> NULL,
   GetContainingObject |-> NULL, DiagWalkObject |-> Void,
   DiagWalkObject2 |-> Void, DiagWalkHeap |-> Void,
   DiagWalkSurvivorsWithType |-> Void, DiagWalkFinalizeQueue |-> Void,
   DiagScanFinalizeQueue |-> Void, DiagScanHandles |-> Void,
   DiagScanDependentHandles |-> Void, DiagDescrGenerations |-> Void,
   DiagTraceGCSegments |-> Void, DiagGetGCSettings |-> Void,
   StressHeap |-> FALSE]

EventMethods ==
  [IsInFrozenSegment |-> FALSE, ControlEvents |-> Void,
   ControlPrivateEvents |-> Void, GetGenerationWithRange |-> 0,
   GetTotalPauseDuration |-> 0, EnumerateConfigurationValues |-> Void,
   UpdateFrozenSegment |-> Void, RefreshMemoryLimit |-> 0,
   EnableNoGCRegionCallback |-> "succeed",
   GetExtraWorkForFinalization |-> NULL, GetGenerationBudget |-> 0,
   GetLOHThreshold |-> "LARGE_OBJECT_SIZE",
   DiagWalkHeapWithACHandling |-> Void, NullBridgeObjectsWeakRefs |-> Void]

ConstantMethods ==
  <<HostingMethods, ModeMethods, FinalizationMethods, StateMethods,
    SuspensionMethods, WalkMethods, EventMethods>>

CallConstant(group, method) ==
  /\ Answer(method, group[method])
  /\ UNCHANGED <<vars, segmentVars>>

(* Every non-null pointer is taken for one of the heap's. *)
IsHeapPointer(object) ==
  /\ Answer("IsHeapPointer", object # NULL)
  /\ UNCHANGED <<vars, segmentVars>>

-----------------------------------------------------------------------------
(* A request to collect, and the end of a thread's use of its context,     *)
(* change nothing: what is allocated stays, and so does the window.        *)

GarbageCollect ==
  /\ Answer("GarbageCollect", "NOERROR")
  /\ UNCHANGED <<vars, segmentVars>>

FixAllocContext(c) ==
  /\ Answer("FixAllocContext", Void)
  /\ UNCHANGED <<vars, segmentVars>>

-----------------------------------------------------------------------------
(* The memory reports. *)

\* Mutant: the committed bytes are rounded up to whole quanta.
GetMemoryInfo_WholeQuanta ==
  [lastRecordedHeapSizeBytes |-> allocatedBytes,
   totalCommittedBytes |->
     UGC_ALLOC_QUANTUM *
       ((allocatedBytes + UGC_ALLOC_QUANTUM - 1) \div UGC_ALLOC_QUANTUM)]

(* The fields that are not the constant 0 (or false). *)
GetMemoryInfo ==
  [lastRecordedHeapSizeBytes |-> allocatedBytes,
   totalCommittedBytes |-> allocatedBytes]

GetTotalAllocatedBytes == allocatedBytes
GetCurrentObjSize == Wrap(allocatedBytes)

Report ==
  /\ \/ Answer("GetMemoryInfo", GetMemoryInfo)
     \/ Answer("GetTotalBytesInUse", GetTotalBytesInUse)
     \/ Answer("GetTotalAllocatedBytes", GetTotalAllocatedBytes)
     \/ Answer("GetCurrentObjSize", GetCurrentObjSize)
  /\ UNCHANGED <<vars, segmentVars>>

-----------------------------------------------------------------------------
(* Frozen segments: the handle is a running number, and unregistering does *)
(* not take it back.  The runtime registers a segment it holds no handle   *)
(* of.                                                                     *)

RegisterFrozenSegment(g) ==
  /\ segmentHandle[g] = NULL
  /\ registeredSegments < MaxRegistrations
  /\ registeredSegments' = registeredSegments + 1
  /\ Answer("RegisterFrozenSegment", registeredSegments')
  /\ segmentHandle' = [segmentHandle EXCEPT ![g] = registeredSegments']
  /\ UNCHANGED vars

\* Mutant: the count follows the registered segments.
Unregister_CountsDown(g) ==
  /\ segmentHandle[g] # NULL
  /\ registeredSegments' = registeredSegments - 1
  /\ segmentHandle' = [segmentHandle EXCEPT ![g] = NULL]
  /\ Answer("UnregisterFrozenSegment", Void)
  /\ UNCHANGED vars

UnregisterFrozenSegment(g) ==
  /\ segmentHandle[g] # NULL
  /\ segmentHandle' = [segmentHandle EXCEPT ![g] = NULL]
  /\ Answer("UnregisterFrozenSegment", Void)
  /\ UNCHANGED <<vars, registeredSegments>>

-----------------------------------------------------------------------------
Allocate ==
  /\ \E c \in Contexts \union {NoContext}, s \in Sizes, oldHeap \in BOOLEAN :
       Alloc(c, s, oldHeap)
  /\ Answer("Alloc", result')
  /\ UNCHANGED segmentVars

(* No call: the runtime allocates from the window itself. *)
InlineAllocate ==
  /\ \E c \in Contexts, s \in Sizes : FastAlloc(c, s)
  /\ UNCHANGED <<segmentVars, answer>>

GCNext ==
  \/ Allocate
  \/ InlineAllocate
  \/ \E k \in 1 .. Len(ConstantMethods) :
       \E m \in DOMAIN ConstantMethods[k] : CallConstant(ConstantMethods[k], m)
  \/ \E o \in {NULL} \union {p.addr : p \in objects} : IsHeapPointer(o)
  \/ GarbageCollect
  \/ \E c \in Contexts : FixAllocContext(c)
  \/ Report
  \/ \E g \in Segments : RegisterFrozenSegment(g) \/ UnregisterFrozenSegment(g)

GCSpec == GCInit /\ [][GCNext]_gcVars

-----------------------------------------------------------------------------
(* Properties. *)

(* The bytes that calloc has handed out. *)
BlockBytes == UNION {b.base .. b.base + b.size - 1 : b \in blocks}

(* What the reports call committed is really held from calloc: the bytes   *)
(* counted as heap size, in use and committed agree with each other and    *)
(* never exceed the bytes of the blocks, whichever allocations failed.     *)
ReportsBacked ==
  /\ GetMemoryInfo.lastRecordedHeapSizeBytes = GetTotalBytesInUse
  /\ GetCurrentObjSize = GetTotalBytesInUse
  /\ GetMemoryInfo.totalCommittedBytes = GetTotalAllocatedBytes
  /\ GetMemoryInfo.totalCommittedBytes <= Cardinality(BlockBytes)

(* No two segments the runtime holds registered share a handle, and none   *)
(* has the null handle, whatever was registered and unregistered before.   *)
SegmentHandlesDistinct ==
  \A g, h \in Segments :
    segmentHandle[g] # NULL =>
      /\ segmentHandle[g] \in 1 .. registeredSegments
      /\ segmentHandle[g] = segmentHandle[h] => g = h

=============================================================================
