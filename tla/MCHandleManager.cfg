SPECIFICATION CallSpec
CONSTANTS
  UGC_HANDLE_COUNT = 2
  HandlesBase = 64
  PtrSize = 8
  Objects <- MCObjects
  Types <- MCTypes
  Extras <- MCExtras
  HNDTYPE_DEPENDENT = 6
INVARIANT
  IdleSlotsScrubbed
PROPERTY
  ImplementsTable
