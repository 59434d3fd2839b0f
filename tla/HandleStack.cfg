SPECIFICATION Spec
CONSTANTS
  UGC_HANDLE_COUNT = 4
  HandlesBase = 64
  PtrSize = 4
  Objects = {1001}
  Types = {6}
  Extras = {}
  HNDTYPE_DEPENDENT = 6
INVARIANTS
  TypeOK
  FreeStackExact
  HighWaterMark
