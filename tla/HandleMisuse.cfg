SPECIFICATION MisuseSpec
CONSTANTS
  UGC_HANDLE_COUNT = 4
  HandlesBase = 64
  PtrSize = 4
  Objects = {}
  Types = {6}
  Extras = {}
  HNDTYPE_DEPENDENT = 6
  MaxStale = 2
INVARIANTS
  ArraysInRange
  LostBounded
  LostExact
  NoAliasing
