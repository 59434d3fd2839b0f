SPECIFICATION Spec
CONSTANTS
  UGC_HANDLE_COUNT = 2
  HandlesBase = 64
  PtrSize = 4
  Pointers = {1001}
  Types = {0}
INVARIANT StoreConsistent
