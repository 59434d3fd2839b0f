SPECIFICATION GCSpec
CONSTANTS
  c1 = c1
  g1 = g1
  g2 = g2
  NoContext = NoContext
  Contexts <- MCContexts
  Sizes <- MCSizes
  Segments <- MCSegments
  MaxRegistrations = 3
  UGC_ALLOC_QUANTUM = 40
  ObjHeaderSize = 8
  SIZE_MAX = 255
  CallocAlign = 16
  HeapLimit = 88
SYMMETRY MCSymmetry
INVARIANTS
  ReportsBacked
  SegmentHandlesDistinct
