SPECIFICATION Spec
CONSTANTS
  WordBits = 4
  MaxFields = 9
  MaxLength = 4
  MaxStatics = 2
  MaxVTable = 2
  PointerSizes = {4, 8}
  kVisitNativeRoots = TRUE
INVARIANTS ScanIsExact SlotsInside ClassSizeIsTight
PROPERTY ScanEnds
