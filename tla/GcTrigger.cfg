SPECIFICATION Spec
CONSTANTS
  m1 = m1
  m2 = m2
  m3 = m3
  Mutators = {m1, m2}
  Frames = {1, 2, 3, 4}
  RequestSizes = {1, 2}
  ProcessStates = {TRUE}
  LimitCalls = {"clear", "clamp"}
  ClampSizes = {}
  BytesInPage = 2
  MinFreeBytes = 2
  MaxFreeBytes = 5
  InitialSizeBytes = 2
  GrowthLimitBytes = 4
  CapacityBytes = 6
  UtilNum = 1
  UtilDen = 2
  FgNum = 2
  FgDen = 1
  UsizeMod = 64
SYMMETRY Symmetry
INVARIANTS TargetWithinLimit UsedWithinLimit LimitInv
PROPERTIES RoomForPending ImplementsHeapBudget
