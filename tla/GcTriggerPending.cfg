SPECIFICATION Spec
CONSTANTS
  m1 = m1
  m2 = m2
  m3 = m3
  Mutators = {m1, m2, m3}
  Frames = {1, 2, 3, 4, 5, 6}
  RequestSizes = {1}
  ProcessStates = {}
  LimitCalls = {}
  ClampSizes = {}
  BytesInPage = 2
  MinFreeBytes = 2
  MaxFreeBytes = 5
  InitialSizeBytes = 2
  GrowthLimitBytes = 6
  CapacityBytes = 6
  UtilNum = 1
  UtilDen = 2
  FgNum = 2
  FgDen = 1
  UsizeMod = 16
SYMMETRY Symmetry
INVARIANT PendingIsAwaited
