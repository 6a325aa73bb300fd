SPECIFICATION Spec
CONSTANTS
  m1 = m1
  m2 = m2
  m3 = m3
  Mutators = {m1}
  Frames = {1, 2, 3, 4, 5, 6, 7}
  RequestSizes = {1, 2}
  ProcessStates = {TRUE, FALSE}
  LimitCalls = {}
  ClampSizes = {}
  BytesInPage = 2
  MinFreeBytes = 2
  MaxFreeBytes = 5
  InitialSizeBytes = 2
  GrowthLimitBytes = 8
  CapacityBytes = 8
  UtilNum = 1
  UtilDen = 2
  FgNum = 2
  FgDen = 1
  UsizeMod = 64
PROPERTY JankGrowNeverShrinks
