SPECIFICATION FairSelftestSpec
CONSTANTS
  LidSpan = 2
  LiftSpan = 8
  LiftStride = 2
  MinPosOffset = 3
  Far = 100
  LiftMax = 1
  LidOpenPosition <- MCLidOpenPosition
  HeaterBand <- MCHeaterBand
  GaldenSetting = 230
  AcTemp = 50
  GaldenTemps = {40, 75}
  PcbTemps = {60, 220}
  TotalDatapoints = 2
  Points <- MCPoints
  WatchdogSeconds = 1
  Commands = {"selftest", "reflow_on"}
  Mishaps = {"overcurrent", "pins"}
INVARIANTS
  ReflowExcludesSelftest
  LiftFindsTop
PROPERTIES
  SelftestEnds
  Boots
