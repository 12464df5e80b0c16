SPECIFICATION FairSpec
CONSTANTS
  LidSpan = 2
  LiftSpan = 8
  LiftStride = 2
  MinPosOffset = 3
  Far = 100
  LiftMax = 1
  LidOpenPosition <- MCLidOpenPosition
  HeaterBand <- MCHeaterBand
  GaldenSetting = 230
  AcTemp = 50
  GaldenTemps = {40, 225}
  PcbTemps = {60, 220}
  TotalDatapoints = 1
  Points <- MCOneStep
  WatchdogSeconds = 1
  Commands = {"reflow_on", "reflow_off", "lid_open"}
  Mishaps = {"lid_lifted", "sensors_stall"}
INVARIANTS
  LiftParked
PROPERTIES
  CleanupEnds
  LidOpeningEnds
  OpenLidEndsHeating
  WatchdogTrips
