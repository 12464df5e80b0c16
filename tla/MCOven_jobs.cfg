SPECIFICATION Spec
CONSTANTS
  LidSpan = 2
  LiftSpan = 8
  LiftStride = 2
  MinPosOffset = 3
  Far = 100
  LiftMax = 1
  LidOpenPosition <- MCLidOpenPosition
  HeaterBand <- MCHeaterBand
  GaldenSetting = 230
  AcTemp = 50
  GaldenTemps = {69, 225}
  PcbTemps = {60, 220}
  TotalDatapoints = 2
  Points <- MCPoints
  WatchdogSeconds = 1
  Commands = {"reflow_on", "reflow_off", "lid_open", "lid_close", "lid_mode"}
  Mishaps = {"heater_hot"}
INVARIANTS
  TypeOK
  HeaterGuarded
  ReflowGuarded
  StepsInOrder
  LidAndLiftApart
PROPERTIES
  LidOpensOnlyWhenCool
