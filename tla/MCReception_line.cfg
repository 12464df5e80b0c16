CONSTANTS
  Packets <- MCPackets
  PacketCount = 2
  BufferSize = 6
  DecodeSize = 4
  HeaderSize = 2
  Noise = {0, 1, 3}
  OffsetFirst = TRUE
  ErrorAt = {"idle"}
  MaxFaults = 2
SPECIFICATION Spec
INVARIANTS
TypeOK
Resync
PassesOverLittle
PROPERTIES
LineSpec
CHECK_DEADLOCK FALSE
