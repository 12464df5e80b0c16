CONSTANTS
  gui = gui
  com = com
  Tasks <- MCTasks
  BufferSize = 5
  ResetSize = 2
  FrameSizes = {1, 2, 3}
  MaxAppended = 12
  LineErrors = FALSE
  ExactFill = FALSE
SPECIFICATION FairSpec
INVARIANTS TypeOK
PROPERTIES
InOrder
StreamSpec
CHECK_DEADLOCK FALSE
