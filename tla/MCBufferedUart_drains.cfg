CONSTANTS
  gui = gui
  com = com
  Tasks <- MCTasks
  BufferSize = 5
  ResetSize = 2
  FrameSizes = {1, 3}
  MaxAppended = 11
  LineErrors = TRUE
  ExactFill = FALSE
SPECIFICATION FairSpec
INVARIANTS
  LineServed
PROPERTIES
  Drains
CHECK_DEADLOCK FALSE
