CONSTANTS
  Delay = 2
  TickRange = 8
  TickFirst = {TRUE, FALSE}
  MaxHeld = 7
SPECIFICATION Spec
INVARIANTS TypeOK
PROPERTIES AnswerRight
