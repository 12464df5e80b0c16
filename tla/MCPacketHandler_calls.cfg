CONSTANTS
  Rounds <- MCRounds
  IdMod = 3
  MaxUp = 2
  MaxDown = 2
  MaxFaults = 1
  MaxCommands = 2
SPECIFICATION FairSpec
INVARIANTS
TypeOK
AnswerOwn
CommandsInOrder
PROPERTIES
KeepsPolling
