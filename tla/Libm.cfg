SPECIFICATION Spec
CONSTANTS
  Real = Real
  Garbage = Garbage
  Tasks <- MCTasks
  MaxPower = 7
CHECK_DEADLOCK FALSE
INVARIANTS TypeOK RightOrTold ConformantAnswered PowerKept LiteralExact
PROPERTY LoopsEnd
