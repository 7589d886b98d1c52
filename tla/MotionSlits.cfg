SPECIFICATION FairSpec
CONSTANTS
  s1 = s1
  s2 = s2
  fluor = fluor
  corvus2 = corvus2
  Motors <- MCMotors
  Controllers <- MCControllers
  Controller <- MCController
  StopOrder <- MCStopOrder
  X1 = s1
  X2 = s2
  Restricted <- MCMotors
  LowerLimit <- MCLowerLimit
  UpperLimit <- MCUpperLimit
  Sum = 5
  Individual = 4
  EndSwitch <- MCEndSwitch
  RefMotors <- MCNone
  RefPoints <- MCNone
  StartAt = {0, 1}
  StopServer = TRUE
  Commands <- MCCommands
INVARIANTS
  TypeOK
  SlitsNeverCollide
  SlitIsAsAsked
  OnlyNamedMotorMoves
PROPERTIES
  JawsImplemented
  CommandAnswered
  StopAnswered
