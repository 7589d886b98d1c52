SPECIFICATION Spec
CONSTANTS
  s1 = s1
  s2 = s2
  dx = dx
  dy = dy
  corvus1 = corvus1
  corvus2 = corvus2
  Motors <- MCMotors
  Controllers <- MCControllers
  Controller <- MCController
  StopOrder <- MCStopOrder
  X1 = s1
  X2 = s2
  Restricted <- MCRestricted
  LowerLimit <- MCLowerLimit
  UpperLimit <- MCUpperLimit
  Sum = 2
  Individual = 2
  EndSwitch <- MCEndSwitch
  RefMotors <- MCRefMotors
  RefPoints <- MCRefPoints
  StartAt = {0}
  StopServer = TRUE
  Commands <- MCCommands
INVARIANTS
  StillBetweenSteps
  LimitsLeaveRoom
