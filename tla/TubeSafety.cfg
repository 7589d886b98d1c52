SPECIFICATION FairSpec
CONSTANTS
  Connected <- MCConnected
  MaxPower = 6
  MinVoltage = 2
  MaxVoltage = 3
  MinCurrent = 2
  MaxCurrent = 3
  MaxAttempts = 2
  MaxLate = 1
  Cases <- MCCases
INVARIANTS
  TypeOK
  PromptYesMeansSafe
  OkMeansDone
  OffMeansOff
  PowerBounded
PROPERTY CommandEnds
