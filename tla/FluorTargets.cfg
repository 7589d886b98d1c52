SPECIFICATION Spec
CONSTANTS
  cu = cu
  mo = mo
  Name = {cu, mo}
  Places = 2
  Width = 3
  Offset = 1
  LaserPosition = 2
  Configured <- MCConfigured
  ChangeOrder = TRUE
  NewHolders <- MCNewHolders
  NewNames = {cu}
  MaxHolders = 2
INVARIANTS
  TypeOK
  TargetReached
  PastEndOnlyAtLimit
  GuiShowsTruth
