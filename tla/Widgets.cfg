SPECIFICATION Spec
CONSTANTS
  NULL = NULL
  MaxSteps = 4
  Boxes <- VacuumBox
INVARIANTS
  TypeOK
  LockedIsTimed
  WarningIsRight
  OneQuestion
  GaugeNeverWaits
  PressureRefreshed
