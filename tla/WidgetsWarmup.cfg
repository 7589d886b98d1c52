SPECIFICATION Spec
CONSTANTS
  NULL = NULL
  Boxes <- XrayBox
  MaxSteps = 4
INVARIANT
  NoShutterInWarmup
