SPECIFICATION FairSpec
CONSTANTS
  Servers = {"control", "stop"}
  NumPorts = 5
  Serials <- MCSerials
  Fallback = "fw"
  Boxes <- MCBoxes
  Switchable <- MCSwitchable
  NumValues = 2
  MaxTries = 2
INVARIANTS
  TypeOK
  PortsAccounted
  RightDevice
  LineSpeed
  OffMeansOff
  WheelSet
PROPERTIES
  LeaksOnlyAtStart
  StartEnds
