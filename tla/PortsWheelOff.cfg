SPECIFICATION FairSpec
CONSTANTS
  Servers = {"control"}
  NumPorts = 5
  Serials <- MCSerials
  Fallback = "fw"
  Boxes <- MCOneBox
  Switchable = {"FILTER_WHEEL"}
  NumValues = 2
  MaxTries = 2
PROPERTY StartEnds
