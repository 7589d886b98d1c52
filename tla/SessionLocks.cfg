SPECIFICATION FairSpec
CONSTANTS
  gui = gui
  c1 = c1
  alice = alice
  bob = bob
  Nobody = Nobody
  Clients <- MCClients
  Guis <- MCGuis
  Users <- MCUsers
  User <- MCUser
  CliCommands <- MCCliCommands
  GuiCommands <- MCGuiCommands
INVARIANT TypeOK
INVARIANT RepliesAreTrue
PROPERTY ControlIsExclusive
PROPERTIES
  ClientAnswered
  StopAnswered
