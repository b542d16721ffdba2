CONSTANTS
  short = short
  long = long
  cut = cut
  MaxPorts = 2
  QueueDepth = 3
  Text = {t, u}
  NoText = NoText
  NoName = NoName
  Name <- MCName
  Stored <- MCStored
SPECIFICATION Spec
INVARIANTS
  TablesAgree
PROPERTY PortsAreQueues
