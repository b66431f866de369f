SPECIFICATION FairSpec
CONSTANTS
  NumApps = 2
  FirstPort = 2
  PortSpace = 6
INVARIANTS PortsApart SynComplete ConnectedOnReturn
PROPERTY ConnectReturns
CHECK_DEADLOCK FALSE
