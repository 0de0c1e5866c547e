CONSTANTS
  Hosts <- MCHosts
  Endpoints = {"response"}
  OwnedStores <- MCStores
SPECIFICATION HostSpec
INVARIANT ShutdownIsOrderly
PROPERTY HostProgresses
CHECK_DEADLOCK FALSE
