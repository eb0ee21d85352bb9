SPECIFICATION Spec
CONSTANTS
  Sources <- MCSources
  MaxSources = 4
  MaxCalls = 2
INVARIANTS
  TerminatorLast
  PortsUseOwnMemory
  NoPartialPorts
  AcceptedStateIsSingle
  CountIsComplete
