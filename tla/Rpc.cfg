SPECIFICATION FairSpec
CONSTANTS
  Says = {"anything"}
  MaxCalls = 3
  MaxEvents = 2
  Room = 2
  MaxFaults = 2
INVARIANTS HonestGatewayIsAccepted
PROPERTIES ImplementsCalls EveryCallReturns
CHECK_DEADLOCK FALSE
