SPECIFICATION CSpec
CONSTANTS
  Says = {0, 1, 2, 3, 4}
  MaxSessions = 4
  Lanes = {"lane"}
  MaxStartup = 2
  MaxCalls = 3
  MaxEvents = 3
  Room = 1
  MaxFaults = 0
INVARIANTS HonestSessionIsAccepted ChildIsTheConversation NewestIdentityIsKept
CHECK_DEADLOCK FALSE
