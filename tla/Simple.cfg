SPECIFICATION KFairSpec
CONSTANTS
  MaxResumes = 1
  MaxFaults = 1
  MaxSessions = 3
  Lane = "lane"
  Lanes = {"lane"}
  Policies = {"then", "now"}
  MaxRuns = 2
  MaxUpsets = 2
INVARIANTS ProvenIsTheConversation AcceptedEndsCancelled ReapedFirst CharterIsKept RunsKeepToTheConversation ResumeStaysPossible CheckoutIsOnRecord
PROPERTY EveryRunIsOver
CHECK_DEADLOCK FALSE
