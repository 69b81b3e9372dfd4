SPECIFICATION NFairSpec
CONSTANTS
  o1 = o1
  o2 = o2
  Operators = {o1, o2}
  Modes = {"detached", "thread", "foreground"}
  Workspaces = {TRUE, FALSE}
  NoResult = NoResult
  Free = Free
  MaxFaults = 2
INVARIANTS TerminalIsPaired CompletionIsTheVerdict
PROPERTIES PublishedIsFinal ImplementsRegister CompletionIsFinal RecordedRunsAreAnnounced
CHECK_DEADLOCK FALSE
