SPECIFICATION Spec
CONSTANTS
  o1 = o1
  Operators = {o1}
  Modes = {"detached", "thread", "foreground"}
  Workspaces = {TRUE, FALSE}
  NoResult = NoResult
  Free = Free
  MaxFaults = 1
INVARIANT EveryTerminalStatusHasResult
CHECK_DEADLOCK FALSE
