\* One job whose browser may hang, a pause window and a restart; the watchdog may never act.
SPECIFICATION LiveSpec
CONSTANTS
  j1 = j1  j2 = j2  p1 = p1  p2 = p2  h1 = h1
  None = None  NoFile = NoFile
  Job <- OneJob
  Place <- OnePlace
  Handler <- OneHandler
  MaxStallRetries = 1
  StallAfter = 1
  MaxRestarts = 1
  MaxWindows = 1
  MaxReruns = 0
  MaxFaults = 0
  MaxDeletes = 0
  GridJob = {}
CHECK_DEADLOCK FALSE
PROPERTIES QueueDrains PauseFreesTheMachine
