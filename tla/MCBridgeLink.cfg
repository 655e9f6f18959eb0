SPECIFICATION Spec
CONSTANTS
  c1 = c1
  c2 = c2
  c3 = c3
  c4 = c4
  c5 = c5
  ClientIds = {c1, c2, c3, c4, c5}
  NoClient = NoClient
  First = {"open"}
  Commands = {"open", "wait_ready", "page_end", "status", "close", "disconnect"}
  Holds = TRUE
  Scans = TRUE
  TimerRaces = FALSE
  WriteErrors = TRUE
INVARIANTS
  TypeOK
  NoOrphanLink
PROPERTIES
  TimerCountsCommands
  IdleLinkIsDropped
  ReleasedAtExit
  StopEnds
CHECK_DEADLOCK FALSE
