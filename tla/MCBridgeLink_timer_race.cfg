SPECIFICATION Spec
CONSTANTS
  c1 = c1
  c2 = c2
  c3 = c3
  c4 = c4
  c5 = c5
  ClientIds = {c1, c2, c3, c4, c5}
  NoClient = NoClient
  First = {"open"}
  Commands = {"open", "wait_ready", "page_end", "close"}
  Holds = TRUE
  Scans = FALSE
  TimerRaces = TRUE
  WriteErrors = FALSE
INVARIANTS
  NoOrphanLink
CHECK_DEADLOCK FALSE
