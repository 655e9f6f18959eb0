SPECIFICATION Spec
CONSTANTS
  SheetFeeds = 2
  MaxFeeds = 3
  Ahead = 2
  Blind = 3
  Pulses = 1
  Timers = {"10 min", "30 min"}
  Wanted = "30 min"
  NoAnswer = "None"
  Ops = {"check_ready", "info", "auto_off", "eject", "identify", "connect"}
  Details <- MCDetails
  MaxInbox = 2
  MaxNotes = 3
INVARIANTS
  TypeOK
  ReadyWasSeen
  TimerIsTrue
  EjectedIsOut
PROPERTIES
  CommandEnds
