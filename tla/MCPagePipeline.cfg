SPECIFICATION Spec
CONSTANTS
  Rows = 3
  ShortRows = 1
  SensorRows = 1
  ShortSheet = 2
  MuteThreshold = 2
  Faults = {"lid", "early lid", "lid while ejecting", "drop", "off", "short"}
  MaxFaults = 2
INVARIANTS
  TypeOK
  OkMeansWhole
  OneCopy
  FreshSheet
  OnlyCancelLosesPage
PROPERTIES
  AbortAnswered
  PageEnds
\* The page is one command; the model ends with its answer.
CHECK_DEADLOCK FALSE
