SPECIFICATION Spec
CONSTANTS
  Rows = 3
  RowsPerMessage = 2
  MaxPages = 2
  MaxStops = 1
  StopsInCallback = FALSE
INVARIANTS
  TypeOK
  PagesWhole
  LossIsReported
PROPERTIES
  CancelEndsJob
