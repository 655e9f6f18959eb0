SPECIFICATION Spec
CONSTANTS
  WidthBytes = 2
  BandHeight = 2
  Heights <- MCHeights
  DensityBytes = 4
  FeedBytes = 3
  ChunkSizes <- MCChunkSizes
  ShortDen = 4
INVARIANTS
  TypeOK
  ParserInSync
  RowsSentExact
  StopMeansUnfinished
\* The page is one transfer; the model ends when it is over.
CHECK_DEADLOCK FALSE
