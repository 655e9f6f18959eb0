SPECIFICATION Spec
CONSTANTS
  Profiles <- MCProfiles
  Media <- MCMedia
  Images <- MCImages
  Counts = {0, 64, 1024}
  FeedLines = 20
  None = None
INVARIANTS
  SheetOutlastsPage
  SheetIsFilled
