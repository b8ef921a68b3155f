SPECIFICATION FairSpec
CONSTANT MaxFrames = 3
INVARIANTS
  TypeOK
  LinesFresh
  OneLinePerWake
  LastUrlSaved
PROPERTIES
  ImplementsMailbox
  UrlReachesFile
CHECK_DEADLOCK FALSE
