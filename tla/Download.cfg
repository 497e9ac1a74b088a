CONSTANTS
  Blocks <- FourPaks
  Held <- SomeHeld
  MAX_DOWNLOAD_WINDOW = 2
  SHORT = 6
  MaxLevels = 2
  MaxInFlight = 1
SPECIFICATION FairSpec
INVARIANTS TypeOK OnlyRepeatsMix UndisturbedIsServed LoadsWithEverything
PROPERTIES FetchedIsWhole DownloadsEnd
CHECK_DEADLOCK FALSE
