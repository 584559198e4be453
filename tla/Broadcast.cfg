SPECIFICATION FairSpec
CONSTANTS
  Broadcaster = {b}
  Fetcher = {f}
  MaxTries = 2
  MaxWire = 1
  MaxDrops = 1
  None = None
INVARIANTS SuccessIsTrue EntriesOwned
PROPERTIES SuccessIsParsed CallsEnd
CHECK_DEADLOCK FALSE
