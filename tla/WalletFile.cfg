SPECIFICATION FileSpec
CONSTANTS
  StopsInCreation = FALSE
  MaxWrites = 3
INVARIANTS Recoverable
PROPERTY SafeNeverLost
