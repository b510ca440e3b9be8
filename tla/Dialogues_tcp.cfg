SPECIFICATION DialoguesSpec
CONSTANTS
  Services <- AllServices
  Words <- Two
  FakeAuths <- Configurations
  MaxTries = 4
  MaxEvents = 3
  MaxLines = 8
INVARIANTS
  AttemptsAreTries
  InsidersAreAllowed
  TelnetGuesses
CHECK_DEADLOCK FALSE
