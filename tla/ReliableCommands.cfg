CONSTANTS
  MAX_RELIABLE_COMMANDS = 2
  MaxServerCommands = 3
  MaxClientCommands = 3
  MaxLevels = 2
  MaxInFlight = 1
SPECIFICATION Spec
INVARIANTS TypeOK HeardAsSent DoneAsTyped AcksStayInWindow KeysAgreeBelowFull
CHECK_DEADLOCK FALSE
