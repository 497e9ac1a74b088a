CONSTANTS
  MAX_RELIABLE_COMMANDS = 2
  MaxServerCommands = 2
  MaxClientCommands = 1
  MaxLevels = 2
  MaxInFlight = 1
SPECIFICATION FairSpec
PROPERTIES SentIsHeard TypedIsDone
CHECK_DEADLOCK FALSE
