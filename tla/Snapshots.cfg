CONSTANTS
  PACKET_BACKUP = 4
  KEEP = 1
  numSnapshotEntities = 11
  MAX_PARSE_ENTITIES = 7
  MARGIN = 1
  Views <- ComeAndGo
  OtherEntities = {4}
  MaxMessages = 7
  MaxEntities = 4
  MaxLevels = 2
SPECIFICATION Spec
INVARIANTS TypeOK  BaseIsKept
PROPERTY NeverStuck
CHECK_DEADLOCK FALSE
