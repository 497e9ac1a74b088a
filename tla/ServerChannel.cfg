CONSTANTS
  FRAGMENT_SIZE = 2
  Lengths <- ShortToLong
  MaxMessages = 3
  MaxCommands = 1
SPECIFICATION FairSpec
INVARIANTS TypeOK ReadsWholeMessages DecodesWithItsKey
PROPERTIES FragmentsFinish ImplementsLossyChannel
