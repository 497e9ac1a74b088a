CONSTANTS
  aliens = aliens
  humans = humans
  none = none
  MAX_CLIENTS = 4
  MaxClients = 3
  Teams <- OneTeam
  NoTeam <- none
  Sticky <- Some
  Followers <- All
SPECIFICATION Spec
INVARIANTS TypeOK RingsOK
PROPERTY ImplementsFifo
