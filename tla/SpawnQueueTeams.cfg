CONSTANTS
  aliens = aliens
  humans = humans
  none = none
  MAX_CLIENTS = 4
  MaxClients = 3
  Teams <- BothTeams
  NoTeam <- none
  Sticky <- NoClients
  Followers <- NoClients
SPECIFICATION FairSpec
INVARIANTS QueuedIsWaiting
PROPERTIES LeavesKnowingly QueuedIsServed
