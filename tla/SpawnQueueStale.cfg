CONSTANTS
  aliens = aliens
  humans = humans
  none = none
  MAX_CLIENTS = 3
  MaxClients = 2
  Teams <- BothTeams
  NoTeam <- none
  Sticky <- NoClients
  Followers <- All
SPECIFICATION Spec
PROPERTY LeaverIsRemoved
