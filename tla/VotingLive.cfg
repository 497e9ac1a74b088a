CONSTANTS
  c1 = c1
  c2 = c2
  c3 = c3
  c4 = c4
  aliens = aliens
  none = none
  Clients <- TwoClients
  Teams <- NoTeams
  NoTeam <- none
  Kinds <- MapKinds
  VoteInfo <- MapInfo
  VOTE_TIME = 3
  IntermissionMin = 2
  MaxDrift = 1
SPECIFICATION FairSpec
PROPERTIES VoteEnds PassedIsExecuted
