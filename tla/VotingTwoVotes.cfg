CONSTANTS
  c1 = c1
  c2 = c2
  c3 = c3
  c4 = c4
  aliens = aliens
  none = none
  Clients <- TwoClients
  Teams <- OneTeam
  NoTeam <- none
  Kinds <- BothKinds
  VoteInfo <- BothInfo
  VOTE_TIME = 2
  IntermissionMin = 1
  MaxDrift = 1
SPECIFICATION Spec
SYMMETRY Symmetry
INVARIANTS TypeOK NeverRunningAndPending
