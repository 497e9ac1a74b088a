CONSTANTS
  c1 = c1
  c2 = c2
  c3 = c3
  c4 = c4
  aliens = aliens
  none = none
  Clients <- FourClients
  Teams <- NoTeams
  NoTeam <- none
  Kinds <- DefaultKinds
  VoteInfo <- DefaultInfo
  VOTE_TIME = 3
  IntermissionMin = 2
  MaxDrift = 1
SPECIFICATION Spec
SYMMETRY Symmetry
INVARIANT PublicTallyIsBallots
PROPERTIES EarlyEndIsFinal PassIsBacked
