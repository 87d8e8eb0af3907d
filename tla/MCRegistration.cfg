CONSTANTS
  ss1 = ss1
  ss2 = ss2
  Servers = {ss1, ss2}
  PathsFile <- MCPathsFile
  MaxStarts <- MCMaxStarts
  MaxServers = 2
  MaxPaths = 1
  Nobody = Nobody
SPECIFICATION FairSpec
INVARIANT TypeOK
INVARIANT RegisteredInFull
INVARIANT IdsAreUnique
INVARIANT SurvivesRegistrations
PROPERTY NobodyWaitsForId
PROPERTY DeadServersAreNoticed
