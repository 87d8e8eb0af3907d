CONSTANTS
  t1 = t1
  t2 = t2
  t3 = t3
  Threads = {t1, t2, t3}
  Paths = {"a", "b", "c"}
  Workloads <- MCWorkloads
  PathsFile <- MCPathsFile
  NodeCount = 5
  MaxRestarts = 1
SPECIFICATION Spec
INVARIANT TypeOK
INVARIANT WalksEnd
INVARIANT ListMatchesDisk
INVARIANT ReadersCounted
 
