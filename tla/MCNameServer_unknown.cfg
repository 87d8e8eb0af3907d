CONSTANTS
  t1 = t1
  t2 = t2
  Threads = {t1, t2}
  ss1 = ss1
  ss2 = ss2
  p = p
  q = q
  ServerList <- MCServerList
  Paths = {p, q}
  Workloads <- MCReaders
  InitialDisks <- MCInitialDisks
  BaseName <- MCBaseName
  Bucket <- MCBucket
  MaxPaths = 2
  Suspects = {ss1}
  NoServer = NoServer
SPECIFICATION Spec
INVARIANT NameServerSurvives
