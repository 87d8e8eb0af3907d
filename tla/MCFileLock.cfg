CONSTANTS
  Sessions = {s1, s2, s3, s4}
  NoSession = NoSession
SPECIFICATION FairSpec
INVARIANT TypeOK
INVARIANT CountCoversReaders
INVARIANT FieldsMatchHolders
PROPERTY ImplementsRWLock
PROPERTY EveryThreadEnds
