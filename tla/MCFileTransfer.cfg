CONSTANTS
  MaxSize = 3
  Block = 2
  MaxSent = 6
  MaxForks = 1
SPECIFICATION FairSpec
INVARIANT TypeOK
INVARIANT SentIsStored
INVARIANT BrokenOffIsPrefix
INVARIANT KilledByLeaver
PROPERTY ImplementsDelivery
PROPERTY EveryWriteEnds
