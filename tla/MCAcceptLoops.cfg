CONSTANTS
  Requests = {c1, c2, c3}
  Pulse = pulse
  MaxFds = 2
  None = None
SPECIFICATION FairSpec
INVARIANT TypeOK
INVARIANT OwnAnswers
INVARIANT DescriptorsOwned
INVARIANT PulseKept
PROPERTY EveryClientReleased
