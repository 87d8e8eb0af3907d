CONSTANTS
  MaxSize = 3
  Block = 2
  MaxSent = 6
  MaxForks = 0
SPECIFICATION Spec
INVARIANT ReadDeliversFile
