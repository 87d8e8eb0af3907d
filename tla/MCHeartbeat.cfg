CONSTANTS
  Windows = {1, 2, 3, 4, 5, 6}
  Shortest = 2
  Sleep = 4
  Limit = 6
SPECIFICATION Spec
INVARIANT TypeOK
INVARIANT LiveSidesKept
INVARIANT GivenUpInTime
