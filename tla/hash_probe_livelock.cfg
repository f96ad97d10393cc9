CONSTANTS
  Keys = {1, 2, 3, 4, 5, 6, 7, 8, 9, 10, 11, 12, 13, 14, 15, 16, 17, 18, 19, 20, 21}
  Values = {v1}
  Null = Null
  HashCode <- MC_SameHash
  DelKeys = {}
  MinimumSize = 256
  MaxProbe = 20
  ExpandBound = 3
SPECIFICATION ProbeSpec
INVARIANT
  AddReturns
