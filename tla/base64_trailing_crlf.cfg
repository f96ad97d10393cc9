CONSTANTS
  Plains <- MC_NonEmptyPlains
  BreakPositions = {0, 4}
  MaxBreaks = 1
  BreakAtEnd = TRUE
  NotDecoded = NotDecoded
SPECIFICATION Spec
INVARIANT
  RoundTrip
