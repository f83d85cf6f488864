SPECIFICATION Spec
CONSTANTS
  c1 = c1
  c2 = c2
  c3 = c3
  Callers <- MCCallers
  FailureThreshold = 2
  Cooldown = 2
  MaxTime = 6
SYMMETRY CallerSymmetry
INVARIANTS TypeOK CountMatchesState StampIsLastFailure HalfOpenIsRested
PROPERTY QuietBeforeProbe
