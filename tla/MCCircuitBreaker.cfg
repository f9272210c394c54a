SPECIFICATION RecordedSpec
CONSTANTS
  c1 = c1
  c2 = c2
  c3 = c3
  c4 = c4
  Callers <- FourCallers
  FailureThreshold = 2
  HalfOpenMaxProbes = 2
  MaxAttempts = 2
INVARIANTS ClosesOnProbe HalfOpenAwaitsProbe
PROPERTIES KeepsAdmitting
