SPECIFICATION Spec
CONSTANTS
  k1 = k1
  k2 = k2
  k3 = k3
  Keys <- ThreeKeys
  Unit = 3
  PerClientRate = 2
  PerClientBurst = 2
  GlobalRate = 4
  GlobalBurst = 3
  MaxClients = 2
  InactiveTTL = 1
  CleanupEvery = 1
  MaxTime = 5
SYMMETRY KeySymmetry
INVARIANTS GlobalRateHolds ClientRateHolds RetryAfterIsExact
