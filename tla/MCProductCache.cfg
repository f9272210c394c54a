SPECIFICATION FairSpec
CONSTANTS
  p1 = p1
  g1 = g1
  g2 = g2
  g3 = g3
  Products <- OneProduct
  Goroutines <- ThreeGoroutines
INVARIANTS StaleHasCause
PROPERTIES CacheConverges
