SPECIFICATION Spec
CONSTANTS
  p1 = p1
  p2 = p2
  p3 = p3
  s1 = s1
  s2 = s2
  Points <- MCPoints
  Box <- MCBox
  Dist <- MCDist
  Regions <- MCRegions
  Searchers <- MCSearchers
  MaxCalls = 3
INVARIANTS
  IkdTypeOK
  SearchesExcluded
  
PROPERTIES
  
  
  RebuildEnds
  CallsReturn
CHECK_DEADLOCK FALSE
