SPECIFICATION FairSpec
CONSTANTS
  Primary = cal
  Mirrors = {m1}
  Workers = {w1}
  MaxVersion = 2
  MaxForeign = 1
  MaxFaults = 0
  Shapes = {"plain"}
PROPERTY EditsReachMirrors
