SPECIFICATION FairSpec
CONSTANTS
  Primary = cal
  Mirrors = {m1}
  Workers = {w1, w2}
  MaxVersion = 3
  MaxForeign = 0
  MaxFaults = 0
  Shapes = {"plain"}
PROPERTIES EventuallyMirrored
