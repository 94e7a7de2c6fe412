SPECIFICATION Spec
CONSTANTS
  Primary = cal
  Mirrors = {m1}
  Workers = {w1, w2}
  MaxVersion = 1
  MaxForeign = 0
  MaxFaults = 0
  Shapes = {"plain"}
PROPERTY PollDeletesOnlyDeleted
