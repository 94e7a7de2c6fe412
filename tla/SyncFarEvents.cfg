SPECIFICATION Spec
CONSTANTS
  Primary = cal
  Mirrors = {m1}
  Workers = {w1}
  MaxVersion = 1
  MaxForeign = 0
  MaxFaults = 0
  Shapes = {"far"}
PROPERTY PollDeletesOnlyDeleted
