SPECIFICATION FairSpec
CONSTANTS
  Primary = cal
  Mirrors = {m1, m2}
  Workers = {w1}
  MaxVersion = 2
  MaxForeign = 1
  MaxFaults = 1
  Shapes = {"plain", "recurring", "far"}
INVARIANTS ActiveMeansMirrored PrimaryAgrees
PROPERTIES PollDeletesOnlyMissing EventuallyMirrored DisappearanceFollowed
