SPECIFICATION Spec
CONSTANTS
  Handlers = {h1, h2}
  MaxDialogs = 1
  MaxOverlaps = 1
PROPERTY OneEventPerConfirmation
