SPECIFICATION Spec
CONSTANTS
  Handlers = {h1, h2}
  MaxDialogs = 2
  MaxOverlaps = 1
SYMMETRY Symmetry
VIEW View
INVARIANTS TypeOK NothingMissing
PROPERTIES CreatesWhatWasShown CancelledIsNotCreated ChangesWhatWasChosen
