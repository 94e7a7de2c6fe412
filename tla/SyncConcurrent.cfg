SPECIFICATION Spec
CONSTANTS
  Primary = cal
  Mirrors = {m1, m2}
  Workers = {w1, w2}
  MaxVersion = 2
  MaxForeign = 0
  MaxFaults = 1
  Shapes = {"plain"}
SYMMETRY Symmetry
PROPERTY ImplementsContract
INVARIANTS TypeOK DeletedRowsAreGone MirrorsShowCommitted DeletedGroupIsEmpty ConfirmedIsDeleted NoOrphans
