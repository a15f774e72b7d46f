CONSTANTS
  Workers = {w1, w2}
  Keys = {k1, k2}
  Names = {n1, n2}
  MaxCopies = 1
SPECIFICATION Spec
SYMMETRY Symmetry
INVARIANTS
  TypeOK
  CopiesAgree
  NoOrphans
  Exact
PROPERTY ListedStay
