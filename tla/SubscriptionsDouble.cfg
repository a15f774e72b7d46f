CONSTANTS
  Workers = {w1}
  Keys = {k1, k2}
  Names = {n1, n2, n3}
  MaxCopies = 2
SPECIFICATION Spec
SYMMETRY Symmetry
INVARIANT OldOnesGo
