CONSTANTS
  Proxies = {p1, p2}
  Runs = {r1, r2}
  MaxRetries = 2
  Limit = 2
SPECIFICATION Spec
CONSTRAINT Few
SYMMETRY Symmetry
INVARIANTS
  TypeOK
  RetriesBounded
  CopiesAgree
  NoOrphans
