CONSTANTS
  Handlers = {h1, h2}
  Subs = {s1, s2}
  Items = {i1}
  Writers = {w1, w2}
  Nothing = nothing
  MaxPending = 2
SPECIFICATION Spec
CONSTRAINT RaceFree
SYMMETRY Symmetry
INVARIANTS
  TypeOK
  AlwaysSound
  SavedAtRest
PROPERTY KeepsPromise
