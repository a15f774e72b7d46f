CONSTANTS
  Keys = {k1, k2}
  Sessions = {s1}
  NoKey = NoKey
  Requests = {r1, r2}
  Logins = {l1, l2}
  TTL = 2
  Life = 2
  Delay = 1
SPECIFICATION Spec
SYMMETRY Symmetry
INVARIANTS
  TypeOK
  StaleBounded
  SessionsEnd
PROPERTIES
  BanHolds
  KeyStable
