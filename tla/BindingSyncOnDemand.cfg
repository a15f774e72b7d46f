CONSTANTS
  Proxies = {p1, p2}
  Relays = {r1, r2}
  Validator = v
  Background = {}
  Nobody = nobody
  Max = 1
  Batch = 1
  MaxTimeouts = 0
SPECIFICATION Spec
SYMMETRY Symmetry
INVARIANT OnDemandOnce
