CONSTANTS
  Proxies = {p1, p2}
  Relays = {r1}
  Validator = v
  Background = {b1}
  Nobody = nobody
  Max = 1
  Batch = 1
  MaxTimeouts = 1
SPECIFICATION Spec
CONSTRAINT InOrder
SYMMETRY Symmetry
INVARIANTS
  TypeOK
  Routed
  PortsAccounted
  AtRest
PROPERTY KeepsPromise
