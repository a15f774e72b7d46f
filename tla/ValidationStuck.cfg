CONSTANTS
  Proxies = {p1, p2}
  Relays = {r1}
  Nobody = nobody
  Batch = 1
  Threshold = 2
  MaxErrors = 1
  MaxCrashes = 0
SPECIFICATION Spec
PROPERTY StuckWereTried
