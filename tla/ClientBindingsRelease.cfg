CONSTANTS
  Handlers = {h1, h2}
  Proxies = {p1, p2}
  Manual = {m1}
  NoProxy = none
  NumPorts = 2
  Outside = {9}
SPECIFICATION Spec
CONSTRAINT RaceFree
PROPERTY AutoReleaseOnly
