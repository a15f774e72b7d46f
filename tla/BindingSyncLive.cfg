CONSTANTS
  Proxies = {p1}
  Relays = {r1}
  Validator = v
  Background = {b1}
  Nobody = nobody
  Max = 1
  Batch = 1
  MaxTimeouts = 0
SPECIFICATION FairSpec
PROPERTIES
  PassesEnd
  RelaysAnswered
