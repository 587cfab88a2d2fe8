\* Two backends, one request among the checker's goroutines and an update.
CONSTANTS
  b1 = b1
  b2 = b2
  r1 = r1
  tester = tester
  customer = customer
  NoBackend = NoBackend
  Backends = {b1, b2}
  Requests = {r1}
  Classes = {tester, customer}
  Configs <- MCConfigs
  Uploads = {"small", "huge", "chunked"}
  Wrap = 2
SPECIFICATION Spec
INVARIANTS EvenSplit
PROPERTIES NextSound ReachableComesBack UnreachableGoesDown
