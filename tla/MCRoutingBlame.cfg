\* A chunked upload that turns out too large, sent to a healthy backend.
CONSTANTS
  b1 = b1
  b2 = b2
  r1 = r1
  tester = tester
  customer = customer
  NoBackend = NoBackend
  Backends = {b1, b2}
  Requests = {r1}
  Classes = {tester, customer}
  Configs <- MCConfigs
  Uploads = {"small", "huge", "chunked"}
  Wrap = 2
SPECIFICATION Spec
PROPERTY OnlyFailuresMarkDown
