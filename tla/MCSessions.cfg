\* A new table: the first start creates an administrator, who may create a
\* second user. Two requests at a time: verdicts settle once the cache has
\* expired.
CONSTANTS
  alice = alice
  bob = bob
  s1 = s1
  s2 = s2
  NoUser = NoUser
  Users = {alice, bob}
  Founders = {}
  Admin = alice
  Slots = {s1, s2}
  TTL = 1
  MaxLag = 1
  MaxVersion = 1
  MaxRows = 1
  MaxTokens = 2
  MaxClock = 2
SYMMETRY Symm
SPECIFICATION Spec
INVARIANT TypeOK
PROPERTY VerdictsSettle
CHECK_DEADLOCK FALSE
