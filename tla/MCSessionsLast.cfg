\* Two administrators delete each other at the same time.
CONSTANTS
  alice = alice
  bob = bob
  s1 = s1
  s2 = s2
  NoUser = NoUser
  Users = {alice, bob}
  Founders = {alice, bob}
  Admin = alice
  Slots = {s1, s2}
  TTL = 1
  MaxLag = 1
  MaxVersion = 0
  MaxRows = 1
  MaxTokens = 2
  MaxClock = 0
SPECIFICATION Spec
INVARIANT SomeUserLeft
CHECK_DEADLOCK FALSE
