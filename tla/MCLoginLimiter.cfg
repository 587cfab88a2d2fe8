\* Two logins in flight from two addresses, with a lock longer than idleTTL.
CONSTANTS
  a1 = a1
  a2 = a2
  c1 = c1
  c2 = c2
  Addrs = {a1, a2}
  Logins = {c1, c2}
  MaxFail = 2
  LockDur = 4
  IdleTTL = 2
  NoAddr = NoAddr
  MaxClock = 7
SPECIFICATION Spec
SYMMETRY Symm
INVARIANTS TypeOK GuessesBounded
PROPERTY LockLasts
