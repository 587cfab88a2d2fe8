\* One token, with the default limit or one of its own that is as large, two
\* requests in flight, an administrator and the sweeper.
CONSTANTS
  k1 = k1
  c1 = c1
  c2 = c2
  a1 = a1
  NoKey = NoKey
  Keys = {k1}
  Callers = {c1, c2}
  Admins = {a1}
  Rpms = {0, 3}
  DefaultRPM = 3
  Window = 2
  MaxKeys = 1
  MaxLag = 1
  MaxClock = 5
SPECIFICATION Spec
SYMMETRY Symm
INVARIANTS TypeOK AdmissionBound RetryAccurate RetryBounded
PROPERTY ImplementsTokenBucket
CHECK_DEADLOCK FALSE
