\* Two administrators who save at the same time, with failures and restarts.
CONSTANTS
  b1 = b1
  b2 = b2
  a1 = a1
  a2 = a2
  eth = eth
  Admins = {a1, a2}
  Bodies <- MCBodies
  Config <- MCConfig
  Unreads <- MCUnreads
  Omitted = Omitted
  NotSaved = NotSaved
  NoList = NoList
  Bits = 2
  Zones = {eth}
  NoZone = NoZone
  Lists <- MCLists
  Rows <- MCRows
SPECIFICATION Spec
SYMMETRY Symm
INVARIANTS SavedIsLive WriteAhead ListMeansWhatItSays
