SPECIFICATION OperationSpec
CONSTANTS
  l1 = l1
  a1 = a1
  a2 = a2
  LogRows = {l1}
  HealthRows = {}
  AuditRows = {a1, a2}
  Days <- LogOff
  Purges <- MCPurges
  Day = 2
  Zone = 1
  MaxAge = 4
  MaxFailures = 1
  MaxRestarts = 1
  b1 = b1
  b2 = b2
  client = client
  other = other
  front = front
  edge = edge
  Targets <- MCTargets
  BasePath <- MCBasePath
  SavedTables <- MCTables
  Saves <- MCSaves
  Direct <- MCDirect
  Fronted <- MCFronted
  Kinds <- MCKinds
  DefaultSize = 1
  MaxSize = 2
  ExportSize = 3
  MaxId = 4
  MaxPages = 5
  Span = 0
  MaxTime = 1
  AnyBackend = AnyBackend
  NoAddr = NoAddr
INVARIANTS Accounted ForwardedAsMeant ChainIsTrue MissesOnlyBelowDeleted
           MissesNoMoreThanDeleted PartsAgree
PROPERTIES KeepsRecent
