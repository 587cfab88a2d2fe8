\* A backend that comes and goes, two administrators who save once each.
CONSTANTS
  Backends = {b1}
  Admins = {a1, a2}
  RuleSets <- MCRuleSets
  DefaultRules <- MCDefault
  Never = Never
  MaxOutages = 1
  MaxSaves = 2
  MaxFaults = 1
  MaxClock = 2
SPECIFICATION Spec
INVARIANTS AlertsStandForEvents
PROPERTIES Spaced RulesSettle
