\* A second outage; alerts are switched off and on again in between.
CONSTANTS
  Backends = {b1}
  Admins = {a1}
  RuleSets <- MCRuleSets
  DefaultRules <- MCDefault
  Never = Never
  MaxOutages = 2
  MaxSaves = 2
  MaxFaults = 0
  MaxClock = 0
SPECIFICATION Spec
PROPERTY OutagesNotSilenced
