\* An import while the service is idle.
CONSTANTS
  Athlete = {a1}
  NoAthlete = none
  Configured = none
  State = {s1}
  Request = {c1}
  StateTTL = 1
  MaxExpiries = 1
  MaxFaults = 0
  MaxRestarts = 0
  MaxImports = 1
  Alone = TRUE
SPECIFICATION Spec
PROPERTIES RefusedOnlyIfStoreIsDead
