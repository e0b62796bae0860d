\* A callback that cannot read who is bound.
CONSTANTS
  Athlete = {a1, a2}
  NoAthlete = none
  Configured = none
  State = {s1, s2}
  Request = {c1, c2}
  StateTTL = 1
  MaxExpiries = 1
  MaxFaults = 1
  MaxRestarts = 0
  MaxImports = 0
  Alone = TRUE
SPECIFICATION Spec
INVARIANTS BindsOnlyTheFirst
