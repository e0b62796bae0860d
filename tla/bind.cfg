\* Two athletes authorize side by side, while sweeps and an import use the token.
CONSTANTS
  Athlete = {a1, a2}
  NoAthlete = none
  Configured = none
  State = {s1, s2}
  Request = {c1, c2}
  StateTTL = 1
  MaxExpiries = 2
  MaxFaults = 2
  MaxRestarts = 1
  MaxImports = 1
  Alone = TRUE
SPECIFICATION FairSpec
INVARIANTS IInv LivePairIsHeld StateAuthorizesOnce
PROPERTIES ImplementsFirstBound UnsavedPairIsSaved
