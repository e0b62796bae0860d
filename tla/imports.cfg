CONSTANTS
  Activity = {1, 2, 3, 4}
  Old = {1, 2, 3}
  RideActivity = {1, 2}
  DefaultTitles = {"Morning Ride"}
  TemplateTitles = {"Zur Arbeit"}
  ModelTitles = {"Gegenwind"}
  PersonTitles = {"Mit Anna"}
  PerPage = 2
  MaxRuns = 2
  MaxEdits = 2
  MaxFaults = 1
SPECIFICATION FairSpec
CHECK_DEADLOCK FALSE
INVARIANTS IInv ImportedTitlesAreTheAthletes ImportIsComplete
PROPERTIES RunEnds
