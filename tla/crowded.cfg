CONSTANTS
  Ride = {1, 2, 3}
  Template = {1}
  GearOf <- TheBike
  Efforts <- MCEfforts
  Stated <- MCNothing
  Figure <- MCFigures
  Banned = {"epic"}
  ModelTitles <- MCModelTitles
  HumanTitles <- MCHumanTitles
  Rewritten <- MCRewritten
  TemplateTitle <- MCTemplate
  SyntheticTitles <- MCSynthetic
  DefaultProfile <- MCProfile
  Documents <- MCDocuments
  Reservations <- MCReservations
  MaxTitle = 4
  MaxField = 4
  RecentLimit = 1
  ExampleCount = 1
  ExampleFailures = 1
  MaxRestarts = 1
  NoDocument = NoDocument
  NotRead = NotRead
SPECIFICATION Spec
CHECK_DEADLOCK FALSE
PROPERTY RecentIsNotCrowded
