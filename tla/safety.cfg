CONSTANTS
  DefaultTitles = {"Morning Ride"}
  MachineTitles = {"Tough Rouleur Ride"}
  ToolTitles = {"Tough Rouleur Ride"}
  ToWorkTitle = "Zur Arbeit"
  ToHomeTitle = "Nach Hause"
  ErrandPool <- MCShortPool
  ZwiftMode = "keep"
  LeaveErrandsUnnamed = FALSE
  SportMinDistance = 0
  SportMinMovingTime = 0
  Horizon = 0
  Activity = {1}
  Facts <- MCFactsLong
  PersonTitles = {"Mit Anna", "Regen"}
  ModelTitles = {"Gegenwind", "Albtrauf.de"}
  LinkTitles = {"Albtrauf.de"}
  StrippedTitle = "Albtrauf"
  SeriesLength = 1
  Reserved = {}
  Attribution = TRUE
  Delay = 1
  MaxEventAge = 0
  Window = 0
  MaxRetries = 1
  WriteModes = {TRUE, FALSE}
  Budgets <- MCBudgetsSafety
SPECIFICATION Spec
CHECK_DEADLOCK FALSE
INVARIANTS NamedOnce LineMatchesRow IInv RecordedBeforeSent EntryStaysUntilFinished RecordFollowsRename HumanRowsAreTyped
PROPERTIES KeepsTitlesItRead DryRunWritesNothing ImplementsLastWriter
