CONSTANTS
  DefaultTitles = {"Morning Ride"}
  MachineTitles = {}
  ToolTitles = {"Tough Rouleur Ride"}
  ToWorkTitle = "Zur Arbeit"
  ToHomeTitle = "Nach Hause"
  ErrandPool <- MCShortPool
  ZwiftMode = "keep"
  LeaveErrandsUnnamed = FALSE
  SportMinDistance = 0
  SportMinMovingTime = 0
  Horizon = 0
  Activity = {1}
  Facts <- MCFactsShort
  PersonTitles = {"Mit Anna", "Regen"}
  ModelTitles = {}
  LinkTitles = {}
  StrippedTitle = "Bad Toelz"
  SeriesLength = 0
  Reserved = {}
  Attribution = TRUE
  Delay = 1
  MaxEventAge = 1
  Window = 2
  MaxRetries = 1
  WriteModes = {TRUE, FALSE}
  Budgets <- MCBudgetsAlive
SPECIFICATION FairSpec
CHECK_DEADLOCK FALSE
PROPERTIES DequeuedWhenDone QueueDrains OwedTitlesAreRecorded
