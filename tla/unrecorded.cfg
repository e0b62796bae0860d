CONSTANTS
  DefaultTitles = {"Morning Ride"}
  MachineTitles = {}
  ToolTitles = {}
  ToWorkTitle = "Zur Arbeit"
  ToHomeTitle = "Nach Hause"
  ErrandPool <- MCShortPool
  ZwiftMode = "keep"
  LeaveErrandsUnnamed = FALSE
  SportMinDistance = 0
  SportMinMovingTime = 0
  Horizon = 0
  Activity = {1}
  Facts <- MCFactsLong
  PersonTitles = {"Mit Anna"}
  ModelTitles = {"Gegenwind"}
  LinkTitles = {}
  StrippedTitle = "Bad Toelz"
  SeriesLength = 0
  Reserved = {}
  Attribution = TRUE
  Delay = 1
  MaxEventAge = 1
  Window = 1
  MaxRetries = 1
  WriteModes = {TRUE}
  Budgets <- MCBudgetsOneEdit
SPECIFICATION Spec
CHECK_DEADLOCK FALSE
INVARIANTS EveryRenameIsRecorded
