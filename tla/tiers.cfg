CONSTANTS
  DefaultTitles = {"Morning Ride", "Lunch Ride"}
  MachineTitles = {"Tough Rouleur Ride"}
  ToolTitles = {"Xert - MTB"}
  ToWorkTitle = "Zur Arbeit"
  ToHomeTitle = "Nach Hause"
  ErrandPool <- MCPool
  ZwiftMode = "llm_indoor"
  LeaveErrandsUnnamed = FALSE
  SportMinDistance = 0
  SportMinMovingTime = 0
SPECIFICATION MCSpec
CHECK_DEADLOCK FALSE
INVARIANTS NamedForGood
PROPERTIES ProvisionalAwaitsTheFlag
