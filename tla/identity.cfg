CONSTANTS
  Caller = {c1, c2}
  Lifetime = {1, 3}
  Margin = 1
  MaxTokens = 2
  MaxTime = 3
SPECIFICATION FairSpec
CHECK_DEADLOCK FALSE
INVARIANTS IInv
PROPERTIES RejectedIsForgotten TokenIsKept CompletionsEnd
