SPECIFICATION PaneSpec
CONSTANTS
  Panes = {"left"}
  Paths = {"a"}
  Children = {1, 2}
  MaxVersion = 2
  ViewChoices <- TwoViews
  PageSize = 1
  FirstContents <- BothThere
  Navs = {1, 2}
  MaxChanges = 1
  MaxFolds = 1
  Torn = TRUE
  MaxInFlight = 1
  MaxTokens = 2
  MaxFocus = 4
  Refuses = TRUE
INVARIANTS SessInv CapturedChangeIsRead ShownIsSessionView FocusInv
PROPERTIES PatchDescribesChange ResultsInOrder
CHECK_DEADLOCK FALSE
