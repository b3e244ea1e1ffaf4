SPECIFICATION Spec
CONSTANTS
  zoneWidth = 3
  minWindowRows = 6
  Windows = {5, 6, 9}
  Prints <- MCPrints
  Mats <- MCMats
  promptLen = 2
  MaxCalls = 1
  MaxSteps = 3
CHECK_DEADLOCK FALSE
INVARIANTS PromptAtLineStart
PROPERTIES PositionIsKept SeparatorsReachTheirColumn
