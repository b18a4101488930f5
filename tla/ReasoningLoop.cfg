SPECIFICATION FairSpec
CONSTANTS
  Calls <- MCCalls
  Direct <- MCDirect
  Deferred <- MCDeferred
  Outputs = {o1, o2}
  ReadTools = {"read_file"}
  Refusable = {"git_add"}
  MaxSteps = 2
  RatioNum = 7
  RatioDen = 10
  SearchLimit = 1
  Guarded = FALSE
  RepeatLimit = 3
  ToolRepeatLimit = 4
  WindowSize = 4
  ResultLimit = 2
  Reflecting = TRUE
  ReflectMin = 2
  ReflectEvery = 1
  MaxCalls = 2
  MaxTurns = 2
  NoReason = NoReason
INVARIANTS NothingIsStale PublishedIsSaved 
PROPERTIES TurnEnds
CHECK_DEADLOCK FALSE
