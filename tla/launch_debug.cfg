SPECIFICATION Spec
CONSTANTS
  Symbols <- SomeSymbols
  Ignored <- EngineKeeps
  Missing <- NotInLuaDll
  CommandLines = {"flag"}
INVARIANT DebugModeOnFlag
CHECK_DEADLOCK FALSE
