SPECIFICATION GameSpec
CONSTANTS
  Symbols <- SomeSymbols
  Ignored <- EngineKeeps
  Missing <- NotInLuaDll
  CommandLines = {"none", "exe", "flag"}
  Numbers = {1, 2}
  Strings = {11, 12, 13}
  Hash <- LuaHash
  Powers = {1, 2, 4, 8}
  None = None
  Threads = {main, coroutine}
  Main = main
  MaxCCalls = 4
  MaxDepth = 4
  MaxStack = 5
  Objects = {"o1", "o2"}
  SystemSockets = {1, 2}
  Timed = {"o1"}
  Handles = {"h1", "h2"}
  Streams = {3, 4}
  Directories = {"d"}
  MaxIterators = 1
INVARIANTS NeverHalfStarted OneRuntimePerState  ReleasedOnce WaitsAreBounded
PROPERTIES ImplementsMap ImplementsCoroutines
CHECK_DEADLOCK FALSE
