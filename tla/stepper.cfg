SPECIFICATION Spec
CONSTANTS
  Main = main
  co1 = co1
  co2 = co2
  NoThread = nil
  Coroutines <- TwoCoroutines
  Wrapped <- OnlyCreated
  MaxHeight = 2
  Yields = TRUE
  EntryKinds <- AllEntries
SYMMETRY AnyCoroutine
INVARIANTS StepKeepsDepth NeverOverruns
