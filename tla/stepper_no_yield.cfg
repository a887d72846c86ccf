SPECIFICATION Spec
CONSTANTS
  Main = main
  co1 = co1
  co2 = co2
  NoThread = nil
  Coroutines <- TwoCoroutines
  Wrapped <- OneWrapped
  MaxHeight = 2
  Yields = FALSE
  EntryKinds <- AllEntries
INVARIANT OnlyParentsStop
