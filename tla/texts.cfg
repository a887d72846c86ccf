SPECIFICATION TextsSpec
CONSTANTS
  Files <- SomeFiles
  Roots <- ScriptsThenMods
  Base <- GameDirectory
  Stem <- StemOf
  Chunks <- SomeChunks
  Lines = {1}
  nil = nil
  Globals <- LuaGlobals
  FieldsPerFlush = 2
  Parse <- LuaParse
  Meaning <- LuaMeaning
  Holds <- LibraryLaw
INVARIANTS ExactStops LookupTellsApart EarlierRootsFirst
INVARIANTS    ReadsWhatIsMeant 
CHECK_DEADLOCK FALSE
