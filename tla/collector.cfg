SPECIFICATION Spec
CONSTANTS
  a = a  b = b  c = c  d = d  e = e
  Registry = e
  main = main
  nil = nil
  Num = Num
  Objects <- MCObjects
  Programs <- MCPrograms
  Levels <- MCLevels
INVARIANTS
  TypeOK  TriColor GrayListed OldAfterOld
PROPERTIES
   FullGCIsComplete
CONSTRAINT Unmoved
CHECK_DEADLOCK FALSE
