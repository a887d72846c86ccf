SPECIFICATION Spec
CONSTANTS
  MaxSeq = 2
  MaxNest = 1
  RedirectPrint = TRUE
  ApiKinds <- NoApi
INVARIANT DetachRestoresPrint
