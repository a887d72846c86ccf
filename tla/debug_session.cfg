SPECIFICATION Spec
CONSTANTS
  MaxSeq = 5
  MaxNest = 2
  RedirectPrint = TRUE
  ApiKinds <- BothApiKinds
INVARIANTS TypeOK AtMostOneAnswer  StopIsShown StackTraceBase RefsKeepTheirMeaning OneStopPerStep
PROPERTY KeepsRequestReply
