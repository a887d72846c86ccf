SPECIFICATION FairSpec
CONSTANTS
  MaxSeq = 4
  MaxNest = 1
  RedirectPrint = FALSE
  ApiKinds <- NoApi
PROPERTIES RequestsAreTaken PauseStops
