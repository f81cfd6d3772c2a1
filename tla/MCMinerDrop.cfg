\* A progress receiver dropped during the search: does the returned event
\* still meet its target?
CONSTANTS
  Cores <- MCCores
  MaxU <- MCMaxU
  ZeroBits <- MCZeroBits
  Digests <- MCDigests
  PreTags <- MCPreTags
  HasSender = TRUE
  ReceiverMayDrop = TRUE
SPECIFICATION Spec
INVARIANT ResultMeetsTarget
CHECK_DEADLOCK FALSE
