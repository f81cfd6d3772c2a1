\* The shared best-work counter under concurrent check-then-store.
CONSTANTS
  Cores <- MCCores
  MaxU <- MCMaxU
  ZeroBits <- MCZeroBits
  Digests <- MCDigests
  PreTags <- MCPreTags
  HasSender = TRUE
  ReceiverMayDrop = FALSE
SPECIFICATION Spec
PROPERTY BestWorkMonotone
CHECK_DEADLOCK FALSE
