\* Spec 5 says ties between winning workers are not possible.
CONSTANTS
  Cores <- MCCores
  MaxU <- MCMaxU
  ZeroBits <- MCZeroBits
  Digests <- MCDigests
  PreTags <- MCPreTags
  HasSender = FALSE
  ReceiverMayDrop = FALSE
SPECIFICATION Spec
INVARIANT AtMostOneWinner
CHECK_DEADLOCK FALSE
