\* The miner's contract and termination with a live progress receiver.
CONSTANTS
  Cores <- MCCores
  MaxU <- MCMaxU
  ZeroBits <- MCZeroBits
  Digests <- MCDigests
  PreTags <- MCPreTags
  HasSender = TRUE
  ReceiverMayDrop = FALSE
SPECIFICATION Spec
INVARIANTS
  TypeOK
  ResultMeetsTarget
  PowClaimHonoured
PROPERTIES
  Termination
\* new_with_pow returns: its final state has no successor.
CHECK_DEADLOCK FALSE
