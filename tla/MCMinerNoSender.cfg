\* The miner's contract and termination when no progress sender is given.
CONSTANTS
  Cores <- MCCores
  MaxU <- MCMaxU
  ZeroBits <- MCZeroBits
  Digests <- MCDigests
  PreTags <- MCPreTags
  HasSender = FALSE
  ReceiverMayDrop = FALSE
SPECIFICATION Spec
INVARIANTS
  ResultMeetsTarget
  PowClaimHonoured
PROPERTIES
  Termination
\* new_with_pow returns: its final state has no successor.
CHECK_DEADLOCK FALSE
