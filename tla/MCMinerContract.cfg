\* The miner implements PowContract, here with a progress receiver that
\* may be dropped, so that both ways of returning occur.
CONSTANTS
  Cores <- MCCores
  MaxU <- MCMaxU
  ZeroBits <- MCZeroBits
  Digests <- MCContractDigests
  PreTags <- MCPreTags
  HasSender = TRUE
  ReceiverMayDrop = TRUE
SPECIFICATION Spec
INVARIANT
  MinerInv
PROPERTY
  PowContractSpec
  NonceSlotWrites
\* new_with_pow returns: its final state has no successor.
CHECK_DEADLOCK FALSE
