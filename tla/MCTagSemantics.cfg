\* The tag queries of an event over families of events built for them.
\* A reader can always ask another query, so the run has no deadlock to
\* look for; every state is reached from an initial event.
CONSTANTS
  FeedKinds <- MCFeedKinds
  ParamKinds <- MCParamKinds
  ValidUrls <- MCValidUrls
  Bolt11 <- MCBolt11
  Events <- MCEvents
  BadHex = BadHex
SPECIFICATION Spec
INVARIANTS
  ThreadRoles
  ZapDataFromLastInvoice
  DelegationSound
