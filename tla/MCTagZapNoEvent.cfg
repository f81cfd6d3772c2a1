\* The code's tag queries against one stated property: ZapNothingWithoutEvent.
\* A reader can always ask another query: no deadlock to look for.
CONSTANTS
  FeedKinds <- MCFeedKinds
  ParamKinds <- MCParamKinds
  ValidUrls <- MCValidUrls
  Bolt11 <- MCBolt11
  Events <- MCEvents
  BadHex = BadHex
SPECIFICATION Spec
INVARIANT
  ZapNothingWithoutEvent
