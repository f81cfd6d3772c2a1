\* One property of event identity or NIP-04, which the code does not keep.
\* verify and decrypted_contents are pure, so readers change no state: a
\* run ends when the events it may make and send are all made and sent.
CONSTANTS
  a = a  b = b  m = m
  Words <- MCWords
  Hex32 = {"h", "ha", "hb", "hm"}
  Hex64 = {"s"}
  CondWords = {"c"}
  U32Parse <- MCU32Parse
  U32Show <- MCU32Show
  Keys = {a, m}
  RelayKeys = {m}
  KeyHex <- MCKeyHex
  PreEvents <- MCPreEvents
  Metadatas <- MCMetadatas
  Messages = {"hi"}
  Ivs = {1}
  ZapIds <- MCZapIds
  Millisats = {21}
  MsatShow <- MCMsatShow
  ZapRelays <- MCZapRelays
  AltTimes = {3}
  AltKinds = {1, 4}
  AltContents <- MCAltContents
  AltTags <- MCAltTags
  ForeignEvents <- MCForeignEvents
  AltTypedTags <- MCAltTypedTags
  MaxTime = 1
  MaxMade = 1
  MaxNet = 3
SPECIFICATION Spec
CHECK_DEADLOCK FALSE
INVARIANT
  MutationDetected
