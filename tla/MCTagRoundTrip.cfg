CONSTANTS
  Words <- MCWords
  Hex32 = {"h"}
  Hex64 = {"s"}
  CondWords = {"c"}
  U32Parse <- MCU32Parse
  U32Show <- MCU32Show
  TagUniverse <- MCTagUniverse
  WireUniverse <- MCWireUniverse
SPECIFICATION Spec
\* Encoding and decoding return: the run ends once the array is read.
CHECK_DEADLOCK FALSE
INVARIANT RoundTrip
