\* Every byte string of up to two bytes as a key under the map's namespace.
CONSTANTS
  MaxKeyLen = 2
  Spot = Spot
  Margin = Margin
  Safe = Safe
SPECIFICATION Spec
INVARIANTS
  IndexedTypeDowncasts
  TypeOK
  RoundTrip
  DecodeIsCanonical
  OrderPreserved
\* A run ends once the key is decoded.
CHECK_DEADLOCK FALSE
