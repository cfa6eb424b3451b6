SPECIFICATION FairSpec
CONSTANTS
  r1 = r1 r2 = r2 r3 = r3
  Requests = {r1, r2, r3}
  Keys = {k1, k2}
INVARIANTS Exclusive NoStaleKey
PROPERTY RequestsEnd
