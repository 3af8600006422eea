SPECIFICATION Spec
CONSTANTS
  NoKey = NoKey
  Nonces = {n1, n2}
  Keys = {k1, k2}
  MaxAge = 1
  NonceTtl = 2
  MaxTime = 5
SYMMETRY Symmetry
INVARIANTS
  TypeOK
  RelayedAtMostOnce
  NonceOnlyFromAccepted
