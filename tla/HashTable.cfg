SPECIFICATION Spec
CONSTANTS
  Key <- MCKey
  Stored <- MCStored
  Value = {m1, m2, m3, m4}
  HashOf <- MCHashOf
  Same <- MCSame
  Primes <- MCPrimes
INVARIANTS WellPlaced WalkIsComplete
PROPERTIES RefinesMap FoundByGroup
SYMMETRY MessagesAlike
CHECK_DEADLOCK FALSE
