SPECIFICATION Spec
CONSTANTS
  c1 = c1
  c2 = c2
  k1 = k1
  k2 = k2
  Clients <- MCClients
  Keys <- MCKeys
  Stored <- MCStored
  NumColumns = 2
  MaxEntries = 3
  MaxLookups = 3
  None = None
SYMMETRY MCSymmetry
INVARIANTS
  HandleHolds
CHECK_DEADLOCK FALSE
