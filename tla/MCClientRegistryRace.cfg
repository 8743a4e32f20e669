SPECIFICATION Spec
CONSTANTS
  Clients = {c1}
  Keys = {k1, m1}
  Minted = {m1}
  Capabilities = {}
  MaxClients = 1
  Legacy <- MCLegacy
  Admins = {a1}
  Stores = {s1}
  Inodes = {i1, i2, i3}
  MaxClock = 3
  MaxFaults = 0
  MaxOutages = 0
  IOErrors = FALSE
  NoRow = norow
  NoKey = nokey
  Broken = broken
  Unavailable = unavailable
  Absent = absent
  Special = special
  Closed = closed
SYMMETRY FileSymmetry
INVARIANTS UnavailableMeansBroken
CHECK_DEADLOCK FALSE
