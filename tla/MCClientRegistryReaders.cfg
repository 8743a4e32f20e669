SPECIFICATION Spec
CONSTANTS
  Clients = {c1}
  Keys = {m1, m2}
  Minted = {m1, m2}
  Capabilities = {}
  MaxClients = 1
  Legacy <- MCLegacy
  Admins = {a1}
  Stores = {s1}
  Inodes = {i1, i2, i3}
  MaxClock = 3
  MaxFaults = 1
  MaxOutages = 0
  IOErrors = TRUE
  NoRow = norow
  NoKey = nokey
  Broken = broken
  Unavailable = unavailable
  Absent = absent
  Special = special
  Closed = closed
SYMMETRY FileSymmetry
INVARIANTS TypeOK NoStaleAnswer QuietCallSucceeds RevokedIsRefused
CHECK_DEADLOCK FALSE
