SPECIFICATION FairSpec
CONSTANTS
  Clients = {c1, c2}
  Keys = {k1, m1}
  Minted = {m1}
  Capabilities = {}
  MaxClients = 2
  Legacy <- MCLegacy
  Admins = {a1, a2}
  Stores = {}
  Inodes = {i1, i2, i3}
  MaxClock = 3
  MaxFaults = 0
  MaxOutages = 1
  IOErrors = FALSE
  NoRow = norow
  NoKey = nokey
  Broken = broken
  Unavailable = unavailable
  Absent = absent
  Special = special
  Closed = closed
INVARIANTS RevocationHolds KeyHandedOver
PROPERTIES NoLostChange CommandsEnd
CHECK_DEADLOCK FALSE
