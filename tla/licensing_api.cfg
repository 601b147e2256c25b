SPECIFICATION Spec
CONSTANTS
  Emails = {e1, e2}
  Anyone = any
  Clients = {c1, c2}
  Admins = {}
  Expiries = {1}
  MaxNow = 0
  MaxInvites = 2
  MaxKeys = 2
SYMMETRY Symmetry
INVARIANTS
  TypeOK
  KillSwitchHolds
  OneAccountPerInvite
  WithdrawnOpensNothing
PROPERTIES
  RevokedIsFinal
