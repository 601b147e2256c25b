SPECIFICATION Spec
CONSTANTS
  Emails = {e1}
  Anyone = any
  Clients = {c1}
  Admins = {}
  Expiries = {2}
  MaxNow = 0
  MaxInvites = 1
  MaxKeys = 2
INVARIANTS
  SuspendedAccountStaysDark
