SPECIFICATION FairSpec
CONSTANTS
  Emails = {e1}
  Anyone = any
  Clients = {c1, c2}
  Admins = {a1}
  Expiries = {1, 2}
  MaxNow = 1
  MaxInvites = 2
  MaxKeys = 1
PROPERTIES
  Onboarded
