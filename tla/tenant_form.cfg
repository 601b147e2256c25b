SPECIFICATION Spec
CONSTANTS
  Tenants = {t1}
  NoTenant = NoTenant
  Workers = {w1}
  Crons = {}
  Editors = {e1}
  ExternalIds = {x1}
  NoExt = NoExt
  Amounts = {2}
  MaxCredit = 2
  MaxBalance = 3
  Policies <- OnlyBasic
  MaxNow = 1
  MaxLedger = 0
INVARIANTS LedgerChain
