SPECIFICATION Spec
CONSTANTS
  Tenants = {t1}
  NoTenant = NoTenant
  Workers = {w1}
  Crons = {c1}
  Editors = {e1}
  ExternalIds = {}
  NoExt = NoExt
  Amounts = {1, 2, 3}
  MaxCredit = 3
  MaxBalance = 2
  Policies <- BasicAndCostly
  MaxNow = 0
  MaxLedger = 1
INVARIANTS
  NoDebt
