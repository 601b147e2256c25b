SPECIFICATION FairSpec
CONSTANTS
  Tenants = {t1}
  NoTenant = NoTenant
  Workers = {w1, w2}
  Crons = {}
  Editors = {}
  ExternalIds = {x1}
  NoExt = NoExt
  Amounts = {2}
  MaxCredit = 2
  MaxBalance = 3
  Policies <- OnlySoft
  MaxNow = 2
  MaxLedger = 0
INVARIANTS
  TypeOK
  LedgerChain
  NoDebt
  CreditedOnce
  ChargesDontOverlap
PROPERTIES
  PaidHeartbeatIsActive
  RefinesWallet
  Revives
