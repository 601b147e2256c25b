SPECIFICATION Spec
CONSTANTS
  Tenants = {t1}
  Workers = {w1, w2}
  Plans = {basic, pro}
  NoPlan = NoPlan
  Terms = {low, high}
  Admins = {a1}
  Forms = {f1}
  MaxRequests = 2
  MaxOverruled = 1
SYMMETRY Symmetry
INVARIANTS
  TypeOK
  DecidedOnRecord
  OnePending
PROPERTIES
  RefinesApprovals
