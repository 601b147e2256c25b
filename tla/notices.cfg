SPECIFICATION FairSpec
CONSTANTS
  Tenants = {t1}
  Nobody = Nobody
  Muddled = Muddled
  Runs = {r1, r2}
  Editors = {e1}
  Policies <- All
  Amounts = {1}
  Day = 1
  Throttle = 1
  MaxNow = 1
  MaxTopUps = 1
  MaxMishaps = 1
  MaxBusy = 2
INVARIANTS
  TypeOK
PROPERTIES
  OncePerThrottle
  LockedOutIsTold
  OnlyTheUnpaidAreDunned
