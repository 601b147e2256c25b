SPECIFICATION FairSpec
CONSTANTS
  Workers = {w1, w2, w3}
  Ids = {i1}
  Amounts = {1, 2, 3}
  MaxCredit = 2
INVARIANTS
  TypeOK
  PerformedIsCredited
PROPERTIES
  CancelIsFinal
  WithinCapIsCredited
