SPECIFICATION FairSpec
CONSTANTS
  Workers = {w1, w2}
  Ids = {i1}
  Offers <- ThreeOffers
  Claims = {1, 2, 4}
  MaxCredit = 3
INVARIANTS
  TypeOK
  ConfirmedIsCredited
  CreditWasReserved
PROPERTIES
  CompletedInTheEnd
