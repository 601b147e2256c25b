SPECIFICATION Spec
CONSTANT
  Workers = {w1, w2, w3}
INVARIANTS
  TypeOK
  CirclesNeedAnInverter
  CreditsAreNeverVictims
