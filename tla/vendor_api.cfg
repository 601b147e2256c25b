SPECIFICATION FairSpec
CONSTANTS
  Workers = {w1, w2}
  Keys = {k1}
  NoKey = NoKey
  Mutations = {"patch"}
  AccessTime = 1
  RefreshTime = 2
  Window = 1
  MaxAttempts = 1
  MaxNow = 2
  MaxSessions = 1
  MaxGen = 1
  MaxRows = 2
CHECK_DEADLOCK FALSE
INVARIANTS
  TypeOK
  OncePerKey
  GuessesAreLimited
PROPERTIES
  TokenSpentOnce
  LoggedOutForGood
  KeySettles
