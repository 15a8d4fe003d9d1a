SPECIFICATION FairConnectionSpec
CONSTANTS
  Clients = {c1, c2, c3}
  NoClient = NoClient
  MaxAttempts = 2
  Ceiling = 3
INVARIANTS
  NeverStranded
  OneSocket
  NoEarlyGiveUp
PROPERTY Recovers
