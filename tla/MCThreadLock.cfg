SPECIFICATION FairLocksSpec
CONSTANTS
  Slots = {"k1", "k2"}
  Actors <- MCActors
  Sessions <- MCSessions
  ActorOf <- MCActorOf
  SlotsOf <- MCSlotsOf
  Ttl <- MCTtl
  DefaultTtl <- MCDefaultTtl
  NoOne = NoOne
INVARIANTS LeaseSafety
PROPERTIES EditingSpec NoAbandonedLock PresenceSettles
