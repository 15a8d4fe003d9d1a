SPECIFICATION LocksSpec
CONSTANTS
  Slots = {"k1"}
  Actors <- MCActors
  Sessions <- MCTabs
  ActorOf <- MCTabActorOf
  SlotsOf <- MCTabSlotsOf
  Ttl <- MCTabTtl
  DefaultTtl <- MCTabDefaultTtl
  NoOne = NoOne
INVARIANTS LeaseSafety
PROPERTIES EditingSpec
