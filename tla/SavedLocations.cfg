\* Two places, two creations at once, keys repeated or absent.
SPECIFICATION FairSpec
CONSTANTS
  Requests = {r1, r2}
  Keys = {k1, k2}
  Locations = {l1, l2, l3}
  MAX_SAVED_LOCATIONS = 2
  None = None
INVARIANTS
  LimitHolds
  OneCounter
PROPERTIES
  EveryCreationAnswered
