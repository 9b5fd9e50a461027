\* Everything may go wrong.
SPECIFICATION FairSpec
CONSTANTS
  Troubles = {"backend", "position", "link", "restart"}
INVARIANTS
  TypeOK
  NeverAhead
  PendingIsNext
PROPERTIES
  PendingDelivered
