\* The backend may be unavailable while a position is overdue.
SPECIFICATION FairSpec
CONSTANTS
  Troubles = {"backend", "position"}
PROPERTIES
  ProgressCatchesUp
