\* One order with one stage on its way, and two operations at once.
SPECIFICATION Spec
CONSTANTS
  Ended = 2
  Tasks = {t1, t2}
SYMMETRY Symmetry
INVARIANTS
  TypeOK
  OneKeeper
  ActiveIsWatched
  EndIsTold
