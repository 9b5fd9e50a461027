\* Two purchases, one to a saved location, requests that time out and run on.
SPECIFICATION FairSpec
CONSTANTS
  Requests = {r1, r2}
  Contents = {chosen, saved}
  SavedContents = {saved}
  Keys = {k1, k2}
  Points = {p1, p2}
  Orders = {o1, o2}
  None = None
INVARIANTS
  OneOrderPerAttempt
  RetryNeverRefused
  OrderGoesToItsPoint
PROPERTIES
  SuccessIsItsOwnOrder
  CheckoutCompletes
