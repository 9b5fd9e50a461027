\* Three copies of requests in flight, two keys and requests without one.
SPECIFICATION Spec
CONSTANTS
  Requests = {r1, r2, r3}
  Slots = {k1, k2}
  Payloads = {p1, p2}
  Bodies = {b1, b2, b3}
  NoSlot = NoSlot
  NoPayload = NoPayload
  NoBody = NoBody
SYMMETRY CallSymmetry
INVARIANTS
  Consistent
  OneEffectPerKey
PROPERTIES
  ImplementsFirstCall
