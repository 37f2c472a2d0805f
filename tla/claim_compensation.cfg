CONSTANTS
  u1 = u1
  u2 = u2
  r1 = r1
  r2 = r2
  r3 = r3
  a1 = a1
  a2 = a2
  p1 = p1
  c1 = c1
  c2 = c2
  c3 = c3
  Users = {u1, u2}
  Requests = {r1, r2}
  Activities = {a1}
  Products = {p1}
  Calls = {c1, c2}
  ProductOf <- OneProductOf
  TotalStock <- OneUnit
  ProductStock <- TwoInStock
  NoActivity = NoActivity
  NoTicket = NoTicket
  NoCall = NoCall
  Malformed = Malformed
  NoEvent = NoEvent
  Disturbances = {"redis_down"}
  MaxDisturbances = 1

SPECIFICATION Spec
SYMMETRY Alike
PROPERTIES
  CompensationSparesOrders
\* Calls are one-shot and disturbances bounded, so a behaviour may end.
CHECK_DEADLOCK FALSE
