CONSTANTS
  u1 = u1
  u2 = u2
  r1 = r1
  r2 = r2
  r3 = r3
  a1 = a1
  a2 = a2
  p1 = p1
  c1 = c1
  c2 = c2
  c3 = c3
  Users = {u1, u2}
  Requests = {r1, r2}
  Activities = {a1, a2}
  Products = {p1}
  Calls = {c1, c2, c3}
  ProductOf <- BothProductOf
  TotalStock <- OneUnitEach
  ProductStock <- TwoInStock
  NoActivity = NoActivity
  NoTicket = NoTicket
  NoCall = NoCall
  Malformed = Malformed
  NoEvent = NoEvent
  Disturbances = {"worker_crash", "mysql_lost", "publish_reject", "publish_error",
    "admission_lost"}
  MaxDisturbances = 3

SPECIFICATION Spec
SYMMETRY Alike
INVARIANTS
  ReservationsBacked
  OrderKeepsReservation
  OwnConfirmations
  NoOveradmission
PROPERTIES
  KeepsContract
\* Calls are one-shot and disturbances bounded, so a behaviour may end.
CHECK_DEADLOCK FALSE
