CONSTANTS
  u1 = u1
  u2 = u2
  r1 = r1
  r2 = r2
  a1 = a1
  a2 = a2
  p1 = p1
  p2 = p2
  e1 = e1
  e2 = e2
  e3 = e3
  Users = {u1, u2}
  Requests = {r1, r2}
  Activities = {a1, a2}
  Products = {p1, p2}
  Editors = {e1, e2, e3}
  Listed = {a1, p1}
  Stocks = {1}
  Allocations = {1}
  Quantities = {2}
  MaxErrors = 1
  ProductOf <- TwoProductOf
  TotalStock <- TwoUnits
  ProductStock <- TwoInStock
  NoActivity = NoActivity
  NoOp = NoOp
  NoCopy = NoCopy

SPECIFICATION Spec
SYMMETRY Alike
INVARIANTS
  TypeOK
  ActivitiesHaveProducts
PROPERTIES
  DriftNeedsStaleSave
  ProductStockIsTheProducts
\* Calls are one-shot, so a behaviour ends when all are answered.
CHECK_DEADLOCK FALSE
