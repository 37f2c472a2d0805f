CONSTANTS
  u1 = u1
  u2 = u2
  r1 = r1
  r2 = r2
  a1 = a1
  p1 = p1
  c1 = c1
  c2 = c2
  c3 = c3
  Users = {u1, u2}
  Requests = {r1, r2}
  Activities = {a1}
  Products = {p1}
  Calls = {c1, c2, c3}
  ProductOf <- MCProductOf
  TotalStock <- OneUnit
  ProductStock <- ThreeInStock
  NoActivity = NoActivity
  NoOp = NoOp
  Quantities = {1, 2}
  Edits = {1}
  MaxEdits = 1
  MaxErrors = 1

SPECIFICATION Spec
SYMMETRY Alike
INVARIANTS
  TypeOK
  UnitsConserved
  SettledOnce
  AnswersAreTrue
PROPERTIES
  SalesEnd
\* Calls are one-shot, so a behaviour ends when all are answered.
CHECK_DEADLOCK FALSE
