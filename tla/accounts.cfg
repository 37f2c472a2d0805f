CONSTANTS
  c1 = c1
  c2 = c2
  c3 = c3
  n1 = n1
  w1 = w1
  w2 = w2
  Calls = {c1, c2, c3}
  Names = {n1}
  Passwords = {w1, w2}
  MaxOutside = 2
  MaxErrors = 1
  NoOp = NoOp
  NoToken = NoToken

SPECIFICATION Spec
INVARIANTS
  TypeOK
  OneAccountPerName
  AccountsStayTheirs
  AdminRoutesNeedAppointment
PROPERTIES
  SomebodyGetsTheName
\* Calls are one-shot, so a behaviour ends when all are answered.
CHECK_DEADLOCK FALSE
