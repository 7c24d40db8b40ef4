SPECIFICATION Spec
CONSTANTS
  Logins = {l1, l2}
  Callbacks = {c1, c2}
  Identities = {i1, i2}
  Emails = {e1, e2}
  Requests = {r1, r2, r3}
  Admin = admin
  None = none
  RedisMayFail = TRUE
SYMMETRY Symmetry
CHECK_DEADLOCK FALSE
INVARIANTS
  
  WorkIsTheUsers
