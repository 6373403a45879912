SPECIFICATION Spec
CONSTANTS
  Pids = {p1, p2}
  FDs = {f1, f2}
  Users = {u1, u2}
  None = None
  ForkMayFail = TRUE
INVARIANTS
  ManagerTypeOK
  FDsAreAccountedFor
  LiveIsManaged
SYMMETRY Symmetry
CHECK_DEADLOCK FALSE
