SPECIFICATION Spec
CONSTANTS
  Pids = {p1, p2}
  FDs = {f1, f2}
  Users = {u1}
  None = None
  ForkMayFail = FALSE
PROPERTIES
  ZombiesAreReaped
  StopReturns
