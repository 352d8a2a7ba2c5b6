SPECIFICATION Spec
CONSTANTS
  Conns = {c1, c2}
  RequestCap = 1
  DecisionCap = 1
  AclFwdCap = 0
  DecisionFwdCap = 0
  Keys = {"a", "d", "A"}
INVARIANT TimeoutMeansUndecided
CHECK_DEADLOCK FALSE
