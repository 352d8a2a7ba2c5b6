SPECIFICATION FairSpec
CONSTANTS
  Conns = {c1, c2}
  RequestCap = 1
  DecisionCap = 1
  AclFwdCap = 2
  DecisionFwdCap = 2
  Keys = {"a", "d", "A"}
INVARIANTS TypeOK FailClosed NoSendOnClosed HistoryAgrees OutcomesArrive
PROPERTIES VerdictIsFinal ListenerProgress
CHECK_DEADLOCK FALSE
