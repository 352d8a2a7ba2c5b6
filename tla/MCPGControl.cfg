SPECIFICATION PartsSpec
CONSTANTS
  Databases = {d1, d2}
  Requests = {r1, r2, r3}
  Admins = {}
  Markers = {m1}
  NoDb = NoDb
  NoReq = NoReq
  Callers = {"c1"}
  MaxJobs = 3
  ProgressCap = 1
  Tests = {"t", "u"}
  Dbs = {"d", "e"}
  MaxStreams = 4
  MaxRevoked = 1
  MaxFaults = 2
  MaxReturns = 2
  MaxRestarts = 2
  NInstances = 2
  MaxRefused = 2
  NDbs = 3
  MaxChanges = 2
  FeedCap = 1
  MaxLate = 1
  MaxReaders = 2
  PanelRows = {1, 2}
INVARIANTS PanelSound ClientSound DatabasesSound HoldersKeepTheirLock Exclusive
PROPERTIES ControlProgress PoolLiveSpec
CHECK_DEADLOCK FALSE
