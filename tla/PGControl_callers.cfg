SPECIFICATION PGControlSpec
CONSTANTS
  Callers = {"c1", "c2"}
  MaxJobs = 4
  ProgressCap = 1
INVARIANTS CallersRemembered
CHECK_DEADLOCK FALSE
