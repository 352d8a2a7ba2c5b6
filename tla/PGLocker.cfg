\* Two databases, three requests and an admin, under the fairness of the Go
\* scheduler and psql; the properties add the timer.  No symmetry: some are
\* liveness properties.
CONSTANTS
  Databases = {d1, d2}
  Requests = {r1, r2, r3}
  Admins = {a1}
  Markers = {m1}
  NoDb = NoDb
  NoReq = NoReq
SPECIFICATION ScheduledSpec
INVARIANTS TypeOK OnePlaceEach ReleaseNeverBlocks WaitingCounted LockHasHandler
PROPERTIES LocksEnd
