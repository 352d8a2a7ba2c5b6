\* A release by force that meets the end of the stream it ends.
CONSTANTS
  Databases = {d1}
  Requests = {r1, r2, r3}
  Admins = {a1}
  Markers = {m1}
  NoDb = NoDb
  NoReq = NoReq
SPECIFICATION Spec
INVARIANT Exclusive
