SPECIFICATION Spec
CONSTANTS
  Ups = {"u1", "u2"}
  Downs = {"d1"}
  Clis = {"c1"}
  MaxFaults = 1
  Ports = {"p", "q"}
  Gateways = {"g", "h"}
  MaxUpdates = 1
  MaxServices = 3
  MaxConns = 2
  Windows = {"v", "w"}
  NChunks = 3
  MaxTakes = 1
  Barrels = {"b"}
  Programs = {"w", "x"}
  Limits = {2, 3}
  MaxStages = 2
  MaxTokens = 2
  Capacity = 2
  MaxFiles = 2
  Longest = 2
  MaxWritten = 10
  MaxPieces = 4
  ChanCap = 1
  Calls = {"c", "d"}
  MaxPlayers = 2
  Cooldown = 2
  Block = 2
  MaxTime = 6
  Publishers = {p1, p2}
  Events = {e1, e2}
  Subs = {s1, s2}
  InCap = 1
  NoEvent = NoEvent
  NoSub = NoSub
  NumServers = 2
  LogCap = 1
  FwdCap = 0
  Requests = {r1, r2}
INVARIANTS RelaySound LogFilesSound AlertKept BrokerSound BridgeSound
PROPERTIES  ClipboardSound ServicesProgress
CHECK_DEADLOCK FALSE
