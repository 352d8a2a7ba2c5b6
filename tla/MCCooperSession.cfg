SPECIFICATION Spec
CONSTANTS
  Tabs <- TabOrder
  Home = "containers"
  Barrels = {"b1"}
  Proxy = "proxy"
  MaxOrders = 2
  MaxCaptures = 3
  MaxClears = 1
  StartTargets <- StartTable
  StopTargets <- StopTable
  Full = 100
  Increment = 15
  Capacities = {2, 6}
  Heights = {3, 6, 8}
  DetailRows = 3
  MaxEntries = 7
  MaxLines = 6
  Forms <- TypedRules
  Reserved = {3}
  MaxPort = 3
  MaxRules = 2
  MaxApplies = 2
  MaxSettings = 1
  Settings = {"timeout", "limit"}
  Least <- LeastSet
  Most <- MostSet
  Routes = {"a", "b"}
  Typed = {0, 2, 9}
  MaxSent = 2
  MaxRoutes = 2
INVARIANTS PanelTells ListsSound ChangesSound
PROPERTIES SessionProgress
CHECK_DEADLOCK FALSE
