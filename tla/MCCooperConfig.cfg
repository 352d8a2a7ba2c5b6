SPECIFICATION Spec
CONSTANTS
  Langs = {"node", "python"}
  AITools = {"claude", "codex"}
  Registry <- PublishedVersions
  HostVersions <- OnHost
  Settings <- ToolSettings
  Customs = {"mine"}
  MaxSaves = 2
  MaxJobs = 2
  MaxWorld = 1
  ToolScreens <- WizardTools
  HostHas <- WizardHost
  LatestOf <- WizardLatest
  Findable <- FoundVersions
  Defaults <- DefaultDomains
  Files <- ConfigFiles
  Typed <- TypedRows
  TypedPins = {"1", "9"}
  TypedPorts = {0, 4343}
  MaxEdits = 2
  MaxRuns = 2
  MaxRows = 2
  ProofTools = {"claude", "codex"}
  MaxProofs = 2
  MaxHiccups = 1
  MaxKills = 1
  MaxSessions = 1
  Runners = {"tests", "driver", "own"}
  KindOf <- TestRunners
  LastImage = 2
  Sources = {1, 2}
  MaxStarts = 3
  MaxChanges = 1
  MaxUps = 1
INVARIANTS ImagesSound ProofSound
PROPERTIES WizardSound TestersApart
\* A build, an update, the wizard, a proof or a test ends, the last of them for good.
CHECK_DEADLOCK FALSE
