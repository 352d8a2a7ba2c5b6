SPECIFICATION Spec
CONSTANTS
  MaxReruns = 1
  MaxOut = 1
  MaxErr = 1
  ChanCap = 1
  MaxTicks = 1
  Writers = {"p", "a", "b"}
  LogAbove <- LogAboveDef
  MaxBytes = 3
  MaxChunk = 2
  LogNodes = {"a", "b"}
  MaxLines = 2
  Hits = {2}
  Heights = {1, 2}
  ViewNodes = {"p", "a", "b"}
  Under <- UnderDef
  NameRank <- NameRankDef
  Found = {"b"}
  Rows = {1, 2}
  Sizes = {1, 2}
  MaxCleaning = 2
  Packages = {"p", "q"}
  Tests = {"A", "As", "Axy"}
  PrefixNodes = {"Ax"}
  Parent <- ParentDef
  Above <- AboveDef
  Tree = "tree"
INVARIANTS
  RunningDrains
CHECK_DEADLOCK FALSE
