SPECIFICATION DashboardsSpec
CHECK_DEADLOCK FALSE
CONSTANTS
  InitialLayouts <- MCLayouts
  NewTypes = {"TABS", "ROW", "COLUMN", "CHART", "HEADER"}
  MaxComponents = 14
  MaxEdits = 2
  Careful = TRUE
  Editors = {e1}
  UNDO_LIMIT = 1
  Seconds = 2
  MaxLayouts = 3
  c1 = c1
  c2 = c2
  c3 = c3
  old1 = old1
  old2 = old2
  Locals = {old1, old2}
  WithTable = {old1}
  Starts <- MCStarts
  Placeholder = Placeholder
  MaxAdded = 1
  MaxTabStates = 3
  MaxLoads = 2
  MaxActs = 2
  MaxFaults = 1
  NTabs = 2
  TreeCharts = {c1, c2, c3}
  FilterBoxes = {c1, c2}
  Columns = {"x"}
INVARIANTS
  DashboardsTypeOK EditsAreSound FlagTellsOfChanges ScopesAreAsChecked TabsAreKept
PROPERTIES
  OnlyDeletionsRemoveCharts
