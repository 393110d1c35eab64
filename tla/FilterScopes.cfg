SPECIFICATION ScopesSpec
CHECK_DEADLOCK FALSE
CONSTANTS
  NTabs = 2
  TreeCharts = {c1, c2, c3, c4}
  FilterBoxes = {c1}
  Columns = {"x"}
INVARIANT AppliesAsChecked
