SPECIFICATION PageSpec
CHECK_DEADLOCK FALSE
CONSTANTS
  Jobs = {j1, j2}
  Transports = {"polling", "ws"}
  MaxNow = 1
  StartSeqs = {8}
  Knows = {{}}
  MaxEventCount = 1
  ReadCount = 1
  MaxRetries = 1
  MaxWsRetries = 1
  MaxFaults = 1
  c1 = c1
  c2 = c2
  Charts = {c1, c2}
  Annotated = {c1}
  Filters = {f1}
  Values = {"a"}
  Scopes <- SomeCharts
  Tabs <- SomeCharts
  MaxActions = 3
INVARIANTS PageTypeOK PollSkipsNothing FiltersTakeEffect
PROPERTIES PollServesListeners FirehoseReaches AnnotationsNeverGoBack LoadingEnds
