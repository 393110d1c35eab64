SPECIFICATION Spec
CHECK_DEADLOCK FALSE
CONSTANTS
  Jobs = {j1, j2}
  Transports = {"ws"}
  MaxNow = 3
  StartSeqs = {0}
  Knows = {{"tab", "server"}}
  MaxEventCount = 1
  ReadCount = 1
  MaxRetries = 1
  MaxWsRetries = 1
  MaxFaults = 2
PROPERTY ReconnectResends
