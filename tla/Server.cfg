SPECIFICATION ServerSpec
CHECK_DEADLOCK FALSE
CONSTANTS
  u1 = u1
  u2 = u2
  db1 = db1
  t1 = t1
  ch1 = ch1
  d1 = d1
  rep1 = rep1
  Users = {u1, u2}
  Admins = {u2}
  Databases = {db1}
  Datasets = {t1}
  Charts = {ch1}
  Dashboards = {d1}
  Reports = {rep1}
  DbNames = {"n1", "n2"}
  Free = Free
  Gone = Gone
  Handlers = {1, 2}
  MaxRequests = 3
  FirstRows <- MCRows
  OwnerLists <- MCOwnerLists
  ann = ann
  bob = bob
  Readers = {ann, bob}
  Filters <- MCFilters
  Anonymous = {}
  Questions = {"q"}
  Slots = {1, 2}
  MaxAsked = 2
  MaxMoves = 1
  Minute = 8
  Margin = 2
  DelayRanges <- MCDelayRanges
  Minutes = 4
  base = base
  base2 = base2
  data = data
  data2 = data2
  line = line
  pie = pie
  board = board
  board2 = board2
  Sites = {"here", "there"}
  FirstSites <- MCSites
  NoUuid = NoUuid
  Nameless = Nameless
  MaxSteps = 5
  TagUsers = {ann, bob}
  ObjectIds = {1}
  CustomNames = {"x"}
  Posted <- MCPosted
  MaxChanges = 4
  NoOne = NoOne
  SocketIds = {"s1", "s2"}
  Channels = {"a", "b"}
  pingSocketsIntervalMs = 2
  socketResponseTimeoutMs = 6
  gcChannelsIntervalMs = 5
  PongWithin = 1
  g1 = g1
  g2 = g2
  Groups = {g1, g2}
  Null = Null
  Times = {1, 2}
  FirstTables <- MCTables
  SeriesRequests <- MCSeriesRequests
  MaxInserts = 1
INVARIANTS
  ServerTypeOK
  
  ImportFollowsBundle OwnersFindTheirObjects
  ServesRightRows AnswersAsTold ShowsTheTopSeries
  SentOnce NoneMissed
  LiveClientsAreServed GoneClientsAreReclaimed
PROPERTIES
  OwnersAreKept
