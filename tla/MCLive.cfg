SPECIFICATION LiveSpec
CONSTANTS
  NoDoc = NoDoc
  NoOne = NoOne
  Gone = Gone
  NoRow = NoRow
  NoList = NoList
  NoFile = NoFile
  NoLink = NoLink
  coll = coll
  coll2 = coll2
  file1 = file1
  u1 = u1
  u2 = u2
  k1 = k1
  k2 = k2
  req1 = req1
  s1 = s1
  s2 = s2
  w = w
  Users = {1, 2}
  BotsOf <- OwnersBot
  Checks = {w, w2}
  Hour = 1
  Day = 2
  Warn = 3
  Grace = 6
  LastAsk = 1
  MaxNow = 10
  MaxAsks = 2
  MaxAdmin = 0
  MaxFills = 0
  MaxThrows = 1
  MaxCrashes = 1
CHECK_DEADLOCK FALSE
INVARIANT LeavesNothing
PROPERTY StaleAccessEnds
PROPERTY UploadsSettle
PROPERTY LinksSettle
PROPERTY DueIsDeleted
