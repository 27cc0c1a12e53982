SPECIFICATION UsersSpec
SYMMETRY Alike
CONSTANTS
  Slots = {s1, s2, s3}
  Limit = 3
  Window = 2
  Users = {1}
  BotsOf <- NoBots
  Checks = {k1}
  Hour = 2
  Day = 4
  Warn = 8
  Grace = 16
  LastAsk = 3
  MaxNow = 23
  MaxAsks = 2
  MaxAdmin = 1
  MaxFills = 1
  MaxThrows = 0
  MaxCrashes = 1
  NoDoc = NoDoc
  Editors = {a}
  Writers = {a}
  NoteSlots = {s1, s2}
  AutoAge = 1
  Manual = 0
  MaxTime = 2
  MaxChanges = 1
  MaxSaves = 3
  Conns = {1, 2, 3}
  Socks = {w1}
  Visible = {"online"}
  Beside = 1
  MaxStarts = 1
  Cpus = 4
  Threads = 0
  Finished = TRUE
  Restarts = {r1, r2}
  MaxDeaths = 2
  Unasked = Unasked
CHECK_DEADLOCK FALSE
INVARIANT UsersTypeOK
INVARIANT Bounded
INVARIANT DeletionIsAnnounced
INVARIANT CopyTellsTheRow
INVARIANT VersionsAreSpaced
INVARIANT StoredIsShown
INVARIANT PresenceAgrees
INVARIANT WorkersAreRight
