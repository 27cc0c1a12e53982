SPECIFICATION FilesSpec
SYMMETRY Alike
CONSTANTS
  d1 = d1
  d2 = d2
  Users = {u1, u2}
  Collections = {c1, c2}
  Slots = {s1, s2}
  Grants = {{"read", "write", "configure"}}
  MaxRequests = 2
  MaxCrashes = 0
  Invited = FALSE
  NoOne = NoOne
  Gone = Gone
  NoRow = NoRow
  NoList = NoList
  Files = {f1}
  Targets = {d1, d2}
  Rules <- TwoRules
  Known = {TRUE}
  MaxUploads = 3
  MaxDeaths = 1
  NoFile = NoFile
  Links = {k1, k2}
  Sweeps = {w1}
  NoLink = NoLink
CHECK_DEADLOCK FALSE
INVARIANT FilesTypeOK
INVARIANT AccessIsEarned
INVARIANT ListsTellTheTables
INVARIANT UploadsAreAccounted
INVARIANT ListTellsTheApprovals
INVARIANT KeysTellTheLinks
