SPECIFICATION Spec
CONSTANTS
  owen = owen
  mia = mia
  joe = joe
  a1 = a1
  a2 = a2
  a3 = a3
  a4 = a4
  members = members
  admins = admins
  custom = custom
  j1 = j1
  j2 = j2
  NoRank = NoRank
  Users = {owen, mia, joe}
  Bots = {joe}
  Assocs = {a1, a2, a3}
  UserOf <- OneEach
  Ranks = {members, admins, custom}
  Managed = members
  Administrators = admins
  Founders = {a1, a2}
  Founder = a1
  Invited = {}
  HasUnread = {owen, joe}
  Jobs = {j1, j2}
  MaxRequests = 2
  MaxCrashes = 0
  Served = {"toggle", "update", "create", "order", "remove"}
  Maps <- MapValues
  Orders <- OrderValues
  Checks = {"SEND_MESSAGES"}
INVARIANT TypeOK
INVARIANT CacheTellsTheTables
INVARIANT PrivilegeIsConserved
INVARIANT HierarchyIsStrict
CHECK_DEADLOCK FALSE
