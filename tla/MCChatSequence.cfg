SPECIFICATION Spec
CONSTANTS
  owen = owen
  mia = mia
  joe = joe
  a1 = a1
  a2 = a2
  a3 = a3
  a4 = a4
  members = members
  admins = admins
  custom = custom
  j1 = j1
  j2 = j2
  NoRank = NoRank
  Users = {owen, mia, joe}
  Bots = {joe}
  Assocs = {a1, a2, a3, a4}
  UserOf <- MiaTwice
  Ranks = {members, admins, custom}
  Managed = members
  Administrators = admins
  Founders = {a1, a2}
  Founder = a1
  Invited = {members}
  HasUnread = {owen, mia}
  Jobs = {j1}
  MaxRequests = 3
  MaxCrashes = 0
  Served = {"toggle", "update", "create", "order", "remove", "invite", "uninvite", "add", "join", "bot", "kick", "leave", "transfer", "check"}
  Maps <- MapValues
  Orders <- OrderValues
  Checks = {"SEND_MESSAGES"}
PROPERTY OrderStaysBelow
CHECK_DEADLOCK FALSE
