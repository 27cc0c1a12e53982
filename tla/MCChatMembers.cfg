SPECIFICATION Spec
CONSTANTS
  owen = owen
  mia = mia
  joe = joe
  a1 = a1
  a2 = a2
  a3 = a3
  a4 = a4
  members = members
  admins = admins
  custom = custom
  j1 = j1
  j2 = j2
  NoRank = NoRank
  Users = {owen, mia, joe}
  Bots = {}
  Assocs = {a1, a2, a3, a4}
  UserOf <- JoeTwice
  Ranks = {members, admins, custom}
  Managed = members
  Administrators = admins
  Founders = {a1, a2}
  Founder = a1
  Invited = {NoRank}
  HasUnread = {owen, mia}
  Jobs = {j1, j2}
  MaxRequests = 2
  MaxCrashes = 0
  Served = {"add", "join", "kick", "leave", "transfer", "destroy", "invite", "uninvite", "check"}
  Maps <- MapValues
  Orders <- OrderValues
  Checks = {"SEND_MESSAGES"}
INVARIANT CacheTellsTheTables
INVARIANT OwnerIsMember
INVARIANT OneSeatPerUser
CHECK_DEADLOCK FALSE
