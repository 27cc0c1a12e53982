SPECIFICATION TalkSpec
SYMMETRY Alike
CONSTANTS
  Chats = {a, b}
  Slots = {s1, s2}
  MaxMessages = 2
  MaxCrashes = 1
  LeavesReceipts = TRUE
  NoDoc = NoDoc
  NaN = NaN
  Missing = Missing
  Clients = {p, q}
  Texts = {a, b}
  Editors = {e1}
  MaxEdits = 2
  MaxLoads = 1
  Tries = 2
  NoList = NoList
  NoMsg = NoMsg
CHECK_DEADLOCK FALSE
INVARIANT TalkTypeOK
INVARIANT NothingInvented
INVARIANT BadgeIsRight
INVARIANT KeysOfMembers
INVARIANT Settled
