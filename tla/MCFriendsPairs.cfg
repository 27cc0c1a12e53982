SPECIFICATION Spec
SYMMETRY Slots
CONSTANTS
  ann = ann
  ben = ben
  cat = cat
  j1 = j1
  j2 = j2
  Users = {ann, ben, cat}
  Closed = {cat}
  Jobs = {j1, j2}
  MaxRequests = 3
  MaxCrashes = 0
PROPERTY KeepsPromise
CHECK_DEADLOCK FALSE
