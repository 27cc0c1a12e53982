SPECIFICATION Spec
SYMMETRY Slots
CONSTANTS
  ann = ann
  ben = ben
  cat = cat
  j1 = j1
  j2 = j2
  Users = {ann, ben}
  Closed = {}
  Jobs = {j1, j2}
  MaxRequests = 4
  MaxCrashes = 1
INVARIANT TypeOK
INVARIANT RowsMirror
INVARIANT OneBlock
PROPERTY KeepsPromise
CHECK_DEADLOCK FALSE
