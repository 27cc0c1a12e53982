SPECIFICATION Spec
CONSTANTS
  r1 = r1
  Cpus = 2
  Threads = 0
  Finished = TRUE
  Restarts = {r1}
  MaxDeaths = 1
  Unasked = Unasked
CHECK_DEADLOCK FALSE
INVARIANT AtMostOneMain
