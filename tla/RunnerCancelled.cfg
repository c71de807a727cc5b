SPECIFICATION Spec
CONSTANTS
  Runs = {r1, r2}
  Pids = {p1, p2}
  NoPid = NoPid
  MaxConcurrent = 1
  Cancellable = {r1, r2}
  Faults = {}
PROPERTIES CancelledIsFinal
