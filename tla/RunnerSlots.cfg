\* Four runs for two slots: a woken waiter that has not resumed, a permit that
\* comes free meanwhile and a run that arrives then.
SPECIFICATION Spec
CONSTANTS
  Runs = {r1, r2, r3, r4}
  Pids = {p1, p2, p3, p4}
  NoPid = NoPid
  MaxConcurrent = 2
  Cancellable = {}
  Faults <- SlotFaults
SYMMETRY Symmetry
INVARIANTS PermitAccounting NoLostWakeup ActiveIsExecuting
PROPERTIES ImplementsPool
