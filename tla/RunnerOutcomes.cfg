\* Two runs for one slot, both cancelled at any time, every fault that is reported.
SPECIFICATION FairSpec
CONSTANTS
  Runs = {r1, r2}
  Pids = {p1, p2}
  NoPid = NoPid
  MaxConcurrent = 1
  Cancellable = {r1, r2}
  Faults <- ReportedFaults
INVARIANTS OutcomeMatchesProcess UnfinishedHasExecutor CancelTargetsExecutor
PROPERTIES OutcomeStands SignalFindsOwn RunsFinish CancelFreesSlot
