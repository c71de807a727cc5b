\* One run with three lines for a history of two and a file of two; two pages.
SPECIFICATION ConsoleFairSpec
CONSTANTS
  Runs = {r1}
  Pids = {p1}
  NoPid = NoPid
  MaxConcurrent = 1
  Cancellable = {r1}
  Faults <- ConsoleFaults
  Watched = r1
  Pages = {a, b}
  MaxLines = 3
  BufferSize = 2
  FileLimit = 2
INVARIANTS NoGapNoRepeat FollowersHear BusIsFreed
PROPERTIES EndTellsOutcome ImplementsStream PagesEnd
