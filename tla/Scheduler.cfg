\* One task and three requests about it: a third may commit between what the other
\* two have read and what they register.
SPECIFICATION SchedFairSpec
CONSTANTS
  Tasks = {t1}
  Requests = {h1, h2, h3}
  Crons = {c1, c2}
  OddCrons = {odd}
  Empty = Empty
  NoCron = NoCron
  Keep = Keep
INVARIANTS RegistrationFollowsRow
PROPERTIES SilencedTasksRest
