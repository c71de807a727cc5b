SPECIFICATION SchedSpec
CONSTANTS
  Tasks = {t1}
  Requests = {h1}
  Crons = {c1}
  OddCrons = {}
  Empty = Empty
  NoCron = NoCron
  Keep = Keep
PROPERTIES StartKeepsArchivedSilent
