CONSTANTS
  Users = {u1, u2, u3}
  Requests = {r1, r2}
  Capacity = 2
  Ttl = 1
  MaxMembers = 2
  MaxTime = 3

SYMMETRY Symmetry
SPECIFICATION Spec

INVARIANT AnswersFresh
INVARIANT BlankMeansUnknown
PROPERTY LeastUsedLeaves
