CONSTANTS
  Users = {u1, u2}
  Admins = {}
  MaxWrites = 3
  Keys = {k1, k2}
  Texts = {blank, x1}
  Blank = blank

SPECIFICATION Spec
SYMMETRY Symmetry

INVARIANT EnvTypeOK
INVARIANT OwnerUnlessOutdated
INVARIANT AdmissionJust
INVARIANT AnswersTrue
INVARIANT EditsReachRuns
