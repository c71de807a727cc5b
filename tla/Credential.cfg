\* One credential, two keepalive instances, one test at a time.
SPECIFICATION CredFairSpec
CONSTANTS
  Creds = {c1}
  Tests = {q1}
  Keepalives = {i1, i2}
  Imported = Imported
  NoCred = NoCred
INVARIANTS JobHasInstance ActiveIsKept
PROPERTIES NoRenewalLost JobsEnd
