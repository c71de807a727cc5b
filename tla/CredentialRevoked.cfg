\* One credential, one test at a time.
SPECIFICATION CredSpec
CONSTANTS
  Creds = {c1}
  Tests = {q1}
  Keepalives = {i1}
  Imported = Imported
  NoCred = NoCred
PROPERTIES RevokedStays
