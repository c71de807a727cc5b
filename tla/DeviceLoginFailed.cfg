\* dws exits without a code, and the server has noticed when it reads the end of stderr.
SPECIFICATION DeviceSpec
CONSTANTS
  Logins = {l1, l2}
  Polls = {p1}
  Finals = {f1}
  NoLogin = NoLogin
PROPERTIES FailedStartLeavesNothing
