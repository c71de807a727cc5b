\* One login, two polls that may wait, two finalize requests.
SPECIFICATION DeviceFairSpec
CONSTANTS
  Logins = {l1}
  Polls = {p1, p2}
  Finals = {f1, f2}
  NoLogin = NoLogin
INVARIANTS ResourcesOwned StoredWithAccount
PROPERTIES LoginsEnd PollsEnd
