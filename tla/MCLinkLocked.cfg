SPECIFICATION Spec
CONSTANTS
  Socks = {w1, w2}
  NoSock = NoSock
  Ids = {alice}
  NoId = NoId
  FirstId = alice
  MaxTimers = 1
INVARIANT LockedLinkCut
