SPECIFICATION FairSpec
CONSTANTS
  Socks = {w1, w2}
  NoSock = NoSock
  Ids = {alice, bob}
  NoId = NoId
  FirstId = alice
  MaxTimers = 2
INVARIANTS
  LinkSpeaksForMyId
  OneIdPerSocket
  NeverStranded
  GateFollowsMonitor
PROPERTIES
  MonitorRelocksOnDrop
  LinkHeals
