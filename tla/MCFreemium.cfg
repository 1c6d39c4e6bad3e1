SPECIFICATION FairSpec
CONSTANTS
  Peers = {alice, bob}
  NoPeer = NoPeer
  Msgs = {1, 2, 3}
  Media = {2}
  Gate = Gate
  FreeLimit = 1
  Subscribers = {}
  MaxTasks = 2
  MaxKills = 1
CHECK_DEADLOCK FALSE
INVARIANTS
  CounterNeverOverstates
  NoEarlyGate
  FreeMessagesCappedSerially
PROPERTY EverySendAnswered
