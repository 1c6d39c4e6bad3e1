SPECIFICATION Spec
CONSTANTS
  Peers = {bob, carol}
  Calls = {c1, c2, c3}
  NoCall = NoCall
  Sessions = {e1, e2}
  NoSession = NoSession
  NoPeer = NoPeer
  NoChat = NoChat
SYMMETRY CallSymmetry
INVARIANTS
  TypeOK
  ChatOverLiveSession
  ChatReachesItsContactAlone
  NoCallLeftBehind
