SPECIFICATION FairSpec
CONSTANTS
  Sockets = {s1, s2}
  Ids = {alice, bob}
  Ips = {ip1, ip2}
  NoSocket = NoSocket
  NoId = NoId
  NoIp = NoIp
  MaxConnsPerIp = 1
  MayRename = FALSE
  RateLimitMax = 1
  RateLimitWindow = 1
INVARIANTS
  TypeOK
  SlotsExact
  RoutesSound
  OnlyOwnFrames
PROPERTIES
  RouteLostOnlyToOwnClose
  ImplementsDirectory
  HalfOpenReaped
