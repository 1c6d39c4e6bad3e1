SPECIFICATION Spec
CONSTANTS
  Customers = {alice}
  Subs = {s1, s2}
  NoToken = NoToken
  Ttl = 1
  Period = 2
  MinTtl = 1
  Horizon = 4
  MaxPending = 3
SYMMETRY Interchangeable
INVARIANTS
  PayingKeepsAccessInOrder
  LapsedLosesAccess
  TokenOnlyAfterPayment
PROPERTY OnlyEndedForCause
