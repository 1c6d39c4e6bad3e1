SPECIFICATION Spec
CONSTANTS
  Ids = {id1, id2}
  Keys = {k1, k2}
  None = None
  Torn = Torn
  Stripe = FALSE
  Ttl = 2
  MaxSkew = 1
  MaxNow = 3
CHECK_DEADLOCK FALSE
SYMMETRY Interchangeable
INVARIANTS
  ServedKeyVerifies
  OfflineAfterFirstFetch
PROPERTIES
  VerdictsAgree
  SubscriberAccepted
