SPECIFICATION Spec
CONSTANTS
  Ids = {id1, id2}
  Keys = {k1, k2}
  None = None
  Torn = Torn
  Stripe = TRUE
  Ttl = 1
  MaxSkew = 0
  MaxNow = 2
CHECK_DEADLOCK FALSE
INVARIANT ActiveMeansToken
