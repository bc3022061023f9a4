CONSTANTS
  Nobody = Nobody
  Chain = chain
  Escrow = escrow
  Token = token
  Buyer = buyer
  Seller = seller
  mine = mine
  o1 = o1
  MySession <- mine
  NoCaller = NoCaller
  SessionIds <- Sessions
  FALLBACK_KEY = fallback
  Amount = 5
  MaxTimeoutSeconds = 3
  TOKEN_AUTH_DEADLINE_SAFETY_MARGIN_SECONDS = 1
  SESSION_CACHE_TTL = 4
  MAX_SESSION_CACHE_ENTRIES = 2
  MaxBuilds = 4
  Setups <- AtomicOnly
SPECIFICATION Spec
INVARIANTS
  FallbackReportsChosenAction
CHECK_DEADLOCK FALSE
