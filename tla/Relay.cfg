CONSTANTS
  c1 = c1
  c2 = c2
  m1 = m1
  NoAttempt = NoAttempt
  NoCall = NoCall
  Calls <- TwoCalls
  Payloads <- ThePayload
  PayloadOf <- SamePayload
  MaxAttempts = 2
SPECIFICATION FairSpec
INVARIANTS
  OneCallAccepted
PROPERTIES
  KeepsContract
  CallsEndOrStall
CHECK_DEADLOCK FALSE
