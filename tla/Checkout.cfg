CONSTANTS
  Nobody = Nobody
  Chain = chain
  otherChain = otherChain
  USDC = usdc
  otherToken = otherToken
  Escrow = escrow
  Buyer = buyer
  Seller = seller
  Agent = agent
  MAX_ATOMIC = 3
  CONFIRM_ATTEMPTS = 2
  TOKEN_AUTH_DEADLINE_SAFETY_MARGIN_SECONDS = 1
  Runs <- TwoRuns
  Setups <- MCSetups
SPECIFICATION Spec
INVARIANTS
  TypeOK
  NothingMovedIsTrue
  SpendsWithinGuardrails
CHECK_DEADLOCK FALSE
