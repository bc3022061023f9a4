CONSTANTS
  Nobody = Nobody
  Account = account
  Chain = chain
  Escrow = escrow
  Asset = asset
  NoAttempt = NoAttempt
  Attempts = {a1, a2}
  Tokens = {t1, t2}
  Deposit = 5
  MaxTimeoutSeconds = 3
  TOKEN_AUTH_DEADLINE_SAFETY_MARGIN_SECONDS = 1
  MaxFunds = 2
  Setups <- MCSetups
SPECIFICATION Spec
INVARIANTS
  TypeOK
  AnsweredAsLanded
  WithdrawsAll
  SubmitsWhatItSimulated
PROPERTIES
  NoHonestRefusal
CHECK_DEADLOCK FALSE
