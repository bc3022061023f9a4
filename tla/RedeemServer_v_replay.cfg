CONSTANTS
  r1 = r1
  r2 = r2
  d1 = d1
  p1 = p1
  email = email
  webhook = webhook
  NoOption = NoOption
  NoOne = NoOne
  NoEntry = NoEntry
  Redeems <- MCOneRedeem
  Others <- NoRequests
  OtherActions <- MCOtherActions
  Replays <- MCReplays
  Options <- MCOptions
  Advertised <- MCAdvertised
  Configs <- Dispatching
  VerifyAttempts = 2
  Environment <- Calm
SPECIFICATION Spec
PROPERTIES
  ReplayCompletes
CHECK_DEADLOCK FALSE
