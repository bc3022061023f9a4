CONSTANTS
  r1 = r1
  r2 = r2
  d1 = d1
  p1 = p1
  email = email
  webhook = webhook
  NoOption = NoOption
  NoOne = NoOne
  NoEntry = NoEntry
  Redeems <- MCRedeems
  Others <- NoRequests
  OtherActions <- MCOtherActions
  Replays <- NoRequests
  Options <- MCOptions
  Advertised <- MCAdvertised
  Configs <- Dispatching
  VerifyAttempts = 2
  Environment <- Failing
SPECIFICATION FairSpec
PROPERTIES
  EntryMovesForward
  AnswersTellTheTruth
  EveryRequestAnswered
CHECK_DEADLOCK FALSE
