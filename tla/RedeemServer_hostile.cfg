CONSTANTS
  r1 = r1
  r2 = r2
  d1 = d1
  p1 = p1
  email = email
  webhook = webhook
  NoOption = NoOption
  NoOne = NoOne
  NoEntry = NoEntry
  Redeems <- MCRedeems
  Others <- NoRequests
  OtherActions <- MCOtherActions
  Replays <- MCReplays
  Options <- MCOptions
  Advertised <- MCAdvertised
  Configs <- Redeployed
  VerifyAttempts = 2
  Environment <- Hostile
SYMMETRY RedeemersAlike
SPECIFICATION Spec
INVARIANTS
  TypeOK
  OneRedeemersData
  DeliveryEntryPersisted
  OnlyAdvertisedChannels
CHECK_DEADLOCK FALSE
