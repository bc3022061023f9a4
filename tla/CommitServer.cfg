CONSTANTS
  r1 = r1
  r2 = r2
  d1 = d1
  ship = ship
  pickup = pickup
  gone = gone
  Requests <- TwoRequests
  Direct <- OneDirect
  Payment = payment
  Options <- ThreeOptions
  Advertised <- ThreeOptions
  Registered <- Adapters
  Delivering <- Shipping
  VerifyAttempts = 2
  MaxFaults = 2
  Environment <- Hostile
  NoOption = NoOption
  NoOne = NoOne
  NoEntry = NoEntry
SPECIFICATION Spec
INVARIANTS
  TypeOK
  OnePayersData
  DeliveryEntryPersisted
PROPERTIES
  GateIsSeeded
  AnswersTellTheTruth
SYMMETRY RequestsAlike
CHECK_DEADLOCK FALSE
