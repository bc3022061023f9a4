CONSTANTS
  Entries <- EveryEntry
  Payload = payload
  NoChannel = NoChannel
SPECIFICATION FairSpec
INVARIANTS
  ResultIsTheChannelsOwn
  OneChannelSucceeds
PROPERTIES
  WalkEndsOrStalls
CHECK_DEADLOCK FALSE
