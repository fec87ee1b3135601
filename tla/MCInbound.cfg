SPECIFICATION FairSpec
CONSTANTS
  BuyerMessages = {b1, b2}
  SellerMessages = {s1}
  Relays = {r1}
  Skews = {0, 1}
  SeenCapacity = 1
  Burst = 1
  FastOutages = FALSE
  MaxWraps = 2
  MaxClock = 2
  MaxOutages = 1
  MaxCrashes = 1
CHECK_DEADLOCK FALSE
INVARIANTS InboundTypeOK InboundIsSound
PROPERTY MessagesArrive
