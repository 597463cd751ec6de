SPECIFICATION FairSpec
CONSTANTS
  Relays = {r1, r2}
  Bodies = {x, y}
  Page = 1
  MaxAttempts = 2
  Lease = 1
  Delay = 1
  MaxReceipts = 2
  None = None
INVARIANTS
  TypeOK
  OrderedDelivery
  DeliveredMeansReceived
PROPERTIES
  DeliveredIsFinal
  HeadOfLine
  NothingStuck
CHECK_DEADLOCK FALSE
