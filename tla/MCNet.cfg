CONSTANTS
  HeaderLen = 2
  Sizes <- MCSizes
  Payload = 1
  MaxStream = 7
  MaxSends = 2
SPECIFICATION FairSpec
INVARIANTS
  InOrder
  NothingStuck
  OutgoingInOrder
  CleanUnlessCaught
PROPERTIES
  ImplementsInbox
  InitEnds
  EverythingDelivered
  LossEndsProcess
CHECK_DEADLOCK FALSE
