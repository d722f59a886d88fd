SPECIFICATION FairSpec
CONSTANTS
  EP0_SIZE = 8
  USB_PING_PONG_MODE = 2
  USB_EP0_BUFF_SIZE = 8
  USB_MAX_EP_NUMBER = 1
  Requests <- MCRequests
  MaxDisturbances = 1
  MaxSuspends = 1
  Cautious = TRUE
INVARIANTS
  TypeOK
  SetupAccepted
  ReadIntact
  StagesAreAnswered
  NoFalseStall
  HostKnowsDevice
  WakeUpPending
PROPERTIES
  TransfersEnd
  WakesUp
  AddressSetByItsRequest
