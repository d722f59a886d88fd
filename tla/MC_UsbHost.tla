----------------------------- MODULE MC_UsbHost -----------------------------
(* What a host asks, and the memory of the shipped configuration. *)
EXTENDS UsbHost, UsbMemory

\* The endpoints of the models: two entries each, taken in turn, and packets of this size.
ASSUME ShippedConfiguration ==
  /\ EP0_SIZE = USB_EP0_BUFF_SIZE
  /\ \A ep \in 0 .. USB_MAX_EP_NUMBER, dir \in BdtDirections : PingPong(ep, dir)

\* A flag that is cleared clears no other: no event of the bus is lost to the mask of another.
ASSUME FlagsAreClearedAlone ==
  \A flag \in DOMAIN FlagBit, register \in StatusBytes :
    USBClearInterruptFlag(register, FlagMask[flag]) = register \ {FlagBit[flag]}

Request(op, what, value, length, isIn) ==
  [op |-> op, what |-> what, value |-> value, length |-> length, in |-> isIn]

\* Every handler; the configuration descriptor ends with a full packet and is followed by an
\* empty one, the halt of an endpoint is known only to a configured drive.
MCRequests == {
  Request("GET_DESCRIPTOR", "CONFIGURATION", 0, 64, TRUE),
  Request("SET_ADDRESS", "DEVICE", 1, 0, FALSE),
  Request("SET_CONFIGURATION", "DEVICE", 1, 0, FALSE),
  Request("GET_CONFIGURATION", "DEVICE", 0, 1, TRUE),
  Request("GET_STATUS", "DEVICE", 0, 2, TRUE),
  Request("SET_FEATURE", "DEVICE", 1, 0, FALSE),
  Request("CLEAR_FEATURE", "ENDPOINT", 0, 0, FALSE),
  Request("GET_INTERFACE", "INTERFACE", 0, 1, TRUE),
  Request("SET_INTERFACE", "INTERFACE", 0, 0, FALSE),
  Request("GET_MAX_LUN", "INTERFACE", 0, 1, TRUE),
  Request("SYNCH_FRAME", "ENDPOINT", 0, 2, TRUE) }      \* the drive does not know it

MCAddress == {
  Request("SET_ADDRESS", "DEVICE", 1, 0, FALSE),
  Request("GET_DESCRIPTOR", "DEVICE", 0, 18, TRUE),
  Request("GET_DESCRIPTOR", "STRING", 1, 255, TRUE) }
=============================================================================
