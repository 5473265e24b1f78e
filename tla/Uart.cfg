SPECIFICATION FairSpec
CONSTANTS
  SERIAL_WCNT = 16
  NBITS = 4
  Dev = uart
  NoDevice = NoDevice
  NoTransfer = NoTransfer
  Transfer <- TransferMC
INVARIANTS
  Inv
  OfferedWhenReady
PROPERTIES
  EveryCharacterArrives
