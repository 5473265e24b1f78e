SPECIFICATION Spec
CONSTANTS
  Half = 2
  Dev = timer
  NoDevice = NoDevice
  NoTransfer = NoTransfer
  Readable = {0, 4, 8, 12, 16, 20, 24, 28, 32}
  Writable = {0, 4, 8, 12, 24, 28, 32}
  Other <- OtherMC
  Alarm = {1, 2}
  Transfer <- TransferMC
INVARIANTS
  Inv
PROPERTIES
  AlarmTrue
