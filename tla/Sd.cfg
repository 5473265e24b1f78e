SPECIFICATION FairSpec
CONSTANTS
  Block = {0, 1}
  Byte = {0, 1}
  BLOCKSIZE = 2
  Faults = {"NoR1", "R1", "Token", "CRC", "Response"}
  Content <- ContentMC
  Sd = sd
  NoDevice = NoDevice
  NoTransfer = NoTransfer
  NoOp = NoOp
  Op <- OpMC
  Transfer <- Transfers
INVARIANTS
  Inv
PROPERTIES
  BlockSpec
  EveryOperationReturns
