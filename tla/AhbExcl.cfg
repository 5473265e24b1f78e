SPECIFICATION FairSpec
CONSTANTS
  Tag = {0}
  Index = {0, 1}
  Cells = {0}
  Frame <- FrameMC
  Lane = {0}
  Val = {0}
  NoReq = NoReq
  Written = Written
  Junk = Junk
  Invalid = Invalid
  Hart = {h0, h1}
  Xfer <- AllXfers
  NoXfer = NoXfer
PROPERTIES
  OneExclusiveWriter
  BusSpec
  EveryTransferEnds
