SPECIFICATION Spec
CONSTANTS
  Tag = {0, 1, 2}
  Index = {0}
  Cells = {0, 1}
  Frame <- FrameMC
  Lane = {0, 1}
  Val = {0, 1}
  NoReq = NoReq
  Written = Written
  Junk = Junk
  Invalid = Invalid
  Hart = {h0}
  Xfer <- Plain
  NoXfer = NoXfer
INVARIANTS
  LinesCoherent
  ReadCoherent
PROPERTIES
  PortRules
  BusSpec
