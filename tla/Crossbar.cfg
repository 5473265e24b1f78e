SPECIFICATION FairSpec
CONSTANTS
  N_MASTERS = 2
  Mem = Mem
  Bridge = Bridge
  Slave = {Mem, Bridge}
  a = a
  b = b
  io = io
  bad = bad
  Xfer = {a, b, io, bad}
  Route <- RouteMC
  NoSlave = NoSlave
  NoMaster = NoMaster
  Idle = Idle
INVARIANTS
  InOnePlace
  NoStrandedBuffer
  SlaveSeesBus
  TrueAnswer
PROPERTY
  EveryTransferEnds
