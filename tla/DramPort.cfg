SPECIFICATION FairSpec
CONSTANTS
  Row = {0, 1}
  Col = {0}
  Lane = {0}
  Val = {0, 1}
  RST_CNT = 1
  CFG_LEN = 11
  T_RCD = 1
  CAS = 2
  T_WR = 2
  T_RP = 1
  T_RC = 4
  Junk = Junk
  NoReq = NoReq
  Written = Written
  REFRESH_CNT = 14
  REFRESH_CNT_MAX = 40
INVARIANTS
  NoCommandLost
  NoTimingFail
  RefreshInTime
PROPERTIES
  PortSpec
  RequestServed
