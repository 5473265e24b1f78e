SPECIFICATION FairSpec
CONSTANTS
  BASE = 3
  DRAM_SIZE = 32
  D_INITD_ADDR = 20
  SECTOR = 16
  CLUSTERS = 8
  BIN_SIZE = 32
  Cards <- MCCards
  None = None
  BusyLengths = {2, 6, 9, 10, 11, 12, 13, 14, 22}
INVARIANTS StoredInOrder ProgramsInMemory ChecksumsAgree Inv
PROPERTY BootEnds
