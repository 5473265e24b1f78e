SPECIFICATION DhrySpec
CONSTANTS
  NUMBER_OF_RUNS = 1
  Too_Small_Time = 2
  HALF = 4
  Elapsed = {0, 1, 2, 3, 5, 10}
  Junk <- MCJunk
  MaxTurns = 100
INVARIANTS FinalValues AllTurnsCounted MeasuredTrue
