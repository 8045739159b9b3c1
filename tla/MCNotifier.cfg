SPECIFICATION Spec
CONSTANTS
  Workers = {"w1", "w2"}
  Jobs = {"j1"}
  Searches = {"s1", "s2"}
  Words = {"go", "rust", "senior"}
  Listed <- MCListed
  Wanted <- MCWanted
  Period = 2
  Horizon = 7
  MaxFaults = 1
  MaxLate = 1
  MaxEdits = 1
CHECK_DEADLOCK FALSE
INVARIANTS TypeOK AlertsAreBounded LeftBehindWasAlerted RemovedFallsSilent
