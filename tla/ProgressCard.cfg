CONSTANTS
    Reporters = {r1, r2}
    N = 2
    Total = 4
    Step = 2
    CountStep = 3
    Visible = 1
    MaxSaves = 3
SPECIFICATION CardSpec
INVARIANTS
  FinalCardStays
CHECK_DEADLOCK FALSE
