SPECIFICATION Spec
CONSTANTS
  Tables = {blank, t1, t2}
  Blank = blank
  Bad = Bad
  Faults = {"power", "transient"}
  MaxFaults = 2
INVARIANTS Recoverable
