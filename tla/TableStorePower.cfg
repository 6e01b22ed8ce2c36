SPECIFICATION FairSpec
CONSTANTS
  Tables = {blank, t1, t2}
  Blank = blank
  Bad = Bad
  Faults = {"power"}
  MaxFaults = 3
INVARIANTS TypeOK Recoverable
PROPERTIES AtomicUpdates EventuallyMounts
