SPECIFICATION Spec
CONSTANTS
  Plans <- AllPlans
  Speeds = {FALSE}
  Faults = {}
INVARIANTS
  PassMeansEof
CHECK_DEADLOCK FALSE
