SPECIFICATION FairSpec
CONSTANTS
  Plans <- AllPlans
  Speeds = {TRUE, FALSE}
  Faults = {"exit"}
INVARIANTS
  NoFalseAlarm
  PassMeansAnswered
PROPERTIES
  ClientEnds
CHECK_DEADLOCK FALSE
