\* Doc: an operation whose save fails ends as FAILED.
SPECIFICATION FairSpec
CONSTANTS
  Ops = {o1}
  Readers = {p1}
  MaxDay = 0
  NoChallenge = NoChallenge
  Faults = {"saveCache"}
PROPERTY OperationEnds
CHECK_DEADLOCK FALSE
