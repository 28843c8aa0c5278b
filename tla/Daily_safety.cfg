\* Two admins, a reader, two midnights, failing saves and crashes.
SPECIFICATION FairSpec
CONSTANTS
  Ops = {o1, o2}
  Readers = {p1}
  MaxDay = 2
  NoChallenge = NoChallenge
  Faults = {"saveRunning", "saveCache", "saveTerminal", "crash"}
PROPERTY ImplementsIterations
INVARIANT TypeOK
INVARIANT OneRunningPerDate
INVARIANT OutcomeIsTrue
PROPERTY OnlyFirstReadersGenerate
PROPERTY EndsUnlessLost
