\* Two devices of one player, two levels, payloads of up to two completions.
SPECIFICATION Spec
CONSTANTS
  Levels = {l1, l2}
  Results <- TwoResults
  Requests = {r1, r2}
  NoResult = NoResult
  MaxDtos = 2
  MaxVersion = 2
SYMMETRY Symmetry
INVARIANT TypeOK
INVARIANT BestUnlessRaced
INVARIANT NothingInvented
PROPERTY LossNeedsRace
