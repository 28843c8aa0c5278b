\* Two submissions interleaved, a board of two for three users.
SPECIFICATION Spec
CONSTANTS
  Users = {u1, u2, u3}
  Results <- TwoResults
  MaxEntries = 2
  Requests = {r1, r2}
  NoUser = NoUser
  NoResult = NoResult
SYMMETRY Symmetry
INVARIANT TypeOK
INVARIANT BoardRanked
INVARIANT NothingInvented
INVARIANT TopOfBest
PROPERTY OwnSubmissionCounts
PROPERTY ResubmissionIsNoOp
