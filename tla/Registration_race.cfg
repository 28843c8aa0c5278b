\* Two registrations at a time, three addresses and names, an admin's walk.
SPECIFICATION Spec
CONSTANTS
  Mailboxes = {m1, m2, m3}
  Usernames = {n1, n2, n3}
  UserIds = {i1, i2, i3}
  Requests = {r1, r2}
  Limit = 1
  MaxTime = 2
  NoUser = NoUser
SYMMETRY Symmetry
INVARIANT TypeOK
INVARIANT OneAccountPerMailbox
INVARIANT AnswersTrue
INVARIANT WalkMissesNobody
