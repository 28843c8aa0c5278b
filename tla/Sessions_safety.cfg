\* Two slots, three tokens, two users, no client discipline.
SPECIFICATION Spec
CONSTANTS
  Users = {u1, u2}
  TokenIds = {t1, t2, t3}
  Requests = {r1, r2}
  NoUser = NoUser
  NoToken = NoToken
  SingleFlight = FALSE
SYMMETRY Symmetry
INVARIANT TypeOK
INVARIANT RotationLinked
INVARIANT ResponseMatchesTable
INVARIANT SuspendedGetsNothing
PROPERTY RevocationFinal
