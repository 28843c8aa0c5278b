\* Single flight: each token is in one request at a time.
SPECIFICATION Spec
CONSTANTS
  Users = {u1}
  TokenIds = {t1, t2, t3}
  Requests = {r1, r2}
  NoUser = NoUser
  NoToken = NoToken
  SingleFlight = TRUE
INVARIANT OneSuccessor
PROPERTY LinkFinal
PROPERTY ImplementsRegister
