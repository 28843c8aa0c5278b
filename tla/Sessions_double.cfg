\* Doc: the second of two concurrent refreshes of a token is a reuse.
SPECIFICATION Spec
CONSTANTS
  Users = {u1}
  TokenIds = {t1, t2, t3}
  Requests = {r1, r2}
  NoUser = NoUser
  NoToken = NoToken
  SingleFlight = FALSE
INVARIANT OneSuccessor
