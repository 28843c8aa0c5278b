\* Doc: reuse of a revoked token revokes the whole family of the user.
SPECIFICATION Spec
CONSTANTS
  Users = {u1}
  TokenIds = {t1, t2, t3}
  Requests = {r1, r2}
  NoUser = NoUser
  NoToken = NoToken
  SingleFlight = TRUE
PROPERTY ReuseRevokesFamily
