\* Every request is answered under the fairness of FairSpec.
SPECIFICATION FairSpec
CONSTANTS
  Users = {u1}
  TokenIds = {t1, t2}
  Requests = {r1, r2}
  NoUser = NoUser
  NoToken = NoToken
  SingleFlight = FALSE
PROPERTY EveryRequestAnswered
