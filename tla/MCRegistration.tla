--------------------------- MODULE MCRegistration ---------------------------
EXTENDS Registration, TLC

Symmetry ==
  Permutations(Mailboxes) \cup Permutations(Usernames) \cup Permutations(UserIds)
    \cup Permutations(Requests)
=============================================================================
