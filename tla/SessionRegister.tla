-------------------------- MODULE SessionRegister --------------------------
(***************************************************************************)
(* What refresh-token rotation promises, without requests, transactions or *)
(* clocks: a session is carried by one token at a time.  A login opens a   *)
(* session with a new token, a refresh exchanges the token that carries it *)
(* for a new one, and a session can be closed.                             *)
(***************************************************************************)
CONSTANTS TokenIds, NoToken

VARIABLES
  issued,   \* every token ever handed out, and what it was exchanged for
  live      \* the tokens that carry an open session

Init ==
  /\ issued = [t \in {} |-> NoToken]
  /\ live = {}

\* A new token is handed out, in exchange for old or at a login.
Issue(new, old) ==
  /\ new \notin DOMAIN issued
  /\ issued' = [t \in DOMAIN issued \cup {new} |-> IF t = new THEN old ELSE issued[t]]

OpenSession(t) == Issue(t, NoToken) /\ live' = live \cup {t}

Rotate(old, new) ==
  /\ old \in live
  /\ Issue(new, old)
  /\ live' = (live \ {old}) \cup {new}

CloseSession(t) ==
  /\ t \in live
  /\ live' = live \ {t}
  /\ UNCHANGED issued

Next ==
  \/ \E t \in TokenIds : OpenSession(t) \/ CloseSession(t)
  \/ \E old, new \in TokenIds : Rotate(old, new)

Spec == Init /\ [][Next]_<<issued, live>>
=============================================================================
