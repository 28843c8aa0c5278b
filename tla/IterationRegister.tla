-------------------------- MODULE IterationRegister --------------------------
(***************************************************************************)
(* What manual iterations of the daily challenge promise, without tasks,   *)
(* generators or failures: an operation is opened for a date on which none *)
(* is open, replaces the public challenge of that date at most once, and   *)
(* is closed with the outcome it had.  Public readers may set a challenge  *)
(* of a date as well; an operation may stay open.                          *)
(***************************************************************************)
CONSTANTS Ops, Days, Challenges, NoChallenge

VARIABLES
  public,     \* per date: the challenge everybody is given
  operation,  \* per operation: its status, date and resulting challenge
  published   \* per operation: the challenge it made public, if any

Init ==
  /\ public = [d \in Days |-> NoChallenge]
  /\ operation = [o \in Ops |-> [status |-> "absent", date |-> 0, challenge |-> NoChallenge]]
  /\ published = [o \in Ops |-> NoChallenge]

Open(o, d) ==
  /\ operation[o].status = "absent"
  /\ \A q \in Ops : ~(operation[q].status = "RUNNING" /\ operation[q].date = d)
  /\ operation' = [operation EXCEPT
                     ![o] = [status |-> "RUNNING", date |-> d, challenge |-> NoChallenge]]
  /\ UNCHANGED <<public, published>>

Publish(o, challenge) ==
  /\ operation[o].status = "RUNNING" /\ published[o] = NoChallenge /\ challenge.by = o
  /\ public' = [public EXCEPT ![operation[o].date] = challenge]
  /\ published' = [published EXCEPT ![o] = challenge]
  /\ UNCHANGED operation

\* A reader's challenge is nobody's operation's.
Provide(d, challenge) ==
  /\ challenge.by \notin Ops
  /\ public' = [public EXCEPT ![d] = challenge]
  /\ UNCHANGED <<operation, published>>

\* What was published is the result; without anything published it is a failure.
Close(o) ==
  /\ operation[o].status = "RUNNING"
  /\ operation' = [operation EXCEPT
       ![o].status = IF published[o] = NoChallenge THEN "FAILED" ELSE "SUCCEEDED",
       ![o].challenge = published[o]]
  /\ UNCHANGED <<public, published>>

Next ==
  \/ \E o \in Ops : Close(o) \/ \E d \in Days : Open(o, d)
  \/ \E challenge \in Challenges :
       (\E o \in Ops : Publish(o, challenge)) \/ (\E d \in Days : Provide(d, challenge))

Spec == Init /\ [][Next]_<<public, operation, published>>
=============================================================================
