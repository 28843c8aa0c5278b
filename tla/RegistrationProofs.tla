-------------------------- MODULE RegistrationProofs --------------------------
(***************************************************************************)
(* Proofs about Registration, for any number of addresses, names,          *)
(* registrations and users.                                                *)
(***************************************************************************)
EXTENDS Registration, FiniteSetTheorems, TLAPS

Request == [email : Spelling \cup {NoUser}, username : Usernames \cup {NoUser},
            id : UserIds \cup {NoUser}, createdAt : 0 .. MaxTime, code : Nat]

Walk == [place : {"idle", "page", "end"}, page : Nat, rows : SUBSET UserIds, total : Nat,
         asked : SUBSET {"rows", "total"}, seen : SUBSET UserIds, present : SUBSET UserIds,
         disordered : BOOLEAN]

-----------------------------------------------------------------------------
(* The invariant.  The checks before the hash decide nothing: what keeps    *)
(* accounts apart is that an insert waits for, or is refused by, every row  *)
(* with its key, committed or not, and that all addresses are normalized.   *)

Typed ==
  /\ users \subseteq Row /\ IsFiniteSet(users)
  /\ writes \in [Requests -> Row \cup {NoRow}]
  /\ pc \in [Requests -> Serving \cup {"idle", "answered"}]
  /\ req \in [Requests -> Request]
  /\ now \in 0 .. MaxTime

Registering(r) ==
  /\ writes[r] # NoRow <=> pc[r] = "commit"
  /\ pc[r] = "commit" => writes[r] = NewRow(r)
  /\ pc[r] \in Serving =>
       /\ req[r].email \in Spelling /\ ~req[r].email.upper /\ req[r].username \in Usernames
       /\ req[r].id \in UserIds \ Ids /\ req[r].code = 0

\* No two registrations work on the same id.
OwnIds == \A r, q \in Requests : r # q /\ req[r].id = req[q].id => req[r].id = NoUser

\* No two rows, committed or not, have a key in common.
KeysUnique ==
  /\ \A row \in users : ~row.email.upper
  /\ \A row, other \in users : SameKey(row, other) => row = other
  /\ \A r \in Requests : writes[r] # NoRow =>
       /\ \A row \in users : ~SameKey(row, writes[r])
       /\ \A q \in Requests : writes[q] # NoRow /\ SameKey(writes[q], writes[r]) => q = r

WalkTyped ==
  /\ walk \in Walk
  /\ walk.rows \subseteq Ids /\ walk.seen \subseteq Ids /\ walk.present \subseteq Ids
  /\ walk.total <= Cardinality(users)

IInv ==
  /\ Typed /\ OwnIds /\ KeysUnique /\ WalkTyped /\ AnswersTrue
  /\ \A r \in Requests : Registering(r)

\* The row of no user is none.
LEMMA NoRowIsNoRow == NoRow \notin Row
BY NoUserAssumption DEF NoRow, Row

LEMMA IInvInit == Init => IInv
<1> SUFFICES ASSUME Init PROVE IInv
  OBVIOUS
<1>1. NoRequest \in Request
  BY LimitAssumption DEF NoRequest, Request
<1>2. Typed
  BY <1>1, FS_EmptySet, LimitAssumption DEF Init, Typed
<1>3. OwnIds /\ AnswersTrue
  BY DEF Init, OwnIds, AnswersTrue, NoRequest
<1>4. KeysUnique /\ \A r \in Requests : Registering(r)
  BY DEF Init, KeysUnique, Registering, Serving
<1>5. WalkTyped
  <2>1. NoWalk \in Walk
    BY DEF NoWalk, Walk
  <2> QED BY <2>1, FS_EmptySet DEF Init, WalkTyped, NoWalk
<1> QED BY <1>2, <1>3, <1>4, <1>5 DEF IInv

\* A registration that writes nothing: what it knows has to fit where it goes.
Local(r, place, new) ==
  /\ pc[r] # "commit" /\ place \in (Serving \ {"commit"}) \cup {"idle", "answered"}
  /\ new \in Request
  /\ pc' = [pc EXCEPT ![r] = place] /\ req' = [req EXCEPT ![r] = new]
  /\ UNCHANGED <<users, writes, now, walk>>
  /\ new.id # NoUser => \A q \in Requests \ {r} : req[q].id # new.id
  /\ place \in Serving => /\ new.email \in Spelling /\ ~new.email.upper
                          /\ new.username \in Usernames /\ new.id \in UserIds \ Ids
                          /\ new.code = 0
  /\ new.code # 201
  /\ new.code = 409 => /\ new.id \notin Ids
                       /\ \E row \in users : row.email = new.email \/ row.username = new.username

LEMMA LocalStep ==
  ASSUME IInv, NEW r \in Requests, NEW place, NEW new, Local(r, place, new)
  PROVE  IInv'
<1> USE DEF Local
<1>1. Typed'
  BY DEF IInv, Typed, Serving
<1>2. Ids' = Ids /\ pc'[r] = place /\ req'[r] = new /\ writes'[r] = NoRow
  BY DEF Ids, IInv, Typed, Registering
<1>3. ASSUME NEW q \in Requests, q # r
      PROVE  pc'[q] = pc[q] /\ req'[q] = req[q]
  BY <1>3 DEF IInv, Typed
<1>4. OwnIds'
  BY <1>2, <1>3 DEF IInv, OwnIds
<1>5. KeysUnique' /\ WalkTyped'
  BY <1>2 DEF IInv, KeysUnique, WalkTyped
<1>6. AnswersTrue'
  BY <1>2, <1>3 DEF IInv, AnswersTrue
<1>7. ASSUME NEW q \in Requests
      PROVE  Registering(q)'
  BY <1>2, <1>3 DEF IInv, Registering, NewRow
<1> QED BY <1>1, <1>4, <1>5, <1>6, <1>7 DEF IInv

\* Everything but the registrations is left alone by them.
LEMMA InsertStep ==
  ASSUME IInv, NEW r \in Requests, pc[r] = "insert",
         \A q \in Requests : writes[q] # NoRow => ~SameKey(writes[q], NewRow(r)),
         \A row \in users : ~SameKey(row, NewRow(r)),
         writes' = [writes EXCEPT ![r] = NewRow(r)], pc' = [pc EXCEPT ![r] = "commit"],
         UNCHANGED <<users, req, now, walk>>
  PROVE  IInv'
<1>1. req[r] \in Request /\ Registering(r)
  BY DEF IInv, Typed
<1>2. NewRow(r) \in Row /\ NewRow(r) # NoRow
  BY <1>1, NoRowIsNoRow DEF Registering, Serving, NewRow, Row, Request
<1>3. Typed'
  BY <1>2 DEF IInv, Typed, Serving
<1>4. Ids' = Ids /\ pc'[r] = "commit" /\ writes'[r] = NewRow(r)
  BY DEF Ids, IInv, Typed
<1>5. ASSUME NEW q \in Requests, q # r
      PROVE  pc'[q] = pc[q] /\ writes'[q] = writes[q]
  BY <1>5 DEF IInv, Typed
<1>6. ASSUME NEW q \in Requests
      PROVE  Registering(q)'
  BY <1>1, <1>2, <1>4, <1>5 DEF IInv, Registering, NewRow, Serving
<1>7. KeysUnique'
  <2>1. \A a, b : SameKey(a, b) <=> SameKey(b, a)
    BY DEF SameKey
  <2> QED BY <1>4, <1>5, <2>1 DEF IInv, KeysUnique
<1> QED BY <1>3, <1>4, <1>6, <1>7 DEF IInv, OwnIds, WalkTyped, AnswersTrue

\* The row becomes visible; its key and its id were nobody's.
LEMMA CommitStep ==
  ASSUME IInv, NEW r \in Requests, Commit(r)
  PROVE  IInv'
<1> DEFINE row == writes[r]
<1>1. /\ Registering(r) /\ pc[r] = "commit" /\ row = NewRow(r) /\ row # NoRow /\ req[r] \in Request
      /\ users' = users \cup {row} /\ writes' = [writes EXCEPT ![r] = NoRow]
      /\ pc' = [pc EXCEPT ![r] = "answered"] /\ now' = now
  <2>1. Registering(r) /\ req[r] \in Request
    BY DEF IInv, Typed
  <2>2. /\ pc[r] = "commit" /\ users' = users \cup {row} /\ writes' = [writes EXCEPT ![r] = NoRow]
        /\ pc' = [pc EXCEPT ![r] = "answered"] /\ now' = now
    BY DEF Commit, Answer, Goto
  <2> QED BY <2>1, <2>2 DEF Registering
<1> PICK code \in {201, 500} : req' = [req EXCEPT ![r].code = code]
  BY DEF Commit, Answer
<1>2. /\ row \in Row /\ row.id = req[r].id /\ row.email = req[r].email /\ ~row.email.upper
      /\ row.id \in UserIds \ Ids
  BY <1>1, NoRowIsNoRow DEF IInv, Typed, Registering, Serving, NewRow
<1>3. Ids' = Ids \cup {req[r].id}
  BY <1>1, <1>2 DEF Ids
<1>4. /\ pc'[r] = "answered" /\ writes'[r] = NoRow /\ req'[r] \in Request
      /\ req'[r].id = req[r].id /\ req'[r].email = req[r].email /\ req'[r].code = code
  BY <1>1 DEF IInv, Typed, Request
<1>5. ASSUME NEW q \in Requests, q # r
      PROVE  pc'[q] = pc[q] /\ writes'[q] = writes[q] /\ req'[q] = req[q]
  BY <1>1, <1>5 DEF IInv, Typed
<1>6. Typed'
  <2>1. IsFiniteSet(users')
    BY <1>1, FS_AddElement DEF IInv, Typed
  <2> QED BY <1>1, <1>2, <1>4, <2>1 DEF IInv, Typed, Serving
<1>7. OwnIds'
  BY <1>4, <1>5 DEF IInv, OwnIds
<1>8. KeysUnique'
  <2>1. \A a, b : SameKey(a, b) <=> SameKey(b, a)
    BY DEF SameKey
  <2>2. \A other \in users : ~SameKey(other, row)
    BY <1>1 DEF IInv, KeysUnique
  <2>3. \A q \in Requests \ {r} : writes[q] # NoRow => ~SameKey(row, writes[q])
    BY <1>1 DEF IInv, KeysUnique
  <2> HIDE DEF row
  <2> QED BY <1>1, <1>2, <1>4, <1>5, <2>1, <2>2, <2>3 DEF IInv, KeysUnique
<1>9. WalkTyped'
  <2>1. Cardinality(users') >= Cardinality(users) /\ Cardinality(users) \in Nat /\ Cardinality(users') \in Nat
    <3>1. IsFiniteSet(users) /\ IsFiniteSet(users')
      BY <1>6 DEF IInv, Typed
    <3>2. Cardinality(users) \in Nat /\ Cardinality(users') \in Nat
      BY <3>1, FS_CardinalityType
    <3>3. users \in SUBSET users'
      BY <1>1
    <3> QED BY <3>1, <3>2, <3>3, FS_Subset
  <2>2. walk' \in Walk /\ walk'.rows = walk.rows /\ walk'.seen = walk.seen
        /\ walk'.present = walk.present /\ walk'.total = walk.total
    <3> DEFINE late == walk.disordered \/ \E other \in users : other.createdAt >= row.createdAt
    <3>1. walk' = [walk EXCEPT !.disordered = late] /\ late \in BOOLEAN
      BY DEF Commit
    <3> HIDE DEF late
    <3> QED BY <3>1 DEF IInv, WalkTyped, Walk
  <2>3. walk'.total <= Cardinality(users')
    BY <2>1, <2>2 DEF IInv, WalkTyped, Walk
  <2> QED BY <1>3, <2>2, <2>3 DEF IInv, WalkTyped
<1>10. AnswersTrue'
  <2>1. \A q \in Requests : q # r /\ req[q].code = 409 => req[q].id \notin Ids'
    BY <1>1, <1>2, <1>3, NoUserAssumption DEF IInv, OwnIds, AnswersTrue
  <2> QED BY <1>1, <1>2, <1>4, <1>5, <2>1 DEF IInv, AnswersTrue
<1>11. ASSUME NEW q \in Requests
       PROVE  Registering(q)'
  <2>1. CASE q = r
    BY <1>4, <2>1 DEF Registering, Serving
  <2>2. CASE q # r
    <3>1. Registering(q)
      BY DEF IInv
    <3>2. pc[q] \in Serving => req[q].id # req[r].id
      BY <1>2, <2>2, <3>1, NoUserAssumption DEF IInv, OwnIds, Registering
    <3> QED BY <1>3, <1>5, <2>2, <3>1, <3>2 DEF Registering, NewRow
  <2> QED BY <2>1, <2>2
<1> QED BY <1>6, <1>7, <1>8, <1>9, <1>10, <1>11 DEF IInv

\* Whatever fails, the row is not stored and the answer is 500.
LEMMA FaultStep ==
  ASSUME IInv, NEW r \in Requests, Fault(r)
  PROVE  IInv'
<1>1. /\ writes' = [writes EXCEPT ![r] = NoRow] /\ pc' = [pc EXCEPT ![r] = "answered"]
      /\ req' = [req EXCEPT ![r].code = 500] /\ UNCHANGED <<users, now, walk>> /\ req[r] \in Request
  BY DEF Fault, Answer, Goto, IInv, Typed
<1>2. Ids' = Ids /\ pc'[r] = "answered" /\ writes'[r] = NoRow
  BY <1>1 DEF Ids, IInv, Typed
<1>3. req'[r] \in Request /\ req'[r].id = req[r].id /\ req'[r].code = 500
  BY <1>1 DEF IInv, Typed, Request
<1>4. ASSUME NEW q \in Requests, q # r
      PROVE  pc'[q] = pc[q] /\ writes'[q] = writes[q] /\ req'[q] = req[q]
  BY <1>1, <1>4 DEF IInv, Typed
<1>5. Typed'
  BY <1>1, <1>3 DEF IInv, Typed
<1>6. OwnIds'
  BY <1>3, <1>4 DEF IInv, OwnIds
<1>7. KeysUnique' /\ WalkTyped'
  BY <1>1, <1>2, <1>4 DEF IInv, KeysUnique, WalkTyped
<1>8. AnswersTrue'
  BY <1>1, <1>2, <1>3, <1>4 DEF IInv, AnswersTrue
<1>9. ASSUME NEW q \in Requests
      PROVE  Registering(q)'
  BY <1>2, <1>4 DEF IInv, Registering, NewRow, Serving
<1> QED BY <1>5, <1>6, <1>7, <1>8, <1>9 DEF IInv

Arrived(email, username, id) ==
  [NoRequest EXCEPT !.email = email, !.username = username, !.id = id]

LEMMA ArrivedIsRequest ==
  ASSUME NEW email \in Spelling, NEW username \in Usernames, NEW id \in UserIds
  PROVE  /\ Arrived(email, username, id) \in Request
         /\ Arrived(email, username, id).email = email
         /\ Arrived(email, username, id).username = username
         /\ Arrived(email, username, id).id = id
         /\ Arrived(email, username, id).code = 0
<1>1. NoRequest \in Request
  BY LimitAssumption DEF NoRequest, Request
<1>2. Arrived(email, username, id) \in Request
  BY <1>1 DEF Arrived, Request
<1> QED BY <1>2 DEF Arrived, NoRequest

LEMMA ArriveKeeps ==
  ASSUME IInv, NEW r \in Requests, NEW email \in Spelling, NEW username \in Usernames,
         Arrive(r, email, username)
  PROVE  IInv'
<1> PICK id \in UserIds \ (Ids \cup {req[q].id : q \in Requests}) :
      req' = [req EXCEPT ![r] = Arrived(Normalized(email), username, id)]
  BY DEF Arrive, Arrived
<1> DEFINE new == Arrived(Normalized(email), username, id)
<1>1. Normalized(email) \in Spelling /\ ~Normalized(email).upper
  BY DEF Normalized, Spelling
<1>2. /\ new \in Request /\ new.email = Normalized(email) /\ new.username = username
      /\ new.id = id /\ new.code = 0
  BY <1>1, ArrivedIsRequest
<1>3. \A q \in Requests \ {r} : req[q].id # id
  OBVIOUS
<1>4. /\ req' = [req EXCEPT ![r] = new] /\ pc' = [pc EXCEPT ![r] = "email"] /\ pc[r] = "idle"
      /\ UNCHANGED <<users, writes, now, walk>>
  BY DEF Arrive, Goto
<1> HIDE DEF new
<1>5. "email" \in Serving \ {"commit"}
  BY DEF Serving
<1>6. Local(r, "email", new)
  <2>1. new.code # 201 /\ new.code # 409
    BY <1>2
  <2>2. pc[r] # "commit"
    BY <1>4
  <2>3. /\ new.id \in UserIds \ Ids /\ new.email \in Spelling /\ ~new.email.upper
        /\ new.username \in Usernames /\ \A q \in Requests \ {r} : req[q].id # new.id
    BY <1>1, <1>2, <1>3
  <2>4. new \in Request /\ new.code = 0
    BY <1>2
  <2> QED BY <1>4, <1>5, <2>1, <2>2, <2>3, <2>4 DEF Local
<1> QED BY <1>6, LocalStep

\* An answer other than 201 ends a registration that has written nothing.
LEMMA RefusalStep ==
  ASSUME IInv, NEW r \in Requests, pc[r] # "commit", NEW code \in {409, 422, 500}, Answer(r, code),
         UNCHANGED <<users, writes, now, walk>>,
         code = 409 => /\ pc[r] \in Serving
                       /\ \E row \in users : row.email = req[r].email \/ row.username = req[r].username
  PROVE  IInv'
<1> DEFINE new == [req[r] EXCEPT !.code = code]
<1>1. req[r] \in Request /\ Registering(r) /\ req \in [Requests -> Request]
  BY DEF IInv, Typed
<1>2. new \in Request /\ new.id = req[r].id /\ new.email = req[r].email
      /\ new.username = req[r].username /\ new.code = code
  BY <1>1 DEF Request
<1>3. req' = [req EXCEPT ![r] = new] /\ pc' = [pc EXCEPT ![r] = "answered"]
  BY <1>1 DEF Answer, Goto
<1>4. new.id # NoUser => \A q \in Requests \ {r} : req[q].id # new.id
  BY <1>2 DEF IInv, OwnIds
<1>5. code = 409 => new.id \notin Ids
  BY <1>1, <1>2 DEF Registering
<1> HIDE DEF new
<1>6. Local(r, "answered", new)
  BY <1>2, <1>3, <1>4, <1>5 DEF Local, Serving
<1> QED BY <1>6, LocalStep

\* A registration that goes on, perhaps with another creation time.
LEMMA ProceedStep ==
  ASSUME IInv, NEW r \in Requests, pc[r] \in Serving \ {"commit"},
         NEW place \in Serving \ {"commit"}, NEW time \in 0 .. MaxTime,
         pc' = [pc EXCEPT ![r] = place], req' = [req EXCEPT ![r].createdAt = time],
         UNCHANGED <<users, writes, now, walk>>
  PROVE  IInv'
<1> DEFINE new == [req[r] EXCEPT !.createdAt = time]
<1>1. req[r] \in Request /\ Registering(r) /\ req \in [Requests -> Request]
  BY DEF IInv, Typed
<1>2. /\ new \in Request /\ new.id = req[r].id /\ new.email = req[r].email
      /\ new.username = req[r].username /\ new.code = req[r].code
  BY <1>1 DEF Request
<1>3. req' = [req EXCEPT ![r] = new] /\ req[r].code = 0
  BY <1>1 DEF Registering
<1>4. new.id # NoUser => \A q \in Requests \ {r} : req[q].id # new.id
  BY <1>2 DEF IInv, OwnIds
<1> HIDE DEF new
<1>5. /\ new.email \in Spelling /\ ~new.email.upper /\ new.username \in Usernames
      /\ new.id \in UserIds \ Ids /\ new.code = 0
  BY <1>1, <1>2 DEF Registering
<1>6. Local(r, place, new)
  <2>1. new.code # 201 /\ new.code # 409
    BY <1>5
  <2> QED BY <1>2, <1>3, <1>4, <1>5, <2>1 DEF Local
<1> QED BY <1>6, LocalStep

LEMMA ServeKeeps ==
  ASSUME IInv, NEW r \in Requests,
         ArriveInvalid(r) \/ Serve(r) \/ Fault(r) \/ Finish(r)
  PROVE  IInv'
<1>0. req \in [Requests -> Request] /\ req[r] \in Request
  BY DEF IInv, Typed
<1>1. CASE ArriveInvalid(r)
  BY <1>1, RefusalStep DEF ArriveInvalid
<1>2. CASE CheckEmail(r)
  <2>1. CASE Answer(r, 409) /\ \E row \in users : row.email = req[r].email
    BY <1>2, <2>1, RefusalStep DEF CheckEmail, Serving
  <2>2. CASE pc' = [pc EXCEPT ![r] = "username"] /\ req' = req
    <3>1. req' = [req EXCEPT ![r].createdAt = req[r].createdAt] /\ req[r].createdAt \in 0 .. MaxTime
      BY <1>0, <2>2 DEF Request
    <3> QED BY <1>2, <2>2, <3>1, ProceedStep DEF CheckEmail, Serving
  <2> QED BY <1>2, <2>1, <2>2 DEF CheckEmail, Goto
<1>3. CASE CheckUsername(r)
  <2>1. CASE Answer(r, 409) /\ \E row \in users : row.username = req[r].username
    BY <1>3, <2>1, RefusalStep DEF CheckUsername, Serving
  <2>2. CASE pc' = [pc EXCEPT ![r] = "hash"] /\ req' = req
    <3>1. req' = [req EXCEPT ![r].createdAt = req[r].createdAt] /\ req[r].createdAt \in 0 .. MaxTime
      BY <1>0, <2>2 DEF Request
    <3> QED BY <1>3, <2>2, <3>1, ProceedStep DEF CheckUsername, Serving
  <2> QED BY <1>3, <2>1, <2>2 DEF CheckUsername, Goto
<1>4. CASE Hash(r)
  <2>1. now \in 0 .. MaxTime
    BY DEF IInv, Typed
  <2> QED BY <1>4, <2>1, ProceedStep DEF Hash, Goto, Serving
<1>5. CASE Insert(r)
  <2>1. CASE Answer(r, 500) /\ UNCHANGED writes
    BY <1>5, <2>1, RefusalStep DEF Insert
  <2>2. CASE ~(\E row \in users : SameKey(row, NewRow(r)))
    BY <1>5, <2>2, InsertStep DEF Insert, Goto
  <2> QED BY <1>5, <2>1, <2>2 DEF Insert
<1>6. CASE Commit(r)
  BY <1>6, CommitStep
<1>7. CASE Fault(r)
  BY <1>7, FaultStep
<1>8. CASE Finish(r)
  <2>1. NoRequest \in Request /\ NoRequest.id = NoUser /\ NoRequest.code = 0
    BY LimitAssumption DEF NoRequest, Request
  <2>2. "idle" \notin Serving
    BY DEF Serving
  <2>3. /\ pc' = [pc EXCEPT ![r] = "idle"] /\ req' = [req EXCEPT ![r] = NoRequest] /\ pc[r] # "commit"
        /\ UNCHANGED <<users, writes, now, walk>>
    BY <1>8 DEF Finish, Goto
  <2>4. Local(r, "idle", NoRequest)
    <3>1. NoRequest.code # 201 /\ NoRequest.code # 409
      BY <2>1
    <3> QED BY <2>1, <2>2, <2>3, <3>1 DEF Local
  <2> QED BY <2>4, LocalStep
<1> QED BY <1>1, <1>2, <1>3, <1>4, <1>5, <1>6, <1>7, <1>8 DEF Serve

\* The admin's walk shows rows of users and counts no more than there are.
LEMMA PageIsTyped ==
  ASSUME NEW w \in Walk, NEW rows \in SUBSET UserIds, NEW seen \in SUBSET UserIds, NEW total \in Nat
  PROVE  /\ [w EXCEPT !.asked = @ \cup {"rows"}, !.rows = rows] \in Walk
         /\ [w EXCEPT !.asked = @ \cup {"total"}, !.total = total] \in Walk
         /\ [w EXCEPT !.page = @ + 1, !.asked = {}, !.rows = {}, !.seen = seen] \in Walk
<1> DEFINE asked(what) == w.asked \cup {what}
           next == w.page + 1
<1>1. asked("rows") \in SUBSET {"rows", "total"} /\ asked("total") \in SUBSET {"rows", "total"}
  BY DEF Walk
<1>2. next \in Nat
  BY DEF Walk
<1> HIDE DEF asked, next
<1>3. /\ [w EXCEPT !.asked = asked("rows"), !.rows = rows] \in Walk
      /\ [w EXCEPT !.asked = asked("total"), !.total = total] \in Walk
  BY <1>1 DEF Walk
<1>4. [w EXCEPT !.page = next, !.asked = {}, !.rows = {}, !.seen = seen] \in Walk
  BY <1>2 DEF Walk
<1> QED BY <1>3, <1>4 DEF asked, next

LEMMA WalkEndsAreTyped ==
  ASSUME NEW seen \in SUBSET UserIds, NEW present \in SUBSET UserIds, NEW disordered \in BOOLEAN
  PROVE  /\ NoWalk \in Walk
         /\ [NoWalk EXCEPT !.place = "page", !.page = 1, !.present = present] \in Walk
         /\ [NoWalk EXCEPT !.place = "end", !.seen = seen, !.present = present,
                           !.disordered = disordered] \in Walk
<1>1. NoWalk \in Walk
  BY DEF NoWalk, Walk
<1> QED BY <1>1 DEF Walk

LEMMA WalkKeeps ==
  ASSUME IInv, Tick \/ WalkStart \/ FindMany \/ Count \/ NextPage \/ WalkAgain
  PROVE  IInv'
<1>1. /\ UNCHANGED <<users, writes, pc, req>> /\ now' \in 0 .. MaxTime /\ Ids' = Ids
  <2>1. UNCHANGED <<users, writes, pc, req>>
    BY DEF Tick, WalkStart, FindMany, Count, NextPage, WalkAgain
  <2>2. now' = now \/ (now < MaxTime /\ now' = now + 1)
    BY DEF Tick, WalkStart, FindMany, Count, NextPage, WalkAgain
  <2>3. now \in 0 .. MaxTime /\ MaxTime \in Nat
    BY LimitAssumption DEF IInv, Typed
  <2> QED BY <2>1, <2>2, <2>3 DEF Ids
<1>2. Cardinality(users) \in Nat /\ Cardinality(users') = Cardinality(users)
  BY <1>1, FS_CardinalityType DEF IInv, Typed
<1>3. Ids \subseteq UserIds /\ walk \in Walk /\ walk.rows \subseteq Ids /\ walk.seen \subseteq Ids
      /\ walk.present \subseteq Ids /\ walk.total <= Cardinality(users)
  BY DEF IInv, Typed, Ids, Row, WalkTyped
<1>4. walk' \in Walk /\ walk'.rows \subseteq Ids /\ walk'.seen \subseteq Ids
      /\ walk'.present \subseteq Ids /\ walk'.total <= Cardinality(users)
  <2>1. CASE Tick
    BY <1>3, <2>1 DEF Tick
  <2>2. CASE WalkStart
    <3>1. walk' = [NoWalk EXCEPT !.place = "page", !.page = 1, !.present = Ids]
      BY <2>2 DEF WalkStart
    <3>2. walk' \in Walk
      BY <1>3, <3>1, WalkEndsAreTyped
    <3>3. walk'.rows = {} /\ walk'.seen = {} /\ walk'.present = Ids /\ walk'.total = 0
      BY <3>1 DEF NoWalk
    <3> QED BY <1>2, <3>2, <3>3
  <2>3. CASE FindMany
    <3> PICK list \in Listings :
          walk' = [walk EXCEPT !.asked = @ \cup {"rows"},
                     !.rows = {list[i].id : i \in DOMAIN list \cap Offset(walk.page) + 1 .. Offset(walk.page) + Limit}]
      BY <2>3 DEF FindMany
    <3> DEFINE rows == {list[i].id : i \in DOMAIN list \cap Offset(walk.page) + 1 .. Offset(walk.page) + Limit}
    <3>1. rows \subseteq Ids
      BY DEF Listings, Ids
    <3>2. walk' = [walk EXCEPT !.asked = @ \cup {"rows"}, !.rows = rows]
      OBVIOUS
    <3> HIDE DEF rows
    <3>3. walk' \in Walk
      <4>1. rows \in SUBSET UserIds
        BY <1>3, <3>1
      <4> QED BY <1>3, <3>2, <4>1, PageIsTyped
    <3>4. walk'.rows = rows /\ walk'.seen = walk.seen /\ walk'.present = walk.present
          /\ walk'.total = walk.total
      BY <1>3, <3>2 DEF Walk
    <3> QED BY <1>3, <3>1, <3>3, <3>4
  <2>4. CASE Count
    <3>1. walk' = [walk EXCEPT !.asked = @ \cup {"total"}, !.total = Cardinality(users)]
      BY <2>4 DEF Count
    <3>2. walk' \in Walk
      BY <1>2, <1>3, <3>1, PageIsTyped
    <3>3. walk'.rows = walk.rows /\ walk'.seen = walk.seen /\ walk'.present = walk.present
          /\ walk'.total = Cardinality(users)
      BY <1>3, <3>1 DEF Walk
    <3> QED BY <1>2, <1>3, <3>2, <3>3
  <2>5. CASE NextPage
    <3> DEFINE seen == walk.seen \cup walk.rows
    <3>1. seen \subseteq Ids
      BY <1>3
    <3>2. \/ walk' = [NoWalk EXCEPT !.place = "end", !.seen = seen, !.present = walk.present,
                                    !.disordered = walk.disordered]
          \/ walk' = [walk EXCEPT !.page = @ + 1, !.asked = {}, !.rows = {}, !.seen = seen]
      BY <2>5 DEF NextPage
    <3> HIDE DEF seen
    <3>3. CASE walk' = [NoWalk EXCEPT !.place = "end", !.seen = seen, !.present = walk.present,
                                      !.disordered = walk.disordered]
      <4>1. walk.disordered \in BOOLEAN /\ walk.present \in SUBSET UserIds /\ seen \in SUBSET UserIds
        BY <1>3, <3>1 DEF Walk
      <4>2. walk' \in Walk
        BY <3>3, <4>1, WalkEndsAreTyped
      <4>3. walk'.rows = {} /\ walk'.seen = seen /\ walk'.present = walk.present /\ walk'.total = 0
        BY <3>3 DEF NoWalk
      <4> QED BY <1>2, <1>3, <3>1, <4>2, <4>3
    <3>4. CASE walk' = [walk EXCEPT !.page = @ + 1, !.asked = {}, !.rows = {}, !.seen = seen]
      <4>1. walk' \in Walk
        BY <1>3, <3>1, <3>4, PageIsTyped
      <4>2. walk'.rows = {} /\ walk'.seen = seen /\ walk'.present = walk.present
            /\ walk'.total = walk.total
        BY <1>3, <3>4 DEF Walk
      <4> QED BY <1>3, <3>1, <4>1, <4>2
    <3> QED BY <3>2, <3>3, <3>4
  <2>6. CASE WalkAgain
    <3>1. walk' = NoWalk /\ NoWalk \in Walk
      BY <2>6, WalkEndsAreTyped DEF WalkAgain
    <3>2. NoWalk.rows = {} /\ NoWalk.seen = {} /\ NoWalk.present = {} /\ NoWalk.total = 0
      BY DEF NoWalk
    <3> QED BY <1>2, <3>1, <3>2
  <2> QED BY <2>1, <2>2, <2>3, <2>4, <2>5, <2>6
<1>5. Typed' /\ OwnIds' /\ KeysUnique' /\ AnswersTrue'
  BY <1>1 DEF IInv, Typed, OwnIds, KeysUnique, AnswersTrue
<1>6. \A r \in Requests : Registering(r)'
  BY <1>1 DEF IInv, Registering, NewRow
<1> QED BY <1>1, <1>2, <1>4, <1>5, <1>6 DEF IInv, WalkTyped

\* The invariant holds in every state registrations and walks can reach.
THEOREM Invariance == Spec => []IInv
<1>1. Init => IInv
  BY IInvInit
<1>2. IInv /\ [Next]_vars => IInv'
  <2> SUFFICES ASSUME IInv, [Next]_vars PROVE IInv'
    OBVIOUS
  <2>1. CASE UNCHANGED vars
    BY <2>1 DEF vars, IInv, Typed, OwnIds, KeysUnique, WalkTyped, AnswersTrue, Registering, NewRow, Ids
  <2>2. CASE Next
    BY <2>2, ServeKeeps, ArriveKeeps, WalkKeeps DEF Next
  <2> QED BY <2>1, <2>2
<1> QED BY <1>1, <1>2, PTL DEF Spec

\* Rows, transactions and the walk are what they are meant to be.
THEOREM TypeCorrect == Spec => []TypeOK
<1>1. IInv => TypeOK
  <2> SUFFICES ASSUME IInv PROVE TypeOK
    OBVIOUS
  <2>1. ASSUME NEW r \in Requests
        PROVE  /\ writes[r] # NoRow => writes[r] \in Row /\ pc[r] = "commit" /\ writes[r].id = req[r].id
               /\ pc[r] = "commit" => writes[r] # NoRow
               /\ pc[r] \in Serving => req[r].email \in Spelling /\ req[r].id \in UserIds \ Ids
    BY DEF IInv, Typed, Registering, NewRow
  <2> QED BY <2>1 DEF IInv, Typed, WalkTyped, TypeOK
<1> QED BY <1>1, Invariance, PTL

\* Nobody gets an address or a name that another account has.
THEOREM OneAccount == Spec => []OneAccountPerMailbox
<1>1. IInv => OneAccountPerMailbox
  <2> SUFFICES ASSUME IInv, NEW row \in users, NEW other \in users,
                      row.email.mailbox = other.email.mailbox \/ row.username = other.username
               PROVE  row = other
    BY DEF OneAccountPerMailbox
  <2>1. row.email \in Spelling /\ other.email \in Spelling
    BY DEF IInv, Typed, Row
  <2>2. row.email.upper = FALSE /\ other.email.upper = FALSE
    BY <2>1 DEF IInv, KeysUnique, Spelling
  <2>3. row.email.mailbox = other.email.mailbox => row.email = other.email
    BY <2>1, <2>2 DEF Spelling
  <2> QED BY <2>3 DEF IInv, KeysUnique, SameKey
<1> QED BY <1>1, Invariance, PTL

\* The answers of a registration are true of the table.
THEOREM TrueAnswers == Spec => []AnswersTrue
<1>1. IInv => AnswersTrue
  BY DEF IInv
<1> QED BY <1>1, Invariance, PTL
-----------------------------------------------------------------------------
(* The admin's walk.  While only rows that come last are committed, every   *)
(* row keeps its place in the list, so that the pages do not shift.         *)

Distinct == \A row, other \in users : row # other => row.createdAt # other.createdAt

Earlier(row) == {other \in users : other.createdAt < row.createdAt}

Place(row) == Cardinality(Earlier(row))

\* How far the walk has come decides whether the row has been shown.
Shown(row) ==
  /\ walk.place = "page" =>
       /\ Place(row) < Offset(walk.page) => row.id \in walk.seen
       /\ "rows" \in walk.asked /\ Place(row) \in Offset(walk.page) .. Offset(walk.page) + Limit - 1 =>
            row.id \in walk.rows
       /\ "total" \in walk.asked => Place(row) < walk.total
  /\ walk.place = "end" => row.id \in walk.seen

WalkInv ==
  /\ walk.place = "page" => walk.page # 0
  /\ walk.asked # {} => walk.place = "page"
  /\ ~walk.disordered /\ Distinct =>
       \A row \in users : row.id \in walk.present => Shown(row)

\* A row's place is one of the list's.
LEMMA PlaceIsInList ==
  ASSUME IInv, NEW row \in users
  PROVE  Place(row) \in Nat /\ Cardinality(users) \in Nat /\ Place(row) < Cardinality(users)
<1>1. IsFiniteSet(users) /\ row.createdAt \in 0 .. MaxTime
  BY DEF IInv, Typed, Row
<1>2. Earlier(row) \subseteq users \ {row}
  BY <1>1 DEF Earlier
<1>3. IsFiniteSet(users \ {row}) /\ Cardinality(users \ {row}) = Cardinality(users) - 1
  BY <1>1, FS_RemoveElement
<1>4. Cardinality(users) \in Nat
  BY <1>1, FS_CardinalityType
<1>5. IsFiniteSet(Earlier(row)) /\ Cardinality(Earlier(row)) <= Cardinality(users \ {row})
  BY <1>2, <1>3, FS_Subset
<1>6. Cardinality(Earlier(row)) \in Nat
  BY <1>5, FS_CardinalityType
<1> QED BY <1>3, <1>4, <1>5, <1>6 DEF Place

\* When no two rows have the same time, every order the database may return is
\* the one by places.
LEMMA ListedAtPlace ==
  ASSUME IInv, Distinct, NEW list \in Listings, NEW row \in users
  PROVE  Place(row) + 1 \in DOMAIN list /\ list[Place(row) + 1] = row
<1> DEFINE C == Cardinality(users)
<1>1. IsFiniteSet(users) /\ C \in Nat /\ \A other \in users : other.createdAt \in Int
  BY FS_CardinalityType DEF IInv, Typed, Row
<1>2. /\ list \in [1 .. C -> users]
      /\ \A i, j \in 1 .. C : i < j => list[i] # list[j] /\ list[i].createdAt <= list[j].createdAt
  BY DEF Listings
<1>3. \A i, j \in 1 .. C : list[i] = list[j] => i = j
  <2> SUFFICES ASSUME NEW i \in 1 .. C, NEW j \in 1 .. C, list[i] = list[j] PROVE i = j
    OBVIOUS
  <2>1. ~(i < j) /\ ~(j < i)
    BY <1>2
  <2> QED BY <1>1, <2>1
<1>4. list \in Surjection(1 .. C, users)
  <2>1. list \in Injection(1 .. C, users)
    BY <1>2, <1>3 DEF Injection, IsInjective
  <2>2. Cardinality(1 .. C) = C
    BY <1>1, FS_Interval
  <2> QED BY <1>1, <2>1, <2>2, FS_Injection
<1>5. \A other \in users : \E i \in 1 .. C : list[i] = other
  BY <1>4 DEF Surjection
<1>6. PICK i \in 1 .. C : list[i] = row
  BY <1>5
<1>7. \A j \in 1 .. C : j < i <=> list[j] \in Earlier(row)
  <2> SUFFICES ASSUME NEW j \in 1 .. C PROVE j < i <=> list[j] \in Earlier(row)
    OBVIOUS
  <2>1. list[j] \in users
    BY <1>2
  <2>2. j < i => list[j].createdAt < row.createdAt
    BY <1>1, <1>2, <1>6, <2>1 DEF Distinct
  <2>3. i <= j => ~(list[j].createdAt < row.createdAt)
    BY <1>1, <1>2, <1>6, <2>1
  <2> QED BY <1>1, <2>1, <2>2, <2>3 DEF Earlier
<1>8. Cardinality(Earlier(row)) = i - 1
  <2> DEFINE f == [j \in 1 .. i - 1 |-> list[j]]
  <2>1. \A j \in 1 .. i - 1 : j \in 1 .. C /\ j < i
    BY <1>1
  <2>2. f \in [1 .. i - 1 -> Earlier(row)]
    BY <1>7, <2>1
  <2>3. \A j, k \in 1 .. i - 1 : f[j] = f[k] => j = k
    BY <1>3, <2>1
  <2>4. \A other \in Earlier(row) : \E j \in 1 .. i - 1 : f[j] = other
    <3> SUFFICES ASSUME NEW other \in Earlier(row) PROVE \E j \in 1 .. i - 1 : f[j] = other
      OBVIOUS
    <3>1. PICK j \in 1 .. C : list[j] = other
      BY <1>5 DEF Earlier
    <3>2. j \in 1 .. i - 1
      BY <1>1, <1>7, <3>1
    <3> QED BY <3>1, <3>2
  <2>5. f \in Bijection(1 .. i - 1, Earlier(row))
    BY <2>2, <2>3, <2>4 DEF Bijection, Injection, IsInjective, Surjection
  <2>6. IsFiniteSet(1 .. i - 1) /\ Cardinality(1 .. i - 1) = i - 1
    <3>1. 1 \in Int /\ i - 1 \in Int /\ i - 1 >= 0
      BY <1>1
    <3>2. /\ IsFiniteSet(1 .. i - 1)
          /\ Cardinality(1 .. i - 1) = IF 1 > i - 1 THEN 0 ELSE (i - 1) - 1 + 1
      BY <3>1, FS_Interval
    <3> QED BY <3>1, <3>2
  <2> HIDE DEF f
  <2>7. ExistsBijection(1 .. i - 1, Earlier(row))
    BY <2>5 DEF ExistsBijection
  <2> QED BY <2>6, <2>7, FS_Bijection
<1>9. Place(row) + 1 = i
  BY <1>1, <1>8 DEF Place
<1> QED BY <1>2, <1>6, <1>9

\* The next page begins where this one ends.
LEMMA Offsets ==
  ASSUME NEW page \in Nat
  PROVE  /\ Offset(page) \in Int /\ Offset(page + 1) = page * Limit
         /\ page * Limit = Offset(page) + Limit /\ Offset(1) = 0 /\ Limit \in Nat \ {0}
BY LimitAssumption DEF Offset

\* A commit that comes last shifts no row of the list.
LEMMA CommitShiftsNobody ==
  ASSUME IInv, NEW r \in Requests, Commit(r), ~walk'.disordered
  PROVE  /\ ~walk.disordered
         /\ walk'.place = walk.place /\ walk'.page = walk.page /\ walk'.rows = walk.rows
         /\ walk'.total = walk.total /\ walk'.asked = walk.asked /\ walk'.seen = walk.seen
         /\ walk'.present = walk.present
         /\ \A row \in users : row \in users' /\ Place(row)' = Place(row)
         /\ \A row \in users' : row.id \in walk.present => row \in users
<1> DEFINE new == writes[r]
           late == walk.disordered \/ \E row \in users : row.createdAt >= new.createdAt
<1>1. /\ Registering(r) /\ new \in Row /\ users' = users \cup {new}
      /\ walk' = [walk EXCEPT !.disordered = late]
  BY NoRowIsNoRow DEF Commit, IInv, Registering, Typed
<1>2. walk \in Walk /\ walk.present \subseteq Ids
  BY DEF IInv, WalkTyped
<1>3. new.id \notin Ids
  BY <1>1 DEF Commit, Registering, Serving, NewRow
<1>4. walk'.disordered = late
  <2> HIDE DEF late
  <2> QED BY <1>1, <1>2 DEF Walk
<1>5. /\ ~walk.disordered
      /\ \A row \in users : ~(row.createdAt >= new.createdAt)
  BY <1>4
<1>6. /\ walk'.place = walk.place /\ walk'.page = walk.page /\ walk'.rows = walk.rows
      /\ walk'.total = walk.total /\ walk'.asked = walk.asked /\ walk'.seen = walk.seen
      /\ walk'.present = walk.present
  <2> HIDE DEF late
  <2> QED BY <1>1, <1>2 DEF Walk
<1>7. ASSUME NEW row \in users PROVE row \in users' /\ Place(row)' = Place(row)
  <2>1. row.createdAt \in Int /\ new.createdAt \in Int /\ ~(row.createdAt >= new.createdAt)
    BY <1>1, <1>5 DEF IInv, Typed, Row
  <2>2. {other \in users' : other.createdAt < row.createdAt} = {other \in users : other.createdAt < row.createdAt}
    BY <1>1, <2>1
  <2> QED BY <1>1, <2>2 DEF Place, Earlier
<1>8. \A row \in users' : row.id \in walk.present => row \in users
  BY <1>1, <1>2, <1>3
<1> QED BY <1>5, <1>6, <1>7, <1>8
\* Every step of the walk, and every commit that comes last, keeps what has
\* been shown.
LEMMA WalkInvStep == IInv /\ WalkInv /\ [Next]_vars => WalkInv'
<1> SUFFICES ASSUME IInv, WalkInv, [Next]_vars PROVE WalkInv'
  OBVIOUS
<1>0. walk \in Walk /\ Ids \subseteq UserIds
  BY DEF IInv, WalkTyped, Typed, Ids, Row
<1>1. CASE UNCHANGED <<users, walk>>
  BY <1>1 DEF WalkInv, Distinct, Shown, Place, Earlier
<1>2. ASSUME NEW r \in Requests, Commit(r) PROVE WalkInv'
  <2>1. walk.place = "page" => walk.page # 0
    BY DEF WalkInv
  <2>2. /\ walk'.place = walk.place /\ walk'.page = walk.page /\ walk'.asked = walk.asked
        /\ users \subseteq users'
    <3> DEFINE late == walk.disordered \/ \E row \in users : row.createdAt >= writes[r].createdAt
    <3>1. walk' = [walk EXCEPT !.disordered = late] /\ users \subseteq users'
      BY <1>2 DEF Commit
    <3> HIDE DEF late
    <3> QED BY <1>0, <3>1 DEF Walk
  <2>3. ASSUME ~walk'.disordered, Distinct', NEW row \in users', row.id \in walk'.present
        PROVE  Shown(row)'
    <3>1. /\ ~walk.disordered /\ row.id \in walk.present /\ row \in users
          /\ Place(row)' = Place(row)
          /\ walk'.place = walk.place /\ walk'.page = walk.page /\ walk'.rows = walk.rows
          /\ walk'.total = walk.total /\ walk'.asked = walk.asked /\ walk'.seen = walk.seen
      BY <1>2, <2>3, CommitShiftsNobody
    <3>2. Distinct
      BY <2>2, <2>3 DEF Distinct
    <3>3. Shown(row)
      BY <3>1, <3>2 DEF WalkInv
    <3> QED BY <3>1, <3>3 DEF Shown, Offset
  <2> QED BY <2>1, <2>2, <2>3 DEF WalkInv
<1>3. ASSUME UNCHANGED users, walk'.place = "page" => walk'.page # 0,
             walk'.asked # {} => walk'.place = "page",
             ASSUME ~walk'.disordered, Distinct, NEW row \in users, row.id \in walk'.present
             PROVE  Shown(row)'
      PROVE  WalkInv'
  <2>1. Distinct' = Distinct
    BY <1>3 DEF Distinct
  <2> QED BY <1>3, <2>1 DEF WalkInv
<1>4. ASSUME UNCHANGED users, NEW row \in users
      PROVE  Place(row)' = Place(row)
  BY <1>4 DEF Place, Earlier
<1>5. CASE WalkStart
  <2>1. /\ walk' = [NoWalk EXCEPT !.place = "page", !.page = 1, !.present = Ids]
        /\ UNCHANGED users
    BY <1>5 DEF WalkStart
  <2>2. walk'.place = "page" /\ walk'.page = 1 /\ walk'.asked = {}
    BY <2>1 DEF NoWalk
  <2>3. walk'.page # 0
    BY <2>2
  <2>4. ASSUME NEW row \in users PROVE Shown(row)'
    <3>1. Place(row)' \in Nat /\ Offset(walk'.page) = 0
      BY <1>4, <2>1, <2>2, <2>4, PlaceIsInList, Offsets
    <3> QED BY <2>2, <3>1 DEF Shown, Offset
  <2> QED BY <1>3, <2>1, <2>2, <2>3, <2>4
<1>6. CASE FindMany
  <2>1. PICK list \in Listings :
          walk' = [walk EXCEPT !.asked = @ \cup {"rows"},
                     !.rows = {list[i].id : i \in DOMAIN list \cap Offset(walk.page) + 1 .. Offset(walk.page) + Limit}]
    BY <1>6 DEF FindMany
  <2> DEFINE rows == {list[i].id : i \in DOMAIN list \cap Offset(walk.page) + 1 .. Offset(walk.page) + Limit}
  <2>2. walk.place = "page" /\ UNCHANGED users
    BY <1>6 DEF FindMany
  <2>3. ASSUME Distinct, NEW row \in users,
               Place(row) \in Offset(walk.page) .. Offset(walk.page) + Limit - 1
        PROVE  row.id \in rows
    <3>1. Place(row) + 1 \in DOMAIN list /\ list[Place(row) + 1] = row
      BY <2>3, ListedAtPlace
    <3>2. Offset(walk.page) \in Int /\ Limit \in Nat /\ Place(row) \in Nat
      BY <1>0, <2>3, Offsets, PlaceIsInList DEF Walk
    <3>3. Place(row) + 1 \in Offset(walk.page) + 1 .. Offset(walk.page) + Limit
      BY <2>3, <3>2
    <3> QED BY <3>1, <3>3
  <2>4. walk' = [walk EXCEPT !.asked = @ \cup {"rows"}, !.rows = rows]
    BY <2>1
  <2> HIDE DEF rows
  <2>5. /\ walk'.place = "page" /\ walk'.page = walk.page /\ walk'.rows = rows
        /\ walk'.asked = walk.asked \cup {"rows"} /\ walk'.total = walk.total
        /\ walk'.seen = walk.seen /\ walk'.present = walk.present
        /\ walk'.disordered = walk.disordered
    BY <1>0, <2>2, <2>4 DEF Walk
  <2>6. ASSUME ~walk'.disordered, Distinct, NEW row \in users, row.id \in walk'.present
        PROVE  Shown(row)'
    <3>1. Shown(row) /\ Place(row)' = Place(row)
      BY <1>4, <2>2, <2>5, <2>6 DEF WalkInv
    <3>2. Place(row) \in Offset(walk.page) .. Offset(walk.page) + Limit - 1 => row.id \in rows
      BY <2>3, <2>6
    <3> QED BY <2>2, <2>5, <3>1, <3>2 DEF Shown, Offset
  <2>7. walk'.page # 0
    BY <2>2, <2>5 DEF WalkInv
  <2> QED BY <1>3, <2>2, <2>5, <2>6, <2>7
<1>7. CASE Count
  <2>1. /\ walk.place = "page" /\ UNCHANGED users
        /\ walk' = [walk EXCEPT !.asked = @ \cup {"total"}, !.total = Cardinality(users)]
    BY <1>7 DEF Count
  <2>2. /\ walk'.place = "page" /\ walk'.page = walk.page /\ walk'.rows = walk.rows
        /\ walk'.asked = walk.asked \cup {"total"} /\ walk'.total = Cardinality(users)
        /\ walk'.seen = walk.seen /\ walk'.present = walk.present
        /\ walk'.disordered = walk.disordered
    BY <1>0, <2>1 DEF Walk
  <2>3. ASSUME ~walk'.disordered, Distinct, NEW row \in users, row.id \in walk'.present
        PROVE  Shown(row)'
    <3>1. Shown(row) /\ Place(row)' = Place(row) /\ Place(row) < Cardinality(users)
      BY <1>4, <2>1, <2>2, <2>3, PlaceIsInList DEF WalkInv
    <3> QED BY <2>1, <2>2, <3>1 DEF Shown, Offset
  <2>4. walk'.page # 0
    BY <2>1, <2>2 DEF WalkInv
  <2> QED BY <1>3, <2>1, <2>2, <2>3, <2>4
<1>8. CASE NextPage
  <2> DEFINE seen == walk.seen \cup walk.rows
  <2>1. walk.asked = {"rows", "total"} /\ walk.place = "page" /\ UNCHANGED users
    BY <1>8 DEF NextPage, WalkInv
  \* what is shown by the end of this page
  <2>2. ASSUME ~walk.disordered, Distinct, NEW row \in users, row.id \in walk.present
        PROVE  /\ Place(row) < walk.total /\ Place(row) \in Nat
               /\ Place(row) < walk.page * Limit => row.id \in seen
    <3>1. Shown(row)
      BY <2>2 DEF WalkInv
    <3>2. /\ Place(row) < walk.total
          /\ Place(row) < Offset(walk.page) => row.id \in walk.seen
          /\ Place(row) \in Offset(walk.page) .. Offset(walk.page) + Limit - 1 => row.id \in walk.rows
      BY <2>1, <3>1 DEF Shown
    <3>3. /\ Offset(walk.page) \in Int /\ walk.page * Limit = Offset(walk.page) + Limit
          /\ Limit \in Nat /\ Place(row) \in Nat
      BY <1>0, <2>2, Offsets, PlaceIsInList DEF Walk
    <3>4. Place(row) < walk.page * Limit =>
            \/ Place(row) < Offset(walk.page)
            \/ Place(row) \in Offset(walk.page) .. Offset(walk.page) + Limit - 1
      BY <3>3
    <3> QED BY <3>2, <3>3, <3>4
  <2>3. walk.page \in Nat /\ walk.total \in Nat /\ walk.page * Limit \in Int
        /\ Offset(walk.page + 1) = walk.page * Limit
    <3>1. walk.page \in Nat /\ walk.total \in Nat
      BY <1>0 DEF Walk
    <3>2. /\ Offset(walk.page) \in Int /\ Offset(walk.page + 1) = walk.page * Limit
          /\ walk.page * Limit = Offset(walk.page) + Limit /\ Limit \in Nat
      BY <3>1, Offsets
    <3> QED BY <3>1, <3>2
  <2>4. CASE walk.page * Limit >= walk.total
    <3>1. walk' = [NoWalk EXCEPT !.place = "end", !.seen = seen,
                                 !.present = walk.present, !.disordered = walk.disordered]
      BY <1>8, <2>4 DEF NextPage
    <3> HIDE DEF seen
    <3>2. /\ walk'.place = "end" /\ walk'.asked = {} /\ walk'.seen = seen
          /\ walk'.present = walk.present /\ walk'.disordered = walk.disordered
      BY <3>1 DEF NoWalk
    <3>3. ASSUME ~walk'.disordered, Distinct, NEW row \in users, row.id \in walk'.present
          PROVE  Shown(row)'
      <4>1. Place(row) < walk.total /\ Place(row) \in Nat
            /\ (Place(row) < walk.page * Limit => row.id \in seen)
        BY <2>2, <3>2, <3>3
      <4>2. row.id \in seen
        BY <2>3, <2>4, <4>1
      <4> QED BY <3>2, <4>2 DEF Shown
    <3> QED BY <1>3, <2>1, <3>2, <3>3
  <2>5. CASE ~(walk.page * Limit >= walk.total)
    <3>1. walk' = [walk EXCEPT !.page = @ + 1, !.asked = {}, !.rows = {}, !.seen = seen]
      BY <1>8, <2>5 DEF NextPage
    <3> HIDE DEF seen
    <3>2. /\ walk'.place = "page" /\ walk'.page = walk.page + 1 /\ walk'.asked = {}
          /\ walk'.seen = seen
          /\ walk'.present = walk.present /\ walk'.disordered = walk.disordered
      BY <1>0, <2>1, <3>1 DEF Walk
    <3>3. ASSUME ~walk'.disordered, Distinct, NEW row \in users, row.id \in walk'.present
          PROVE  Shown(row)'
      <4>1. Place(row) < walk.page * Limit => row.id \in seen
        BY <2>2, <3>2, <3>3
      <4>2. Place(row)' = Place(row) /\ Offset(walk'.page) = walk.page * Limit
        BY <1>4, <2>1, <2>3, <3>2, <3>3
      <4> QED BY <3>2, <4>1, <4>2 DEF Shown, Offset
    <3>4. walk'.page # 0
      BY <2>3, <3>2
    <3> QED BY <1>3, <2>1, <3>2, <3>3, <3>4
  <2> QED BY <2>4, <2>5
<1>9. CASE WalkAgain
  <2>1. walk'.place = "idle" /\ walk'.asked = {} /\ UNCHANGED users
    BY <1>9 DEF WalkAgain, NoWalk
  <2>2. ASSUME NEW row \in users PROVE Shown(row)'
    BY <2>1 DEF Shown
  <2> QED BY <1>3, <2>1, <2>2
<1>10. UNCHANGED <<users, walk>> \/ (\E r \in Requests : Commit(r))
         \/ WalkStart \/ FindMany \/ Count \/ NextPage \/ WalkAgain
  BY DEF Next, vars, ArriveInvalid, Arrive, Serve, CheckEmail, CheckUsername, Hash, Insert, Fault,
         Finish, Tick
<1> QED BY <1>1, <1>2, <1>5, <1>6, <1>7, <1>8, <1>9, <1>10

\* An admin who walks through the pages sees every user who was there at the
\* start, however many register meanwhile and whatever page and total are read
\* when, as long as the rows committed come last in the order of the list.
THEOREM WalkIsComplete == Spec => []WalkMissesNobody
<1>1. Init => WalkInv
  BY DEF Init, WalkInv, NoWalk
<1>2. IInv /\ WalkInv /\ [Next]_vars => WalkInv'
  BY WalkInvStep
<1>3. IInv /\ WalkInv => WalkMissesNobody
  <2> SUFFICES ASSUME IInv, WalkInv, walk.place = "end", ~walk.disordered, Distinct,
                      NEW id \in walk.present
               PROVE  id \in walk.seen
    BY DEF WalkMissesNobody, Distinct
  <2>1. PICK row \in users : row.id = id
    BY DEF IInv, WalkTyped, Ids
  <2> QED BY <2>1 DEF WalkInv, Shown
<1> QED BY <1>1, <1>2, <1>3, Invariance, PTL DEF Spec
=============================================================================
