---------------------------- MODULE Registration ----------------------------
(***************************************************************************)
(* The table users: registrations, each in an interactive transaction of   *)
(* its own, and an admin who walks through the list of users page by page. *)
(*                                                                         *)
(* Whether an e-mail and a username are free is asked before the password  *)
(* is hashed and the row inserted.  The transaction reads what others have *)
(* committed and locks nothing, so only the unique indexes decide.         *)
(***************************************************************************)
EXTENDS Naturals, Sequences, FiniteSets

CONSTANTS
  Mailboxes,   \* e-mail addresses, however they are spelt
  Usernames,   \* names; other capitals make another name
  UserIds,     \* bound: the user ids there will ever be
  Requests,    \* the slots of registrations being served at the same time
  Limit,       \* users per page of the admin's list
  MaxTime,     \* bound: the last time of the clock
  NoUser

ASSUME LimitAssumption == Limit \in Nat \ {0} /\ MaxTime \in Nat

ASSUME NoUserAssumption == NoUser \notin UserIds

VARIABLES
  users,    \* the committed rows
  writes,   \* per registration: the row its open transaction has inserted
  pc,       \* where each registration stands
  req,      \* its local variables
  now,      \* the clock
  walk      \* the admin's walk through the pages

vars == <<users, writes, pc, req, now, walk>>

\* An address as it was typed, in lower case or not.
Spelling == [mailbox : Mailboxes, upper : BOOLEAN]

Row == [id : UserIds, email : Spelling, username : Usernames, createdAt : 0 .. MaxTime]

NoRow == [id |-> NoUser]

Ids == {row.id : row \in users}

\* code is the answer, 0 before there is one
NoRequest == [email |-> NoUser, username |-> NoUser, id |-> NoUser, createdAt |-> 0, code |-> 0]

\* present, disordered are history: who was there at the start, and whether a
\* row was committed since that does not come after all others.
NoWalk == [place |-> "idle", page |-> 0, rows |-> {}, total |-> 0, asked |-> {},
           seen |-> {}, present |-> {}, disordered |-> FALSE]

Serving == {"email", "username", "hash", "insert", "commit"}

TypeOK ==
  /\ users \subseteq Row
  /\ \A r \in Requests :
       /\ writes[r] # NoRow => writes[r] \in Row /\ pc[r] = "commit" /\ writes[r].id = req[r].id
       /\ pc[r] = "commit" => writes[r] # NoRow
       /\ pc[r] \in Serving => req[r].email \in Spelling /\ req[r].id \in UserIds \ Ids
  /\ now \in 0 .. MaxTime
  /\ walk.seen \subseteq Ids /\ walk.present \subseteq Ids /\ walk.total <= Cardinality(users)

Init ==
  /\ users = {}
  /\ writes = [r \in Requests |-> NoRow]
  /\ pc = [r \in Requests |-> "idle"]
  /\ req = [r \in Requests |-> NoRequest]
  /\ now = 0
  /\ walk = NoWalk

-----------------------------------------------------------------------------
(* Registrations *)

Goto(r, place) == pc' = [pc EXCEPT ![r] = place]

Answer(r, code) ==
  /\ req' = [req EXCEPT ![r].code = code]
  /\ Goto(r, "answered")

\* Email.create: trimmed and in lower case.
Normalized(email) == [email EXCEPT !.upper = FALSE]

\* Missing fields (400) or an address, a name or a password that is none (422).
ArriveInvalid(r) ==
  /\ pc[r] = "idle"
  /\ Answer(r, 422)
  /\ UNCHANGED <<users, writes, now, walk>>

\* The id is generated after the hash; that it is unused is all that matters.
Arrive(r, email, username) ==
  /\ pc[r] = "idle"
  /\ \E id \in UserIds \ (Ids \cup {req[q].id : q \in Requests}) :
       req' = [req EXCEPT ![r] = [NoRequest EXCEPT !.email = Normalized(email),
                                                   !.username = username, !.id = id]]
  /\ Goto(r, "email")
  /\ UNCHANGED <<users, writes, now, walk>>

\* existsByEmail
CheckEmail(r) ==
  /\ pc[r] = "email"
  /\ IF \E row \in users : row.email = req[r].email
       THEN Answer(r, 409) ELSE Goto(r, "username") /\ UNCHANGED req
  /\ UNCHANGED <<users, writes, now, walk>>

\* existsByUsername
CheckUsername(r) ==
  /\ pc[r] = "username"
  /\ IF \E row \in users : row.username = req[r].username
       THEN Answer(r, 409) ELSE Goto(r, "hash") /\ UNCHANGED req
  /\ UNCHANGED <<users, writes, now, walk>>

\* bcrypt takes its time; createdAt is the time after it.
Hash(r) ==
  /\ pc[r] = "hash"
  /\ req' = [req EXCEPT ![r].createdAt = now]
  /\ Goto(r, "insert")
  /\ UNCHANGED <<users, writes, now, walk>>

NewRow(r) == [id |-> req[r].id, email |-> req[r].email, username |-> req[r].username,
              createdAt |-> req[r].createdAt]

SameKey(row, other) == row.email = other.email \/ row.username = other.username

\* Mutant: the table has no unique indexes.
InsertUnindexed(r) ==
  /\ pc[r] = "insert"
  /\ writes' = [writes EXCEPT ![r] = NewRow(r)]
  /\ Goto(r, "commit")
  /\ UNCHANGED <<users, req, now, walk>>

\* Mutant: save catches the refusal of the index and does not throw.
InsertSwallowed(r) ==
  /\ pc[r] = "insert"
  /\ \A q \in Requests : writes[q] # NoRow => ~SameKey(writes[q], NewRow(r))
  /\ IF \E row \in users : SameKey(row, NewRow(r))
       THEN Answer(r, 201) /\ UNCHANGED writes
       ELSE /\ writes' = [writes EXCEPT ![r] = NewRow(r)]
            /\ Goto(r, "commit") /\ UNCHANGED req
  /\ UNCHANGED <<users, now, walk>>

\* The upsert of a new id.  A unique index makes it wait for an open transaction
\* that inserted the same key, and refuses it if that one commits; the violation
\* reaches the client as an InfrastructureError.
Insert(r) ==
  /\ pc[r] = "insert"
  /\ \A q \in Requests : writes[q] # NoRow => ~SameKey(writes[q], NewRow(r))
  /\ IF \E row \in users : SameKey(row, NewRow(r))
       THEN Answer(r, 500) /\ UNCHANGED writes
       ELSE /\ writes' = [writes EXCEPT ![r] = NewRow(r)]
            /\ Goto(r, "commit") /\ UNCHANGED req
  /\ UNCHANGED <<users, now, walk>>

\* Mutant: the transaction stays open after its answer.
CommitLeftOpen(r) ==
  /\ pc[r] = "commit"
  /\ users' = users \cup {writes[r]}
  /\ \E code \in {201, 500} : Answer(r, code)
  /\ UNCHANGED <<writes, now, walk>>

\* The rows become visible; the answer is 201, or 500 if the connection is lost
\* before the acknowledgement of COMMIT arrives.
Commit(r) ==
  /\ pc[r] = "commit"
  /\ users' = users \cup {writes[r]}
  /\ writes' = [writes EXCEPT ![r] = NoRow]
  /\ \E code \in {201, 500} : Answer(r, code)
  /\ walk' = [walk EXCEPT !.disordered =
                @ \/ \E row \in users : row.createdAt >= writes[r].createdAt]
  /\ UNCHANGED now

\* A statement, bcrypt or the process fails; the transaction rolls back.
Fault(r) ==
  /\ pc[r] \in Serving
  /\ writes' = [writes EXCEPT ![r] = NoRow]
  /\ Answer(r, 500)
  /\ UNCHANGED <<users, now, walk>>

\* The client has its answer, or has lost it, and may register again.
Finish(r) ==
  /\ pc[r] = "answered"
  /\ req' = [req EXCEPT ![r] = NoRequest]
  /\ Goto(r, "idle")
  /\ UNCHANGED <<users, writes, now, walk>>

Tick ==
  /\ now < MaxTime
  /\ now' = now + 1
  /\ UNCHANGED <<users, writes, pc, req, walk>>

-----------------------------------------------------------------------------
(* The admin's list *)

\* The orders in which the database may return the rows: by createdAt, equal
\* ones in any order.
Listings ==
  {list \in [1 .. Cardinality(users) -> users] :
     \A i, j \in DOMAIN list : i < j =>
       list[i] # list[j] /\ list[i].createdAt <= list[j].createdAt}

\* Mutant: the offset is counted from the page's own number.
OffsetOneBased(page) == page * Limit

Offset(page) == (page - 1) * Limit

WalkStart ==
  /\ walk.place = "idle"
  /\ walk' = [NoWalk EXCEPT !.place = "page", !.page = 1, !.present = Ids]
  /\ UNCHANGED <<users, writes, pc, req, now>>

\* findMany and count are sent together and answered in any order.
FindMany ==
  /\ walk.place = "page" /\ "rows" \notin walk.asked
  /\ \E list \in Listings :
       walk' = [walk EXCEPT !.asked = @ \cup {"rows"},
                  !.rows = {list[i].id : i \in DOMAIN list \cap Offset(walk.page) + 1 .. Offset(walk.page) + Limit}]
  /\ UNCHANGED <<users, writes, pc, req, now>>

Count ==
  /\ walk.place = "page" /\ "total" \notin walk.asked
  /\ walk' = [walk EXCEPT !.asked = @ \cup {"total"}, !.total = Cardinality(users)]
  /\ UNCHANGED <<users, writes, pc, req, now>>

\* External: the console shows page after page up to the total it was told.
NextPage ==
  /\ walk.asked = {"rows", "total"}
  /\ LET seen == walk.seen \cup walk.rows
     IN  walk' = IF walk.page * Limit >= walk.total
                   THEN [NoWalk EXCEPT !.place = "end", !.seen = seen,
                                       !.present = walk.present, !.disordered = walk.disordered]
                   ELSE [walk EXCEPT !.page = @ + 1, !.asked = {}, !.rows = {}, !.seen = seen]
  /\ UNCHANGED <<users, writes, pc, req, now>>

WalkAgain ==
  /\ walk.place = "end"
  /\ walk' = NoWalk
  /\ UNCHANGED <<users, writes, pc, req, now>>

-----------------------------------------------------------------------------
Serve(r) == CheckEmail(r) \/ CheckUsername(r) \/ Hash(r) \/ Insert(r) \/ Commit(r)

Next ==
  \/ \E r \in Requests :
       \/ ArriveInvalid(r)
       \/ \E email \in Spelling, username \in Usernames : Arrive(r, email, username)
       \/ Serve(r) \/ Fault(r) \/ Finish(r)
  \/ Tick \/ WalkStart \/ FindMany \/ Count \/ NextPage \/ WalkAgain

Spec == Init /\ [][Next]_vars

-----------------------------------------------------------------------------
(* Properties *)

\* Two registrations that both found an address and a name free do not both get
\* them, and another spelling of an address is no other address.
OneAccountPerMailbox ==
  \A row, other \in users :
    row.email.mailbox = other.email.mailbox \/ row.username = other.username => row = other

\* What the client is told is what the table holds: 201 means that the account
\* exists under the id of the answer, 409 that somebody else has the address or
\* the name, and after both the client's own retry would be refused.
AnswersTrue ==
  \A r \in Requests :
    /\ req[r].code = 201 =>
         \E row \in users : row.id = req[r].id /\ row.email = req[r].email
    /\ req[r].code = 409 =>
         /\ req[r].id \notin Ids
         /\ \E row \in users : row.email = req[r].email \/ row.username = req[r].username

\* An admin who walks through the pages sees every user who was there at the
\* start, although page and total are two queries and others register meanwhile,
\* unless a row was committed that does not come last in the order of the list.
WalkMissesNobody ==
  walk.place = "end" /\ ~walk.disordered =>
    (walk.present \subseteq walk.seen
       \/ \E row, other \in users : row # other /\ row.createdAt = other.createdAt)
=============================================================================
