----------------------- MODULE SessionsRotationProofs -----------------------
(***************************************************************************)
(* Rotation, revocation and responses of Sessions, for any number of       *)
(* users, tokens and requests.  The invariant says what an open            *)
(* transaction has written, which is what Commit makes visible in one      *)
(* step; it is built in layers, each using those before it.  Only the last *)
(* layer, the refinement of SessionRegister, assumes SingleFlight.         *)
(***************************************************************************)
EXTENDS SessionsProofs

-----------------------------------------------------------------------------
(* Layer 1: an id that is generated stays the request's own until Commit   *)

Clean == {"idle", "loginSave", "revokeFamily", "readUser", "saveRotated", "logoutSave", "ok", "failed"}

\* The places after Commit, which also is where a rollback leads.
Over == {"ok", "failed"}

FreshInv ==
  /\ \A r \in Requests : pc[r] \notin Over => req[r].fresh \notin Stored
  /\ \A q, r \in Requests : q # r /\ req[r].fresh # NoToken => req[q].fresh # req[r].fresh
  /\ \A r \in Requests : DOMAIN writes[r] \subseteq Stored \cup {req[r].fresh}
  /\ \A r \in Requests : pc[r] \in Clean => DOMAIN writes[r] = {}

\* The null id is no row.
LEMMA NoTokenIsNotStored == TypeOK => NoToken \notin Stored
BY NoTokenAssumption DEF TypeOK, IsTable, Stored

\* A first read changes neither table nor transactions, and generates no id.
LEMMA FreshArrive ==
  ASSUME TypeInv, FreshInv, NEW r \in Requests, pc[r] = "idle", NEW new, new.fresh = NoToken,
         NEW place, place # "ok", req' = [req EXCEPT ![r] = new], pc' = [pc EXCEPT ![r] = place],
         UNCHANGED <<tokens, writes>>
  PROVE  FreshInv'
<1>1. DOMAIN writes[r] = {}
  BY DEF FreshInv, Clean
<1>2. \A q \in Requests : req'[q] = (IF q = r THEN new ELSE req[q]) /\ pc'[q] = (IF q = r THEN place ELSE pc[q])
  BY DEF TypeInv, TypeOK
<1>3. NoToken \notin Stored /\ Stored' = Stored
  BY NoTokenIsNotStored DEF TypeInv, Stored
<1> QED BY <1>1, <1>2, <1>3 DEF FreshInv, Clean

\* The save of a new token takes an id that nobody has.
LEMMA FreshSave ==
  ASSUME TypeInv, FreshInv, NEW r \in Requests, pc[r] \in {"loginSave", "saveRotated"},
         NEW t \in Unused, NEW row \in Row, Write(r, [s \in {t} |-> row]),
         req' = [req EXCEPT ![r].fresh = t], NEW place \in {"commit", "saveStored"},
         pc' = [pc EXCEPT ![r] = place], UNCHANGED tokens
  PROVE  /\ FreshInv'
         /\ writes'[r] = [s \in {t} |-> row]
         /\ \A q \in Requests \ {r} : writes'[q] = writes[q]
<1>1. DOMAIN writes[r] = {}
  BY DEF FreshInv, Clean
<1>2. t \in TokenIds /\ t \notin Stored /\ \A q \in Requests : req[q].fresh # t
  BY DEF Unused
<1>3. IsTable([s \in {t} |-> row])
  BY <1>2 DEF IsTable
<1>4. /\ writes'[r] = Written([s \in {t} |-> row], writes[r])
      /\ \A q \in Requests \ {r} : writes'[q] = writes[q]
  BY <1>3, WriteIsTyped DEF TypeInv, TypeOK
<1>5. writes'[r] = [s \in {t} |-> row]
  BY <1>1, <1>4 DEF Written
<1>6. \A q \in Requests : /\ req'[q].fresh = (IF q = r THEN t ELSE req[q].fresh)
                          /\ pc'[q] = (IF q = r THEN place ELSE pc[q])
  BY DEF TypeInv, TypeOK, Request
<1>7. Stored' = Stored
  BY DEF Stored
<1>8. FreshInv'
  <2>1. \A q \in Requests : req'[q].fresh \notin Stored' \/ pc'[q] \in Over
    BY <1>2, <1>6, <1>7 DEF FreshInv, Over
  <2>2. \A p, q \in Requests : p # q /\ req'[q].fresh # NoToken => req'[p].fresh # req'[q].fresh
    BY <1>2, <1>6 DEF FreshInv
  <2>3. \A q \in Requests : DOMAIN writes'[q] \subseteq Stored' \cup {req'[q].fresh}
    BY <1>4, <1>5, <1>6, <1>7 DEF FreshInv
  <2>4. \A q \in Requests : pc'[q] \in Clean => DOMAIN writes'[q] = {}
    BY <1>4, <1>6 DEF FreshInv, Clean
  <2> QED BY <2>1, <2>2, <2>3, <2>4 DEF FreshInv
<1> QED BY <1>4, <1>5, <1>8

\* An update of stored rows adds no id.
LEMMA FreshUpdate ==
  ASSUME TypeInv, FreshInv, NEW r \in Requests, NEW rows, IsTable(rows),
         DOMAIN rows \subseteq Stored, Write(r, rows), pc[r] \notin Over,
         NEW place \in {"commit", "throw"}, pc' = [pc EXCEPT ![r] = place], UNCHANGED tokens,
         \A q \in Requests : req'[q].fresh = req[q].fresh
  PROVE  /\ FreshInv'
         /\ writes'[r] = Written(rows, writes[r])
         /\ \A q \in Requests \ {r} : writes'[q] = writes[q]
<1>1. /\ writes'[r] = Written(rows, writes[r])
      /\ \A q \in Requests \ {r} : writes'[q] = writes[q]
  BY WriteIsTyped DEF TypeInv, TypeOK
<1>2. DOMAIN writes'[r] = DOMAIN rows \cup DOMAIN writes[r]
  BY <1>1 DEF Written
<1>3. \A q \in Requests : pc'[q] = (IF q = r THEN place ELSE pc[q])
  BY DEF TypeInv, TypeOK
<1>4. Stored' = Stored
  BY DEF Stored
<1> QED BY <1>1, <1>2, <1>3, <1>4 DEF FreshInv, Clean

\* save() of a stored token writes one row: a new revokedAt and link, and the
\* owner and the origin it has.
LEMMA UpdateRow ==
  ASSUME TypeInv, NEW r \in Requests, req[r].presented \in Stored,
         NEW revoked \in BOOLEAN, NEW link \in TokenIds \cup {NoToken}, Update(r, revoked, link)
  PROVE  LET rows == [s \in {req[r].presented} |->
                        [tokens[req[r].presented] EXCEPT !.revoked = revoked, !.replacedBy = link]]
         IN  IsTable(rows) /\ DOMAIN rows \subseteq Stored /\ Write(r, rows)
<1>1. [tokens[req[r].presented] EXCEPT !.revoked = revoked, !.replacedBy = link] \in Row
  BY StoredRowIsTyped DEF TypeInv, TypeOK, Row
<1>2. req[r].presented \in TokenIds
  BY StoredRowIsTyped DEF TypeInv, TypeOK
<1> QED BY <1>1, <1>2 DEF IsTable, Update

\* Commit makes the rows of one transaction visible, and no other's.
LEMMA CommitEffect ==
  ASSUME TypeInv, FreshInv, NEW r \in Requests, Commit(r)
  PROVE  /\ FreshInv'
         /\ Stored' = Stored \cup DOMAIN writes[r]
         /\ \A t \in Stored' : tokens'[t] = (IF t \in DOMAIN writes[r] THEN writes[r][t] ELSE tokens[t])
         /\ \A q \in Requests \ {r} : writes'[q] = writes[q] /\ pc'[q] = pc[q]
         /\ pc'[r] \in Over /\ writes'[r] = NoRows /\ req' = req
         /\ \A q \in Requests \ {r} : \A t \in DOMAIN writes[q] : t \in Stored' => t \in Stored
<1> PICK outcome \in Over : pc' = [pc EXCEPT ![r] = outcome]
  BY DEF Commit, Goto, Over
<1>1. /\ tokens' = Written(writes[r], tokens) /\ req' = req
      /\ writes' = [writes EXCEPT ![r] = NoRows]
  BY DEF Commit
<1>2. /\ Stored' = Stored \cup DOMAIN writes[r]
      /\ \A t \in Stored' : tokens'[t] = (IF t \in DOMAIN writes[r] THEN writes[r][t] ELSE tokens[t])
  BY <1>1 DEF Written, Stored
<1>3. \A q \in Requests : /\ writes'[q] = (IF q = r THEN NoRows ELSE writes[q])
                          /\ pc'[q] = (IF q = r THEN outcome ELSE pc[q])
  BY <1>1 DEF TypeInv, TypeOK
<1>4. \A q \in Requests : DOMAIN writes[q] \subseteq TokenIds
  BY DEF TypeInv, TypeOK, IsTable
<1>5. NoToken \notin Stored'
  BY <1>2, <1>4, NoTokenIsNotStored, NoTokenAssumption DEF TypeInv
<1>6. \A q \in Requests \ {r} : req[q].fresh \in Stored' => req[q].fresh \in Stored
  BY <1>2, <1>5 DEF FreshInv
<1>7. FreshInv'
  <2>1. \A q \in Requests : pc'[q] \notin Over => req'[q].fresh \notin Stored'
    BY <1>1, <1>3, <1>6 DEF FreshInv
  <2>2. \A q \in Requests : DOMAIN writes'[q] \subseteq Stored' \cup {req'[q].fresh}
    BY <1>1, <1>2, <1>3, NoRowsIsTable DEF FreshInv
  <2>3. \A q \in Requests : pc'[q] \in Clean => DOMAIN writes'[q] = {}
    BY <1>3, NoRowsIsTable DEF FreshInv
  <2>4. \A p, q \in Requests : p # q /\ req'[q].fresh # NoToken => req'[p].fresh # req'[q].fresh
    BY <1>1 DEF FreshInv
  <2> QED BY <2>1, <2>2, <2>3, <2>4 DEF FreshInv
<1>8. \A q \in Requests \ {r} : \A t \in DOMAIN writes[q] : t \in Stored' => t \in Stored
  BY <1>2, <1>4, <1>6, NoTokenAssumption DEF FreshInv
<1> QED BY <1>1, <1>2, <1>3, <1>7, <1>8

\* Nothing is stored, generated or written at first.
LEMMA FreshInvInit == Init => FreshInv
BY DEF Init, FreshInv, NoRequest, Stored, NoRows

\* Every step leaves the generated ids to their requests.
LEMMA FreshInvStep == TypeInv /\ FreshInv /\ [Next]_vars => FreshInv'
<1> SUFFICES ASSUME TypeInv, FreshInv, [Next]_vars PROVE FreshInv'
  OBVIOUS
<1>1. CASE UNCHANGED vars
  BY <1>1 DEF vars, FreshInv, Stored
<1>2. ASSUME NEW r \in Requests, NEW u \in Users, NEW valid \in BOOLEAN, LoginReadUser(r, u, valid)
      PROVE  FreshInv'
  <2>1. PICK new, place : /\ new.fresh = NoToken /\ place # "ok"
                          /\ req' = [req EXCEPT ![r] = new] /\ pc' = [pc EXCEPT ![r] = place]
    BY <1>2 DEF LoginReadUser, Goto, NoRequest
  <2> QED BY <1>2, <2>1, FreshArrive DEF LoginReadUser
<1>3. ASSUME NEW r \in Requests, LoginSave(r)
      PROVE  FreshInv'
  <2> DEFINE row == NewToken(req[r].user, NoToken)
  <2>1. row \in Row
    BY <1>3 DEF LoginSave, TypeInv, Ready, Row, NewToken
  <2>2. PICK t \in Unused : req' = [req EXCEPT ![r].fresh = t] /\ Write(r, [s \in {t} |-> row])
    BY <1>3 DEF LoginSave
  <2> QED BY <1>3, <2>1, <2>2, FreshSave DEF LoginSave, Goto
<1>4. ASSUME NEW r \in Requests, NEW t \in Stored \cup {NoToken}, RefreshFind(r, t)
      PROVE  FreshInv'
  <2>1. PICK new, place : /\ new.fresh = NoToken /\ place # "ok"
                          /\ req' = [req EXCEPT ![r] = new] /\ pc' = [pc EXCEPT ![r] = place]
    BY <1>4 DEF RefreshFind, Goto, NoRequest
  <2> QED BY <1>4, <2>1, FreshArrive DEF RefreshFind
<1>5. ASSUME NEW r \in Requests, RefreshRevokeFamily(r)
      PROVE  FreshInv'
  <2> DEFINE rows == [t \in Family(req[r].user) |-> [tokens[t] EXCEPT !.revoked = TRUE]]
  <2>1. IsTable(rows) /\ DOMAIN rows \subseteq Stored
    <3>1. \A t \in Family(req[r].user) : t \in TokenIds /\ [tokens[t] EXCEPT !.revoked = TRUE] \in Row
      BY StoredRowIsTyped DEF Family, TypeInv, TypeOK, Row
    <3> QED BY <3>1 DEF IsTable, Family
  <2> QED BY <1>5, <2>1, FreshUpdate DEF RefreshRevokeFamily, Goto, Over
<1>6. ASSUME NEW r \in Requests, RefreshReadUser(r)
      PROVE  FreshInv'
  BY <1>6 DEF RefreshReadUser, Goto, FreshInv, Clean, TypeInv, TypeOK, Stored, Over
<1>7. ASSUME NEW r \in Requests, RefreshSaveRotated(r)
      PROVE  FreshInv'
  <2> DEFINE row == NewToken(req[r].user, req[r].presented)
  <2>1. row \in Row
    BY <1>7 DEF RefreshSaveRotated, TypeInv, TypeOK, Ready, Row, IsTable, Stored, NewToken
  <2>2. PICK t \in Unused : req' = [req EXCEPT ![r].fresh = t] /\ Write(r, [s \in {t} |-> row])
    BY <1>7 DEF RefreshSaveRotated
  <2> QED BY <1>7, <2>1, <2>2, FreshSave DEF RefreshSaveRotated, Goto
<1>8. ASSUME NEW r \in Requests, RefreshSaveStored(r)
      PROVE  FreshInv'
  <2>1. /\ req[r].presented \in Stored /\ req[r].fresh \in TokenIds \cup {NoToken}
        /\ \A q \in Requests : req'[q].fresh = req[q].fresh
    BY <1>8 DEF RefreshSaveStored, TypeInv, TypeOK, Ready, Request
  <2> QED BY <1>8, <2>1, UpdateRow, FreshUpdate DEF RefreshSaveStored, Goto, Over
<1>9. ASSUME NEW r \in Requests, NEW t \in Stored \cup {NoToken}, LogoutFind(r, t)
      PROVE  FreshInv'
  <2>1. PICK new, place : /\ new.fresh = NoToken /\ place # "ok"
                          /\ req' = [req EXCEPT ![r] = new] /\ pc' = [pc EXCEPT ![r] = place]
    BY <1>9 DEF LogoutFind, Goto, NoRequest
  <2> QED BY <1>9, <2>1, FreshArrive DEF LogoutFind
<1>10. ASSUME NEW r \in Requests, LogoutSave(r)
       PROVE  FreshInv'
  <2>1. /\ req[r].presented \in Stored
        /\ (IF req[r].revoked THEN req[r].link ELSE NoToken) \in TokenIds \cup {NoToken}
    BY <1>10 DEF LogoutSave, TypeInv, TypeOK, Ready, Request
  <2> QED BY <1>10, <2>1, UpdateRow, FreshUpdate DEF LogoutSave, Goto, Over
<1>11. ASSUME NEW r \in Requests, Commit(r)
       PROVE  FreshInv'
  BY <1>11, CommitEffect
<1>12. ASSUME NEW r \in Requests, Rollback(r), pc[r] \notin Over
       PROVE  FreshInv'
  BY <1>12, NoRowsIsTable DEF Rollback, Goto, FreshInv, Clean, Over, TypeInv, TypeOK, Stored
<1>13. ASSUME NEW r \in Requests, Finish(r)
       PROVE  FreshInv'
  BY <1>13, NoTokenIsNotStored DEF Finish, Goto, FreshInv, Clean, TypeInv, TypeOK, Stored, NoRequest
<1>14. ASSUME NEW t \in TokenIds, Expire(t)
       PROVE  FreshInv'
  BY <1>14 DEF Expire, FreshInv, Stored
<1>15. ASSUME NEW u \in Users, Suspend(u)
       PROVE  FreshInv'
  BY <1>15 DEF Suspend, FreshInv, Stored
<1> QED
  BY <1>1, <1>2, <1>3, <1>4, <1>5, <1>6, <1>7, <1>8, <1>9, <1>10, <1>11, <1>12, <1>13, <1>14, <1>15
     DEF Next, Arrive, Serve, Throw, Fault, InTransaction, Over

-----------------------------------------------------------------------------
(* Layer 2: what an open transaction has written and what a request holds  *)

\* What the row of s will be when r commits.
RowAfter(r, s) == IF s \in DOMAIN writes[r] THEN writes[r][s] ELSE tokens[s]

\* An update that waits for Commit revokes, and keeps the owner and the origin.
UpdateRevokes(r) ==
  \A t \in DOMAIN writes[r] \cap Stored :
    /\ writes[r][t].owner = tokens[t].owner
    /\ writes[r][t].origin = tokens[t].origin
    /\ writes[r][t].revoked

\* A link that waits for Commit leads to the token issued for this one.
LinkWillHold(r) ==
  \A t \in DOMAIN writes[r] : writes[r][t].replacedBy # NoToken =>
    LET s == writes[r][t].replacedBy
    IN  /\ writes[r][t].revoked
        /\ s \in Stored \cup DOMAIN writes[r]
        /\ RowAfter(r, s).owner = writes[r][t].owner
        /\ RowAfter(r, s).origin = t

NewRow(r) == [s \in {req[r].fresh} |->
                NewToken(req[r].user, req[r].presented)]

RowsInv ==
  \A r \in Requests :
    /\ req[r].presented \in Stored \cup {NoToken}
    /\ req[r].presented \in Stored => req[r].user = tokens[req[r].presented].owner
    /\ pc[r] = "logoutSave" /\ req[r].link # NoToken =>
         /\ req[r].revoked
         /\ req[r].link \in Stored
         /\ tokens[req[r].link].owner = req[r].user
         /\ tokens[req[r].link].origin = req[r].presented
    /\ pc[r] = "saveStored" => writes[r] = NewRow(r)
    /\ pc[r] = "commit" => UpdateRevokes(r) /\ LinkWillHold(r)

RotationInv == TypeInv /\ FreshInv /\ RowsInv /\ RotationLinked

\* The whole invariant holds at first: there is no row and no request.
LEMMA RotationInvInit == Init => RotationInv
BY TypeInvInit, FreshInvInit DEF Init, RotationInv, RowsInv, RotationLinked, NoRequest, Stored, NoRows

\* The steps of r that leave the table alone disturb only what RowsInv says of r.
LEMMA RowsOfOthers ==
  ASSUME RowsInv, NEW r \in Requests, UNCHANGED tokens,
         \A q \in Requests \ {r} : pc'[q] = pc[q] /\ req'[q] = req[q] /\ writes'[q] = writes[q],
         req'[r].presented \in Stored \cup {NoToken},
         req'[r].presented \in Stored => req'[r].user = tokens[req'[r].presented].owner,
         pc'[r] = "logoutSave" /\ req'[r].link # NoToken =>
           /\ req'[r].revoked
           /\ req'[r].link \in Stored
           /\ tokens[req'[r].link].owner = req'[r].user
           /\ tokens[req'[r].link].origin = req'[r].presented,
         pc'[r] = "saveStored" => writes'[r] = NewRow(r)',
         pc'[r] = "commit" => UpdateRevokes(r)' /\ LinkWillHold(r)'
  PROVE  RowsInv'
<1>1. Stored' = Stored
  BY DEF Stored
<1>2. ASSUME NEW q \in Requests \ {r}
      PROVE  /\ NewRow(q)' = NewRow(q)
             /\ UpdateRevokes(q) => UpdateRevokes(q)'
             /\ LinkWillHold(q) => LinkWillHold(q)'
  <2>1. writes'[q] = writes[q] /\ req'[q] = req[q] /\ tokens' = tokens
    BY <1>2
  <2>2. NewRow(q)' = NewRow(q)
    BY <2>1 DEF NewRow
  <2>3. UpdateRevokes(q) => UpdateRevokes(q)'
    BY <1>1, <2>1 DEF UpdateRevokes
  <2>4. \A s : RowAfter(q, s)' = RowAfter(q, s)
    BY <2>1 DEF RowAfter
  <2>5. LinkWillHold(q) => LinkWillHold(q)'
    BY <1>1, <2>1, <2>4 DEF LinkWillHold
  <2> QED BY <2>2, <2>3, <2>5
<1> QED BY <1>1, <1>2 DEF RowsInv

\* Commit keeps what is said of the other requests, and a stored token keeps
\* its owner and its origin.
LEMMA CommitKeepsRows ==
  ASSUME RotationInv, NEW r \in Requests, Commit(r)
  PROVE  /\ \A t \in Stored : /\ t \in Stored'
                             /\ tokens'[t].owner = tokens[t].owner
                             /\ tokens'[t].origin = tokens[t].origin
         /\ RowsInv'
         /\ RotationLinked'
<1> USE DEF RotationInv
<1>1. pc[r] = "commit" /\ UpdateRevokes(r) /\ LinkWillHold(r)
  BY DEF Commit, RowsInv
<1>2. \A t \in Stored : /\ t \in Stored'
                       /\ tokens'[t].owner = tokens[t].owner
                       /\ tokens'[t].origin = tokens[t].origin
  BY <1>1, CommitEffect DEF UpdateRevokes
<1>3. \A s \in Stored' : tokens'[s] = RowAfter(r, s)
  BY CommitEffect DEF RowAfter
<1>4. RotationLinked'
  <2> SUFFICES ASSUME NEW t \in Stored', tokens'[t].replacedBy # NoToken
               PROVE  /\ tokens'[t].revoked
                      /\ tokens'[t].replacedBy \in Stored'
                      /\ tokens'[tokens'[t].replacedBy].owner = tokens'[t].owner
                      /\ tokens'[tokens'[t].replacedBy].origin = t
    BY DEF RotationLinked
  <2>1. CASE t \in DOMAIN writes[r]
    BY <1>1, <1>3, <2>1, CommitEffect DEF LinkWillHold, RowAfter
  <2>2. CASE t \notin DOMAIN writes[r]
    <3>1. t \in Stored /\ tokens'[t] = tokens[t]
      BY <2>2, CommitEffect
    <3> QED BY <1>2, <3>1 DEF RotationLinked
  <2> QED BY <2>1, <2>2
<1>5. RowsInv'
  <2> SUFFICES ASSUME NEW q \in Requests
               PROVE  /\ req'[q].presented \in Stored' \cup {NoToken}
                      /\ req'[q].presented \in Stored' => req'[q].user = tokens'[req'[q].presented].owner
                      /\ pc'[q] = "logoutSave" /\ req'[q].link # NoToken =>
                           /\ req'[q].revoked
                           /\ req'[q].link \in Stored'
                           /\ tokens'[req'[q].link].owner = req'[q].user
                           /\ tokens'[req'[q].link].origin = req'[q].presented
                      /\ pc'[q] = "saveStored" => writes'[q] = NewRow(q)'
                      /\ pc'[q] = "commit" => UpdateRevokes(q)' /\ LinkWillHold(q)'
    BY DEF RowsInv
  <2>1. req' = req
    BY CommitEffect
  <2>2. NoToken \notin Stored'
    BY CommitEffect, NoTokenIsNotStored, NoTokenAssumption DEF TypeInv, TypeOK, IsTable
  <2>3. /\ req'[q].presented \in Stored' \cup {NoToken}
        /\ req'[q].presented \in Stored' => req'[q].user = tokens'[req'[q].presented].owner
    BY <1>2, <2>1, <2>2 DEF RowsInv
  <2>4. CASE q = r
    BY <2>3, <2>4, CommitEffect DEF Over
  <2>5. CASE q # r
    <3>1. pc'[q] = pc[q] /\ writes'[q] = writes[q]
      BY <2>5, CommitEffect
    <3>2. pc[q] = "saveStored" => writes'[q] = NewRow(q)'
      BY <2>1, <3>1 DEF RowsInv, NewRow
    <3>3. pc[q] = "commit" => UpdateRevokes(q)'
      BY <1>2, <2>5, <3>1, CommitEffect DEF RowsInv, UpdateRevokes
    <3>4. ASSUME pc[q] = "commit" PROVE LinkWillHold(q)'
      <4> SUFFICES ASSUME NEW t \in DOMAIN writes[q], writes[q][t].replacedBy # NoToken,
                          NEW s, s = writes[q][t].replacedBy
                   PROVE  /\ writes[q][t].revoked
                          /\ s \in Stored' \cup DOMAIN writes[q]
                          /\ RowAfter(q, s)'.owner = writes[q][t].owner
                          /\ RowAfter(q, s)'.origin = t
        BY <3>1 DEF LinkWillHold
      <4>1. /\ writes[q][t].revoked
            /\ s \in Stored \cup DOMAIN writes[q]
            /\ RowAfter(q, s).owner = writes[q][t].owner
            /\ RowAfter(q, s).origin = t
        BY <3>4 DEF RowsInv, LinkWillHold
      <4> QED BY <1>2, <3>1, <4>1 DEF RowAfter
    <3>5. pc[q] = "logoutSave" /\ req[q].link # NoToken =>
            /\ req[q].revoked
            /\ req[q].link \in Stored'
            /\ tokens'[req[q].link].owner = req[q].user
            /\ tokens'[req[q].link].origin = req[q].presented
      BY <1>2 DEF RowsInv
    <3> QED BY <2>1, <2>3, <3>1, <3>2, <3>3, <3>4, <3>5
  <2> QED BY <2>4, <2>5
<1> QED BY <1>2, <1>4, <1>5

\* RotationLinked is about the table only.
LEMMA RotationKept ==
  ASSUME RotationLinked, UNCHANGED tokens
  PROVE  RotationLinked'
BY DEF RotationLinked, Stored

\* The two saves of a new token: LoginSave leads to Commit, RefreshSaveRotated
\* to the save of the presented token.
LEMMA RowsSave ==
  ASSUME RotationInv, NEW r \in Requests, pc[r] \in {"loginSave", "saveRotated"},
         NEW origin \in TokenIds \cup {NoToken}, NEW t \in Unused, req[r].user \in Users,
         Write(r, [s \in {t} |-> NewToken(req[r].user, origin)]),
         req' = [req EXCEPT ![r].fresh = t], UNCHANGED tokens,
         NEW place, pc' = [pc EXCEPT ![r] = place],
         \/ place = "commit"
         \/ place = "saveStored" /\ origin = req[r].presented
  PROVE  RowsInv'
<1> DEFINE row == NewToken(req[r].user, origin)
<1> USE DEF RotationInv
<1>1. row \in Row
  BY DEF Row, NewToken
<1>2. /\ writes'[r] = [s \in {t} |-> row]
      /\ \A q \in Requests \ {r} : writes'[q] = writes[q]
  <2>1. DOMAIN writes[r] = {}
    BY DEF FreshInv, Clean
  <2>2. IsTable([s \in {t} |-> row])
    BY <1>1 DEF IsTable, Unused
  <2>3. /\ writes'[r] = Written([s \in {t} |-> row], writes[r])
        /\ \A q \in Requests \ {r} : writes'[q] = writes[q]
    BY <2>2, WriteIsTyped DEF TypeInv, TypeOK
  <2> QED BY <2>1, <2>3 DEF Written
<1>3. /\ \A q \in Requests \ {r} : req'[q] = req[q] /\ pc'[q] = pc[q]
      /\ req'[r] = [req[r] EXCEPT !.fresh = t] /\ pc'[r] = place
  BY DEF TypeInv, TypeOK
<1>4. /\ req'[r].presented = req[r].presented /\ req'[r].user = req[r].user
      /\ req'[r].fresh = t
  BY <1>3 DEF TypeInv, TypeOK, Request
<1>5. t \notin Stored'
  BY DEF Unused, Stored
<1>6. UpdateRevokes(r)' /\ LinkWillHold(r)'
  BY <1>2, <1>5 DEF UpdateRevokes, LinkWillHold, NewToken
<1>7. pc'[r] = "saveStored" => writes'[r] = NewRow(r)'
  BY <1>2, <1>3, <1>4 DEF NewRow
<1>8. /\ req'[r].presented \in Stored \cup {NoToken}
      /\ req'[r].presented \in Stored => req'[r].user = tokens[req'[r].presented].owner
      /\ pc'[r] # "logoutSave"
  BY <1>3, <1>4 DEF RowsInv
<1> QED BY <1>2, <1>3, <1>6, <1>7, <1>8, RowsOfOthers

\* The two saves of the presented token: what is then written is revoked, and
\* its link leads to a row issued for it.
LEMMA RowsUpdate ==
  ASSUME RotationInv, NEW r \in Requests, req[r].presented \in Stored,
         NEW link \in TokenIds \cup {NoToken}, Update(r, TRUE, link),
         DOMAIN writes[r] \subseteq {req[r].fresh}, req[r].fresh \notin Stored,
         \A s \in DOMAIN writes[r] : writes[r][s].replacedBy = NoToken,
         link # NoToken =>
           /\ link \in Stored \cup DOMAIN writes[r]
           /\ RowAfter(r, link).owner = req[r].user
           /\ RowAfter(r, link).origin = req[r].presented,
         UNCHANGED tokens, pc' = [pc EXCEPT ![r] = "commit"],
         req'[r].presented = req[r].presented, req'[r].user = req[r].user,
         \A q \in Requests \ {r} : req'[q] = req[q]
  PROVE  RowsInv'
<1> USE DEF RotationInv
<1> DEFINE p == req[r].presented
           new == [tokens[p] EXCEPT !.revoked = TRUE, !.replacedBy = link]
           rows == [s \in {p} |-> new]
<1>1. IsTable(rows) /\ Write(r, rows)
  BY UpdateRow
<1>2. /\ writes'[r] = Written(rows, writes[r])
      /\ \A q \in Requests \ {r} : writes'[q] = writes[q]
  BY <1>1, WriteIsTyped DEF TypeInv, TypeOK
<1>3. /\ new.owner = tokens[p].owner /\ new.origin = tokens[p].origin
      /\ new.revoked /\ new.replacedBy = link /\ tokens[p].owner = req[r].user
  BY StoredRowIsTyped DEF TypeInv, TypeOK, Row, RowsInv
<1>4. /\ DOMAIN writes'[r] = {p} \cup DOMAIN writes[r] /\ writes'[r][p] = new
      /\ \A s \in DOMAIN writes[r] \ {p} : writes'[r][s] = writes[r][s]
  BY <1>2 DEF Written
<1> HIDE DEF new
<1>5. UpdateRevokes(r)'
  BY <1>3, <1>4 DEF UpdateRevokes, Stored
<1>6. LinkWillHold(r)'
  <2> SUFFICES ASSUME NEW t \in DOMAIN writes'[r], writes'[r][t].replacedBy # NoToken,
                      NEW s, s = writes'[r][t].replacedBy
               PROVE  /\ writes'[r][t].revoked
                      /\ s \in Stored' \cup DOMAIN writes'[r]
                      /\ RowAfter(r, s)'.owner = writes'[r][t].owner
                      /\ RowAfter(r, s)'.origin = t
    BY DEF LinkWillHold
  <2>1. t = p /\ s = link
    BY <1>3, <1>4
  <2>2. Stored' = Stored /\ tokens' = tokens
    BY DEF Stored
  <2>3. s \in Stored' \cup DOMAIN writes'[r]
    BY <1>4, <2>1, <2>2
  <2>4. RowAfter(r, s)' = IF s = p THEN new ELSE RowAfter(r, s)
    BY <1>4, <2>2 DEF RowAfter
  <2>5. p \notin DOMAIN writes[r]
    OBVIOUS
  <2>6. s = p => RowAfter(r, s) = tokens[p]
    BY <2>5 DEF RowAfter
  <2>7. RowAfter(r, s)'.owner = req[r].user /\ RowAfter(r, s)'.origin = p
    BY <1>3, <2>1, <2>4, <2>6
  <2> QED BY <1>3, <1>4, <2>1, <2>3, <2>7
<1>7. \A q \in Requests : pc'[q] = (IF q = r THEN "commit" ELSE pc[q])
  BY DEF TypeInv, TypeOK
<1> QED BY <1>2, <1>3, <1>5, <1>6, <1>7, RowsOfOthers

\* One step of the system keeps the whole invariant.
LEMMA RotationInvStep == RotationInv /\ [Next]_vars => RotationInv'
<1> SUFFICES ASSUME RotationInv, [Next]_vars PROVE RotationInv'
  OBVIOUS
<1> USE DEF RotationInv
<1>0. TypeInv' /\ FreshInv'
  BY TypeInvStep, FreshInvStep
<1>a. ASSUME UNCHANGED tokens, RowsInv' PROVE RotationInv'
  BY <1>0, <1>a, RotationKept
<1>b. NoToken \notin Stored
  BY NoTokenIsNotStored DEF TypeInv
<1>1. CASE UNCHANGED vars
  <2>1. \A q \in Requests : /\ NewRow(q)' = NewRow(q)
                            /\ UpdateRevokes(q)' = UpdateRevokes(q)
                            /\ LinkWillHold(q)' = LinkWillHold(q)
    BY <1>1 DEF vars, NewRow, UpdateRevokes, LinkWillHold, RowAfter, Stored
  <2>2. RowsInv'
    BY <1>1, <2>1 DEF vars, RowsInv, Stored
  <2> QED BY <1>1, <1>a, <2>2 DEF vars
\* A first read: nothing is written, so nothing waits for Commit.
<1>2. ASSUME NEW r \in Requests, pc[r] = "idle", NEW new, req' = [req EXCEPT ![r] = new],
             NEW place, pc' = [pc EXCEPT ![r] = place], place # "saveStored",
             UNCHANGED <<tokens, writes>>,
             new.presented \in Stored \cup {NoToken},
             new.presented \in Stored => new.user = tokens[new.presented].owner,
             place = "logoutSave" =>
               /\ new.presented \in Stored /\ new.link = tokens[new.presented].replacedBy
               /\ new.revoked = tokens[new.presented].revoked
      PROVE  RotationInv'
  <2>1. DOMAIN writes'[r] = {}
    BY <1>2 DEF FreshInv, Clean
  <2>2. \A q \in Requests : /\ req'[q] = (IF q = r THEN new ELSE req[q])
                            /\ pc'[q] = (IF q = r THEN place ELSE pc[q])
    BY <1>2 DEF TypeInv, TypeOK
  <2>3. UpdateRevokes(r)' /\ LinkWillHold(r)'
    BY <2>1 DEF UpdateRevokes, LinkWillHold
  <2>4. place = "logoutSave" /\ new.link # NoToken =>
          /\ new.revoked
          /\ new.link \in Stored
          /\ tokens[new.link].owner = new.user
          /\ tokens[new.link].origin = new.presented
    BY <1>2 DEF RotationLinked
  <2>5. RowsInv'
    BY <1>2, <2>2, <2>3, <2>4, RowsOfOthers
  <2> QED BY <1>2, <1>a, <2>5
\* A step of a transaction that writes nothing and goes on, or ends in failure.
<1>3. ASSUME NEW r \in Requests, NEW place, place \notin {"saveStored", "commit", "logoutSave"},
             pc' = [pc EXCEPT ![r] = place], UNCHANGED <<tokens, req>>,
             \A q \in Requests \ {r} : writes'[q] = writes[q]
      PROVE  RotationInv'
  <2>1. \A q \in Requests : pc'[q] = (IF q = r THEN place ELSE pc[q])
    BY <1>3 DEF TypeInv, TypeOK
  <2>2. RowsInv'
    <3>1. /\ req'[r].presented \in Stored \cup {NoToken}
          /\ req'[r].presented \in Stored => req'[r].user = tokens[req'[r].presented].owner
      BY <1>3 DEF RowsInv
    <3> QED BY <1>3, <2>1, <3>1, RowsOfOthers
  <2> QED BY <1>3, <1>a, <2>2
<1>4. ASSUME NEW r \in Requests, NEW u \in Users, NEW valid \in BOOLEAN, LoginReadUser(r, u, valid)
      PROVE  RotationInv'
  <2>1. PICK new, place : /\ new.presented = NoToken /\ place \in {"throw", "loginSave"}
                          /\ req' = [req EXCEPT ![r] = new] /\ pc' = [pc EXCEPT ![r] = place]
    BY <1>4 DEF LoginReadUser, Goto, NoRequest
  <2> QED BY <1>2, <1>4, <1>b, <2>1 DEF LoginReadUser
<1>5. ASSUME NEW r \in Requests, LoginSave(r)
      PROVE  RotationInv'
  <2>1. req[r].user \in Users
    BY <1>5 DEF LoginSave, TypeInv, Ready
  <2>2. PICK t \in Unused :
          /\ req' = [req EXCEPT ![r].fresh = t]
          /\ Write(r, [s \in {t} |-> NewToken(req[r].user, NoToken)])
    BY <1>5 DEF LoginSave
  <2>3. RowsInv'
    BY <1>5, <2>1, <2>2, RowsSave DEF LoginSave, Goto
  <2> QED BY <1>5, <1>a, <2>3 DEF LoginSave
<1>6. ASSUME NEW r \in Requests, NEW t \in Stored \cup {NoToken}, RefreshFind(r, t)
      PROVE  RotationInv'
  <2>1. PICK new, place :
          /\ place \in {"throw", "revokeFamily", "readUser"} /\ new.presented = t
          /\ t \in Stored => new.user = tokens[t].owner
          /\ req' = [req EXCEPT ![r] = new] /\ pc' = [pc EXCEPT ![r] = place]
    BY <1>6 DEF RefreshFind, Goto, NoRequest
  <2> QED BY <1>2, <1>6, <2>1 DEF RefreshFind
<1>7. ASSUME NEW r \in Requests, RefreshRevokeFamily(r)
      PROVE  RotationInv'
  <2>1. \A q \in Requests \ {r} : writes'[q] = writes[q]
    BY <1>7 DEF RefreshRevokeFamily, Write, TypeInv, TypeOK
  <2> QED BY <1>3, <1>7, <2>1 DEF RefreshRevokeFamily, Goto
<1>8. ASSUME NEW r \in Requests, RefreshReadUser(r)
      PROVE  RotationInv'
  <2>1. pc' = [pc EXCEPT ![r] = "throw"] \/ pc' = [pc EXCEPT ![r] = "saveRotated"]
    BY <1>8 DEF RefreshReadUser, Goto
  <2> QED BY <1>3, <1>8, <2>1 DEF RefreshReadUser
<1>9. ASSUME NEW r \in Requests, RefreshSaveRotated(r)
      PROVE  RotationInv'
  <2>1. req[r].user \in Users /\ req[r].presented \in TokenIds
    BY <1>9 DEF RefreshSaveRotated, TypeInv, TypeOK, Ready, IsTable, Stored
  <2>2. PICK t \in Unused :
          /\ req' = [req EXCEPT ![r].fresh = t]
          /\ Write(r, [s \in {t} |-> NewToken(req[r].user, req[r].presented)])
    BY <1>9 DEF RefreshSaveRotated
  <2>3. RowsInv'
    BY <1>9, <2>1, <2>2, RowsSave DEF RefreshSaveRotated, Goto
  <2> QED BY <1>9, <1>a, <2>3 DEF RefreshSaveRotated
<1>10. ASSUME NEW r \in Requests, RefreshSaveStored(r)
       PROVE  RotationInv'
  <2>1. /\ req[r].presented \in Stored /\ req[r].fresh \in TokenIds \cup {NoToken}
        /\ req[r].fresh \notin Stored /\ writes[r] = NewRow(r)
    BY <1>10 DEF RefreshSaveStored, TypeInv, TypeOK, Ready, Request, FreshInv, RowsInv, Over
  <2>2. /\ DOMAIN writes[r] = {req[r].fresh}
        /\ RowAfter(r, req[r].fresh).owner = req[r].user
        /\ RowAfter(r, req[r].fresh).origin = req[r].presented
        /\ \A s \in DOMAIN writes[r] : writes[r][s].replacedBy = NoToken
    BY <2>1 DEF NewRow, NewToken, RowAfter
  <2>3. /\ req'[r].presented = req[r].presented /\ req'[r].user = req[r].user
        /\ \A q \in Requests \ {r} : req'[q] = req[q]
    BY <1>10 DEF RefreshSaveStored, TypeInv, TypeOK, Request
  <2>4. RowsInv'
    BY <1>10, <2>1, <2>2, <2>3, RowsUpdate DEF RefreshSaveStored, Goto
  <2> QED BY <1>10, <1>a, <2>4 DEF RefreshSaveStored
<1>11. ASSUME NEW r \in Requests, NEW t \in Stored \cup {NoToken}, LogoutFind(r, t)
       PROVE  RotationInv'
  <2>1. PICK new, place :
          /\ place \in {"commit", "logoutSave"} /\ new.presented = t
          /\ t \in Stored => new.user = tokens[t].owner
          /\ place = "logoutSave" =>
               /\ t \in Stored /\ new.link = tokens[t].replacedBy
               /\ new.revoked = tokens[t].revoked
          /\ req' = [req EXCEPT ![r] = new] /\ pc' = [pc EXCEPT ![r] = place]
    BY <1>11 DEF LogoutFind, Goto, NoRequest
  <2> QED BY <1>2, <1>11, <2>1 DEF LogoutFind
<1>12. ASSUME NEW r \in Requests, LogoutSave(r)
       PROVE  RotationInv'
  <2> DEFINE link == IF req[r].revoked THEN req[r].link ELSE NoToken
  <2>1. /\ req[r].presented \in Stored /\ link \in TokenIds \cup {NoToken}
        /\ req[r].fresh \notin Stored /\ DOMAIN writes[r] = {}
    BY <1>12 DEF LogoutSave, TypeInv, TypeOK, Ready, Request, FreshInv, Clean, Over
  <2>2. link # NoToken => /\ link \in Stored
                          /\ RowAfter(r, link).owner = req[r].user
                          /\ RowAfter(r, link).origin = req[r].presented
    BY <1>12, <2>1 DEF LogoutSave, RowsInv, RowAfter
  <2>3. Update(r, TRUE, link)
    BY <1>12 DEF LogoutSave
  <2> HIDE DEF link
  <2>4. RowsInv'
    BY <1>12, <2>1, <2>2, <2>3, RowsUpdate DEF LogoutSave, Goto
  <2> QED BY <1>12, <1>a, <2>4 DEF LogoutSave
<1>13. ASSUME NEW r \in Requests, Commit(r)
       PROVE  RotationInv'
  BY <1>0, <1>13, CommitKeepsRows
<1>14. ASSUME NEW r \in Requests, Rollback(r)
       PROVE  RotationInv'
  BY <1>3, <1>14 DEF Rollback, Goto, TypeInv, TypeOK
<1>15. ASSUME NEW r \in Requests, Finish(r)
       PROVE  RotationInv'
  <2>1. \A q \in Requests : /\ req'[q] = (IF q = r THEN NoRequest ELSE req[q])
                            /\ pc'[q] = (IF q = r THEN "idle" ELSE pc[q])
                            /\ writes'[q] = writes[q]
    BY <1>15 DEF Finish, Goto, TypeInv, TypeOK
  <2>2. RowsInv'
    BY <1>15, <1>b, <2>1, RowsOfOthers DEF Finish, NoRequest
  <2> QED BY <1>15, <1>a, <2>2 DEF Finish
<1>16. ASSUME UNCHANGED <<tokens, pc, req, writes>>
       PROVE  RotationInv'
  <2>1. \A q \in Requests : /\ NewRow(q)' = NewRow(q)
                            /\ UpdateRevokes(q)' = UpdateRevokes(q)
                            /\ LinkWillHold(q)' = LinkWillHold(q)
    BY <1>16 DEF NewRow, UpdateRevokes, LinkWillHold, RowAfter, Stored
  <2>2. RowsInv'
    BY <1>16, <2>1 DEF RowsInv, Stored
  <2> QED BY <1>16, <1>a, <2>2
<1>17. ASSUME NEW t \in TokenIds, Expire(t) PROVE RotationInv'
  BY <1>16, <1>17 DEF Expire
<1>18. ASSUME NEW u \in Users, Suspend(u) PROVE RotationInv'
  BY <1>16, <1>18 DEF Suspend
<1> QED
  BY <1>1, <1>4, <1>5, <1>6, <1>7, <1>8, <1>9, <1>10, <1>11, <1>12, <1>13, <1>14, <1>15, <1>17, <1>18
     DEF Next, Arrive, Serve, Throw, Fault

\* What TLC checks on small instances holds for all of them: RotationInv is
\* inductive.
LEMMA RotationInvariant == Spec => []RotationInv
BY RotationInvInit, RotationInvStep, PTL DEF Spec

\* However the saves of several requests interleave, and wherever they fail, a
\* stored link leads to the stored successor that the refresh of this token
\* issued to the same user.
THEOREM RotationIsAtomic == Spec => []RotationLinked
BY RotationInvariant, PTL DEF RotationInv

\* Only Commit changes the table.
LEMMA OnlyCommitWrites ==
  Next => UNCHANGED tokens \/ \E r \in Requests : Commit(r)
BY DEF Next, Arrive, Serve, Throw, Fault, LoginReadUser, LoginSave, RefreshFind, RefreshRevokeFamily,
       RefreshReadUser, RefreshSaveRotated, RefreshSaveStored, LogoutFind, LogoutSave, Rollback,
       Finish, Expire, Suspend

\* No save of a stale token object, by any of any number of requests, brings a
\* revoked token back to life.
THEOREM RevocationIsFinal == Spec => RevocationFinal
<1> DEFINE Kept == \A t \in Stored : /\ t \in Stored'
                                     /\ tokens[t].revoked => tokens'[t].revoked
<1>1. ASSUME RotationInv, Next PROVE Kept
  <2>1. CASE UNCHANGED tokens
    <3>1. \A t \in Stored : t \in Stored' /\ tokens'[t] = tokens[t]
      BY <2>1 DEF Stored
    <3> QED BY <3>1, Zenon
  <2>2. ASSUME NEW r \in Requests, Commit(r) PROVE Kept
    <3>1. TypeInv /\ FreshInv /\ UpdateRevokes(r)
      BY <1>1, <2>2 DEF RotationInv, RowsInv, Commit
    <3>2. \A t \in Stored : t \in Stored'
      BY <2>2, <3>1, CommitEffect
    <3>3. \A t \in Stored : tokens[t].revoked => tokens'[t].revoked
      BY <2>2, <3>1, CommitEffect DEF UpdateRevokes
    <3> QED BY <3>2, <3>3, Zenon
  <2> QED BY <1>1, <2>1, <2>2, OnlyCommitWrites, Zenon
<1>2. RotationInv /\ [Next]_vars => [Kept]_vars
  BY <1>1
<1> QED BY <1>2, RotationInvariant, PTL DEF Spec, RevocationFinal

-----------------------------------------------------------------------------
(* Layer 3: what a response says is what the request has written           *)

Answered(r) == TookEffect(r) /\ (req[r].op = "refresh" => req[r].link = req[r].fresh)

\* The use case is over: its rows wait for Commit.
WillAnswer(r) ==
  /\ req[r].op = "refresh" => req[r].link = req[r].fresh
  /\ req[r].op \in {"login", "refresh"} =>
       req[r].fresh \in DOMAIN writes[r] /\ writes[r][req[r].fresh].owner = req[r].user
  /\ req[r].op \in {"refresh", "logout"} /\ req[r].user # NoUser =>
       req[r].presented \in Stored \cap DOMAIN writes[r]

AnswerInv(r) ==
  /\ pc[r] = "loginSave" => req[r].op = "login"
  /\ pc[r] \in {"revokeFamily", "readUser", "saveRotated", "saveStored"} => req[r].op = "refresh"
  /\ pc[r] = "logoutSave" => req[r].op = "logout"
  /\ pc[r] = "commit" => WillAnswer(r)
  /\ pc[r] = "ok" => Answered(r)
  /\ pc[r] = "failed" /\ req[r].fresh \in Stored => Answered(r)

\* Nobody is ever reactivated while a request runs, so the second look at the
\* user is enough.
SuspendedInv(r) ==
  req[r].wasSuspended =>
    /\ req[r].user \in suspended
    /\ req[r].fresh = NoToken
    /\ pc[r] \notin {"loginSave", "saveRotated", "saveStored", "logoutSave", "commit", "ok"}

ResponseInv == RotationInv /\ \A r \in Requests : AnswerInv(r) /\ SuspendedInv(r)

LEMMA ResponseInvInit == Init => ResponseInv
BY RotationInvInit DEF Init, ResponseInv, AnswerInv, SuspendedInv, NoRequest

\* A step of r that leaves the table alone keeps what is known of the others.
LEMMA AnswersOfOthers ==
  ASSUME ResponseInv, NEW r \in Requests, UNCHANGED tokens, suspended \subseteq suspended',
         \A q \in Requests \ {r} : pc'[q] = pc[q] /\ req'[q] = req[q] /\ writes'[q] = writes[q],
         AnswerInv(r)', SuspendedInv(r)'
  PROVE  \A q \in Requests : AnswerInv(q)' /\ SuspendedInv(q)'
<1> SUFFICES ASSUME NEW q \in Requests \ {r}
             PROVE  AnswerInv(q)' /\ SuspendedInv(q)'
  OBVIOUS
<1>1. /\ pc'[q] = pc[q] /\ req'[q] = req[q] /\ writes'[q] = writes[q] /\ Stored' = Stored
      /\ AnswerInv(q) /\ SuspendedInv(q)
  BY DEF ResponseInv, Stored
<1>2. AnswerInv(q)'
  BY <1>1 DEF AnswerInv, WillAnswer, Answered, TookEffect
<1>3. SuspendedInv(q)'
  BY <1>1 DEF SuspendedInv
<1> QED BY <1>2, <1>3

\* A request that only moves on, to a place where nothing is promised.
LEMMA AnswerMoved ==
  ASSUME ResponseInv, NEW r \in Requests, UNCHANGED <<tokens, suspended, req>>,
         \A q \in Requests \ {r} : writes'[q] = writes[q],
         NEW place, pc' = [pc EXCEPT ![r] = place],
         \/ place = "throw"
         \/ place = "failed" /\ pc[r] \notin Over
         \/ place = "saveRotated" /\ pc[r] = "readUser" /\ ~req[r].wasSuspended
  PROVE  \A q \in Requests : AnswerInv(q)' /\ SuspendedInv(q)'
<1>1. \A q \in Requests : pc'[q] = (IF q = r THEN place ELSE pc[q])
  BY DEF ResponseInv, RotationInv, TypeInv, TypeOK
<1>2. AnswerInv(r)' /\ SuspendedInv(r)'
  BY <1>1 DEF ResponseInv, AnswerInv, SuspendedInv, RotationInv, FreshInv, Stored
<1> QED BY <1>1, <1>2, AnswersOfOthers

\* The first read: nothing is promised yet, and no user who is suspended by
\* then gets beyond the second look.
LEMMA AnswerArrive ==
  ASSUME ResponseInv, NEW r \in Requests, Arrive(r)
  PROVE  \A q \in Requests : AnswerInv(q)' /\ SuspendedInv(q)'
<1>0. pc \in [Requests -> InTransaction \cup {"idle", "ok", "failed"}] /\ req \in [Requests -> Request]
  BY DEF ResponseInv, RotationInv, TypeInv, TypeOK
<1>1. ASSUME NEW new, NEW place, req' = [req EXCEPT ![r] = new], pc' = [pc EXCEPT ![r] = place],
             UNCHANGED <<tokens, suspended, writes>>,
             \/ place = "throw"
             \/ place = "loginSave" /\ new.op = "login"
             \/ place \in {"revokeFamily", "readUser"} /\ new.op = "refresh"
             \/ place = "logoutSave" /\ new.op = "logout"
             \/ place = "commit" /\ new.op = "logout" /\ new.user = NoUser,
             new.fresh = NoToken,
             new.wasSuspended =>
               new.user \in suspended /\ place \in {"throw", "revokeFamily", "readUser"}
      PROVE  \A q \in Requests : AnswerInv(q)' /\ SuspendedInv(q)'
  <2>1. /\ pc'[r] = place /\ req'[r] = new
        /\ \A q \in Requests \ {r} : pc'[q] = pc[q] /\ req'[q] = req[q] /\ writes'[q] = writes[q]
    BY <1>0, <1>1
  <2>2. AnswerInv(r)'
    BY <1>1, <2>1 DEF AnswerInv, WillAnswer
  <2>3. SuspendedInv(r)'
    BY <1>1, <2>1 DEF SuspendedInv
  <2> QED BY <1>1, <2>1, <2>2, <2>3, AnswersOfOthers
<1>2. ASSUME NEW u \in Users, NEW valid \in BOOLEAN, LoginReadUser(r, u, valid)
      PROVE  \A q \in Requests : AnswerInv(q)' /\ SuspendedInv(q)'
  <2> DEFINE flag == u \in suspended
             new == [NoRequest EXCEPT !.op = "login", !.user = u, !.wasSuspended = flag]
  <2>1. req' = [req EXCEPT ![r] = new] /\ UNCHANGED <<tokens, suspended, writes>>
    BY <1>2 DEF LoginReadUser
  <2>2. \/ pc' = [pc EXCEPT ![r] = "throw"]
        \/ pc' = [pc EXCEPT ![r] = "loginSave"] /\ ~flag
    BY <1>2 DEF LoginReadUser, Goto
  <2>3. flag => u \in suspended
    OBVIOUS
  <2> HIDE DEF flag
  <2>4. new.op = "login" /\ new.user = u /\ new.wasSuspended = flag /\ new.fresh = NoToken
    BY DEF NoRequest
  <2> HIDE DEF new
  <2> QED BY <1>1, <2>1, <2>2, <2>3, <2>4
<1>3. ASSUME NEW t \in Stored \cup {NoToken}, RefreshFind(r, t)
      PROVE  \A q \in Requests : AnswerInv(q)' /\ SuspendedInv(q)'
  <2>1. CASE t \notin Stored
    <3> DEFINE new == [NoRequest EXCEPT !.op = "refresh", !.presented = t]
    <3>1. /\ req' = [req EXCEPT ![r] = new] /\ pc' = [pc EXCEPT ![r] = "throw"]
          /\ UNCHANGED <<tokens, suspended, writes>>
      BY <1>3, <2>1 DEF RefreshFind, Goto
    <3>2. ~new.wasSuspended /\ new.fresh = NoToken
      BY DEF NoRequest
    <3> HIDE DEF new
    <3> QED BY <1>1, <3>1, <3>2
  <2>2. CASE t \in Stored
    <3> DEFINE flag == tokens[t].owner \in suspended
               new == [NoRequest EXCEPT !.op = "refresh", !.presented = t, !.user = tokens[t].owner,
                         !.revoked = tokens[t].revoked, !.link = tokens[t].replacedBy,
                         !.wasSuspended = flag]
    <3>1. req' = [req EXCEPT ![r] = new] /\ UNCHANGED <<tokens, suspended, writes>>
      BY <1>3, <2>2 DEF RefreshFind
    <3>2. PICK place \in {"revokeFamily", "throw", "readUser"} : pc' = [pc EXCEPT ![r] = place]
      BY <1>3, <2>2 DEF RefreshFind, Goto
    <3>3. flag => tokens[t].owner \in suspended
      OBVIOUS
    <3> HIDE DEF flag
    <3>4. /\ new.op = "refresh" /\ new.user = tokens[t].owner
          /\ new.wasSuspended = flag /\ new.fresh = NoToken
      BY DEF NoRequest
    <3> HIDE DEF new
    <3> QED BY <1>1, <3>1, <3>2, <3>3, <3>4
  <2> QED BY <2>1, <2>2
<1>4. ASSUME NEW t \in Stored \cup {NoToken}, LogoutFind(r, t)
      PROVE  \A q \in Requests : AnswerInv(q)' /\ SuspendedInv(q)'
  <2>1. CASE t \notin Stored
    <3> DEFINE new == [NoRequest EXCEPT !.op = "logout", !.presented = t]
    <3>1. /\ req' = [req EXCEPT ![r] = new] /\ pc' = [pc EXCEPT ![r] = "commit"]
          /\ UNCHANGED <<tokens, suspended, writes>>
      BY <1>4, <2>1 DEF LogoutFind, Goto
    <3>2. ~new.wasSuspended /\ new.op = "logout" /\ new.user = NoUser /\ new.fresh = NoToken
      BY DEF NoRequest
    <3> HIDE DEF new
    <3> QED BY <1>1, <3>1, <3>2
  <2>2. CASE t \in Stored
    <3> DEFINE new == [NoRequest EXCEPT !.op = "logout", !.presented = t, !.user = tokens[t].owner,
                         !.revoked = tokens[t].revoked, !.link = tokens[t].replacedBy]
    <3>1. /\ req' = [req EXCEPT ![r] = new] /\ pc' = [pc EXCEPT ![r] = "logoutSave"]
          /\ UNCHANGED <<tokens, suspended, writes>>
      BY <1>4, <2>2 DEF LogoutFind, Goto
    <3>2. ~new.wasSuspended /\ new.op = "logout" /\ new.fresh = NoToken
      BY DEF NoRequest
    <3> HIDE DEF new
    <3> QED BY <1>1, <3>1, <3>2
  <2> QED BY <2>1, <2>2
<1> QED BY <1>2, <1>3, <1>4 DEF Arrive

\* The saves: what Commit will make visible is what the response will say.
LEMMA AnswerSave ==
  ASSUME ResponseInv, NEW r \in Requests,
         LoginSave(r) \/ RefreshSaveRotated(r) \/ RefreshSaveStored(r) \/ LogoutSave(r)
  PROVE  \A q \in Requests : AnswerInv(q)' /\ SuspendedInv(q)'
<1>0. /\ pc \in [Requests -> InTransaction \cup {"idle", "ok", "failed"}] /\ req \in [Requests -> Request]
      /\ DOMAIN writes = Requests /\ req[r] \in Request /\ AnswerInv(r) /\ SuspendedInv(r)
      /\ TypeInv /\ FreshInv /\ RowsInv
  BY DEF ResponseInv, RotationInv, TypeInv, TypeOK
<1>1. /\ UNCHANGED <<tokens, suspended>> /\ Stored' = Stored
      /\ \A q \in Requests \ {r} : pc'[q] = pc[q] /\ req'[q] = req[q] /\ writes'[q] = writes[q]
  BY <1>0 DEF LoginSave, RefreshSaveRotated, RefreshSaveStored, LogoutSave, Update, Write, Goto, Stored
<1>2. /\ req'[r].op = req[r].op /\ req'[r].user = req[r].user /\ req'[r].presented = req[r].presented
      /\ req'[r].wasSuspended = req[r].wasSuspended
  <2>1. ASSUME NEW t, req' = [req EXCEPT ![r].fresh = t]
        PROVE  /\ req'[r].op = req[r].op /\ req'[r].user = req[r].user /\ req'[r].presented = req[r].presented
               /\ req'[r].wasSuspended = req[r].wasSuspended
    <3>1. req'[r] = [req[r] EXCEPT !.fresh = t]
      BY <1>0, <2>1
    <3> QED BY <1>0, <3>1, Zenon DEF Request
  <2>2. ASSUME RefreshSaveStored(r)
        PROVE  /\ req'[r].op = req[r].op /\ req'[r].user = req[r].user /\ req'[r].presented = req[r].presented
               /\ req'[r].wasSuspended = req[r].wasSuspended
    <3>1. req'[r] = [req[r] EXCEPT !.revoked = TRUE, !.link = req[r].fresh]
      BY <1>0, <2>2 DEF RefreshSaveStored
    <3> QED BY <1>0, <3>1, Zenon DEF Request
  <2>3. CASE LogoutSave(r)
    BY <2>3 DEF LogoutSave
  <2> QED BY <2>1, <2>2, <2>3 DEF LoginSave, RefreshSaveRotated
<1>3. SuspendedInv(r)'
  BY <1>0, <1>1, <1>2 DEF LoginSave, RefreshSaveRotated, RefreshSaveStored, LogoutSave, SuspendedInv
<1>4. CASE LoginSave(r)
  <2>1. PICK t \in Unused : /\ req' = [req EXCEPT ![r].fresh = t]
                            /\ Write(r, [s \in {t} |-> NewToken(req[r].user, NoToken)])
    BY <1>4 DEF LoginSave
  <2>2. req'[r].fresh = t /\ pc'[r] = "commit" /\ req[r].op = "login"
    BY <1>0, <1>4, <2>1 DEF LoginSave, Goto, AnswerInv, Request
  <2>3. writes'[r] = Written([s \in {t} |-> NewToken(req[r].user, NoToken)], writes[r])
    BY <1>0, <2>1 DEF Write
  <2>4. t \in DOMAIN writes'[r] /\ writes'[r][t].owner = req[r].user
    BY <2>3 DEF Written, NewToken
  <2>5. AnswerInv(r)'
    BY <1>2, <2>2, <2>4 DEF AnswerInv, WillAnswer
  <2> QED BY <1>1, <1>3, <2>5, AnswersOfOthers
<1>5. CASE RefreshSaveRotated(r)
  <2>1. pc'[r] = "saveStored" /\ req[r].op = "refresh"
    BY <1>0, <1>5 DEF RefreshSaveRotated, Goto, AnswerInv
  <2>2. AnswerInv(r)'
    BY <1>2, <2>1 DEF AnswerInv
  <2> QED BY <1>1, <1>3, <2>2, AnswersOfOthers
<1>6. CASE RefreshSaveStored(r)
  <2> DEFINE p == req[r].presented
             row == [tokens[p] EXCEPT !.revoked = TRUE, !.replacedBy = req[r].fresh]
  <2>1. /\ p \in Stored /\ req[r].fresh \notin Stored /\ writes[r] = NewRow(r)
        /\ req[r].op = "refresh"
    BY <1>0, <1>6 DEF RefreshSaveStored, TypeInv, Ready, FreshInv, RowsInv, AnswerInv, Over
  <2>2. writes'[r] = Written([s \in {p} |-> row], writes[r])
    BY <1>0, <1>6 DEF RefreshSaveStored, Update, Write
  <2>3. pc'[r] = "commit" /\ req'[r].fresh = req[r].fresh /\ req'[r].link = req[r].fresh
    BY <1>0, <1>6 DEF RefreshSaveStored, Goto, Request
  <2>4. /\ p \in DOMAIN writes'[r] /\ req[r].fresh \in DOMAIN writes'[r]
        /\ writes'[r][req[r].fresh].owner = req[r].user
    BY <2>1, <2>2 DEF Written, NewRow, NewToken
  <2>5. AnswerInv(r)'
    BY <1>1, <1>2, <2>1, <2>3, <2>4 DEF AnswerInv, WillAnswer
  <2> QED BY <1>1, <1>3, <2>5, AnswersOfOthers
<1>7. CASE LogoutSave(r)
  <2> DEFINE p == req[r].presented
  <2>1. p \in Stored /\ req[r].op = "logout" /\ pc'[r] = "commit"
    BY <1>0, <1>7 DEF LogoutSave, TypeInv, Ready, AnswerInv, Goto
  <2>2. PICK row : writes'[r] = Written([s \in {p} |-> row], writes[r])
    BY <1>0, <1>7 DEF LogoutSave, Update, Write
  <2>3. p \in DOMAIN writes'[r]
    BY <2>2 DEF Written
  <2>4. AnswerInv(r)'
    BY <1>1, <1>2, <2>1, <2>3 DEF AnswerInv, WillAnswer
  <2> QED BY <1>1, <1>3, <2>4, AnswersOfOthers
<1> QED BY <1>4, <1>5, <1>6, <1>7

\* Commit makes the promise of r true and keeps those of the others.
LEMMA AnswerCommit ==
  ASSUME ResponseInv, NEW r \in Requests, Commit(r)
  PROVE  \A q \in Requests : AnswerInv(q)' /\ SuspendedInv(q)'
<1>0. TypeInv /\ FreshInv /\ UpdateRevokes(r) /\ pc[r] = "commit" /\ suspended' = suspended
  BY DEF ResponseInv, RotationInv, RowsInv, Commit
<1>1. /\ Stored' = Stored \cup DOMAIN writes[r]
      /\ \A t \in Stored' : tokens'[t] = (IF t \in DOMAIN writes[r] THEN writes[r][t] ELSE tokens[t])
      /\ \A q \in Requests \ {r} : writes'[q] = writes[q] /\ pc'[q] = pc[q]
      /\ pc'[r] \in Over /\ req' = req
  BY <1>0, CommitEffect
<1>2. \A t \in Stored : /\ t \in Stored' /\ tokens'[t].owner = tokens[t].owner
                        /\ tokens[t].revoked => tokens'[t].revoked
  BY <1>0, <1>1 DEF UpdateRevokes
<1>3. ASSUME NEW q \in Requests
      PROVE  AnswerInv(q)' /\ SuspendedInv(q)'
  <2>0. AnswerInv(q) /\ SuspendedInv(q)
    BY DEF ResponseInv
  <2>1. CASE q = r
    <3>1. WillAnswer(r) /\ ~req[r].wasSuspended
      BY <1>0, <2>0, <2>1 DEF AnswerInv, SuspendedInv
    <3>2. Answered(r)'
      BY <1>0, <1>1, <3>1 DEF WillAnswer, Answered, TookEffect, UpdateRevokes
    <3> QED BY <1>1, <2>1, <3>1, <3>2 DEF AnswerInv, SuspendedInv, Over
  <2>2. CASE q # r
    <3>1. Answered(q) => Answered(q)'
      BY <1>1, <1>2 DEF Answered, TookEffect
    <3>2. WillAnswer(q) => WillAnswer(q)'
      BY <1>1, <2>2 DEF WillAnswer
    <3>3. req[q].fresh \in Stored' => req[q].fresh \in Stored
      BY <1>0, <1>1, <2>2, NoTokenIsNotStored, NoTokenAssumption DEF FreshInv, TypeInv, TypeOK, IsTable
    <3> QED BY <1>0, <1>1, <2>0, <2>2, <3>1, <3>2, <3>3 DEF AnswerInv, SuspendedInv
  <2> QED BY <2>1, <2>2
<1> QED BY <1>3

\* Every step keeps what is known of the responses.
LEMMA ResponseInvStep == ResponseInv /\ [Next]_vars => ResponseInv'
<1> SUFFICES ASSUME ResponseInv, [Next]_vars PROVE ResponseInv'
  OBVIOUS
<1> DEFINE Good == \A q \in Requests : AnswerInv(q)' /\ SuspendedInv(q)'
<1>0. /\ pc \in [Requests -> InTransaction \cup {"idle", "ok", "failed"}]
      /\ req \in [Requests -> Request]
      /\ DOMAIN writes = Requests
  BY DEF ResponseInv, RotationInv, TypeInv, TypeOK
<1>1. RotationInv'
  BY RotationInvStep DEF ResponseInv
<1>2. ASSUME UNCHANGED <<tokens, pc, req, writes>>, suspended \subseteq suspended' PROVE Good
  <2>1. \A q \in Requests : AnswerInv(q) /\ SuspendedInv(q)
    BY DEF ResponseInv
  <2>2. \A q \in Requests : AnswerInv(q)'
    BY <1>2, <2>1 DEF AnswerInv, WillAnswer, Answered, TookEffect, Stored
  <2>3. \A q \in Requests : SuspendedInv(q)'
    BY <1>2, <2>1 DEF SuspendedInv
  <2> QED BY <2>2, <2>3
<1>3. ASSUME NEW r \in Requests, Arrive(r) PROVE Good
  BY <1>3, AnswerArrive
<1>4. ASSUME NEW r \in Requests,
             LoginSave(r) \/ RefreshSaveRotated(r) \/ RefreshSaveStored(r) \/ LogoutSave(r)
      PROVE  Good
  BY <1>4, AnswerSave
<1>5. ASSUME NEW r \in Requests, RefreshReadUser(r) PROVE Good
  <2>1. \/ pc' = [pc EXCEPT ![r] = "throw"]
        \/ pc' = [pc EXCEPT ![r] = "saveRotated"] /\ req[r].user \notin suspended
    BY <1>5 DEF RefreshReadUser, Goto
  <2>2. req[r].wasSuspended => req[r].user \in suspended
    BY DEF ResponseInv, SuspendedInv
  <2> QED BY <1>5, <2>1, <2>2, AnswerMoved DEF RefreshReadUser
<1>6. ASSUME NEW r \in Requests, RefreshRevokeFamily(r) PROVE Good
  <2>1. /\ UNCHANGED <<tokens, suspended, req>> /\ pc' = [pc EXCEPT ![r] = "throw"]
        /\ \A q \in Requests \ {r} : writes'[q] = writes[q]
    BY <1>0, <1>6 DEF RefreshRevokeFamily, Goto, Write
  <2> QED BY <2>1, AnswerMoved
<1>7. ASSUME NEW r \in Requests, Rollback(r), pc[r] \notin Over PROVE Good
  BY <1>0, <1>7, AnswerMoved DEF Rollback, Goto
<1>8. ASSUME NEW r \in Requests, Commit(r) PROVE Good
  BY <1>8, AnswerCommit
<1>9. ASSUME NEW r \in Requests, Finish(r) PROVE Good
  <2>1. /\ req'[r] = NoRequest /\ pc'[r] = "idle" /\ UNCHANGED <<tokens, suspended, writes>>
        /\ \A q \in Requests \ {r} : pc'[q] = pc[q] /\ req'[q] = req[q] /\ writes'[q] = writes[q]
    BY <1>0, <1>9 DEF Finish, Goto
  <2>2. AnswerInv(r)' /\ SuspendedInv(r)'
    BY <2>1 DEF AnswerInv, SuspendedInv, NoRequest
  <2> QED BY <2>1, <2>2, AnswersOfOthers
<1>10. ASSUME NEW t \in TokenIds, Expire(t) PROVE Good
  BY <1>2, <1>10 DEF Expire
<1>11. ASSUME NEW u \in Users, Suspend(u) PROVE Good
  BY <1>2, <1>11 DEF Suspend
<1>12. ASSUME UNCHANGED vars PROVE Good
  BY <1>2, <1>12 DEF vars
<1>13. Good
  BY <1>3, <1>4, <1>5, <1>6, <1>7, <1>8, <1>9, <1>10, <1>11, <1>12
     DEF Next, Serve, Throw, Fault, InTransaction, Over
<1> QED BY <1>1, <1>13 DEF ResponseInv

\* ResponseInv is inductive.
LEMMA ResponseInvariant == Spec => []ResponseInv
BY ResponseInvInit, ResponseInvStep, PTL DEF Spec

\* A response tells the client what the table holds, whatever the other
\* requests have committed since: after success the new token is stored and the
\* presented one revoked, and after a failure, a lost acknowledgement of COMMIT
\* included, either both or the new token is not stored.
THEOREM ResponsesAreTrue == Spec => []ResponseMatchesTable
<1>1. ResponseInv => ResponseMatchesTable
  BY DEF ResponseInv, AnswerInv, Answered, ResponseMatchesTable
<1> QED BY <1>1, ResponseInvariant, PTL

\* A user already suspended at the first read of a login or a refresh gets no
\* token from it: the second read of the user sees the suspension.
THEOREM SuspendedGetsNone == Spec => []SuspendedGetsNothing
<1>1. ResponseInv => SuspendedGetsNothing
  BY NoTokenIsNotStored
     DEF ResponseInv, RotationInv, TypeInv, SuspendedInv, SuspendedGetsNothing
<1> QED BY <1>1, ResponseInvariant, PTL
-----------------------------------------------------------------------------
(* Layer 4: when no token is presented by two requests at once             *)

Alone ==
  \A q, r \in Requests :
    q # r /\ req[q].presented \in Stored => req[q].presented # req[r].presented

OriginsRevoked ==
  \A s \in Stored : tokens[s].origin # NoToken =>
    tokens[s].origin \in Stored /\ tokens[tokens[s].origin].revoked

\* What Commit will do to the sessions: what a login, a refresh and a logout
\* have written.
Opens(r) ==
  /\ DOMAIN writes[r] = {req[r].fresh}
  /\ writes[r][req[r].fresh].origin = NoToken
  /\ ~writes[r][req[r].fresh].revoked

Exchanges(r) ==
  /\ req[r].presented \in Stored
  /\ ~tokens[req[r].presented].revoked
  /\ DOMAIN writes[r] = {req[r].presented, req[r].fresh}
  /\ writes[r][req[r].fresh].origin = req[r].presented
  /\ ~writes[r][req[r].fresh].revoked

Closes(r) ==
  /\ req[r].presented \in Stored
  /\ DOMAIN writes[r] = {req[r].presented}
  /\ writes[r][req[r].presented].replacedBy = tokens[req[r].presented].replacedBy

\* The copy a request holds of the token it was given is not stale.
HeldInv(r) ==
  /\ pc[r] \in {"readUser", "saveRotated", "saveStored"} => ~tokens[req[r].presented].revoked
  /\ pc[r] = "logoutSave" =>
       /\ req[r].revoked = tokens[req[r].presented].revoked
       /\ req[r].link = tokens[req[r].presented].replacedBy
  /\ pc[r] = "commit" =>
       Opens(r) \/ Exchanges(r) \/ Closes(r) \/ DOMAIN writes[r] = {}

ExchangeInv ==
  /\ RotationInv
  /\ Alone
  /\ OriginsRevoked
  /\ OneSuccessor
  /\ \A r \in Requests : HeldInv(r)

LEMMA ExchangeInvInit == Init => ExchangeInv
BY RotationInvInit
   DEF Init, ExchangeInv, Alone, OriginsRevoked, OneSuccessor, HeldInv, NoRequest, Stored, NoRows

\* A step of r that leaves the table alone keeps what is said of the table and
\* of the tokens the other requests hold.
LEMMA ExchangeKept ==
  ASSUME ExchangeInv, UNCHANGED tokens, NEW r \in Requests,
         \A q \in Requests \ {r} : pc'[q] = pc[q] /\ req'[q] = req[q] /\ writes'[q] = writes[q],
         HeldInv(r)',
         \/ req'[r].presented = req[r].presented
         \/ req'[r].presented \in Stored =>
              \A q \in Requests \ {r} : req[q].presented # req'[r].presented
  PROVE  Alone' /\ OriginsRevoked' /\ OneSuccessor' /\ \A q \in Requests : HeldInv(q)'
<1>1. Stored' = Stored
  BY DEF Stored
<1>2. Alone'
  BY <1>1 DEF ExchangeInv, Alone
<1>3. OriginsRevoked' /\ OneSuccessor'
  BY <1>1 DEF ExchangeInv, OriginsRevoked, OneSuccessor
<1>4. ASSUME NEW q \in Requests \ {r} PROVE HeldInv(q)'
  <2>1. HeldInv(q) /\ pc'[q] = pc[q] /\ req'[q] = req[q] /\ writes'[q] = writes[q]
    BY DEF ExchangeInv
  <2> QED BY <1>1, <2>1 DEF HeldInv, Opens, Exchanges, Closes
<1> QED BY <1>2, <1>3, <1>4

\* What Commit does when the copy was not stale: it opens, moves or closes the
\* session of one token, or changes nothing.
LEMMA ExchangeCommit ==
  ASSUME ExchangeInv, NEW r \in Requests, Commit(r)
  PROVE  /\ req[r].fresh \notin Stored
         /\ req' = req
         /\ Stored' = Stored \cup DOMAIN writes[r]
         /\ \A t \in Stored' \ DOMAIN writes[r] : tokens'[t] = tokens[t]
         /\ \A t \in DOMAIN writes[r] : tokens'[t] = writes[r][t]
         /\ \A t \in Stored : tokens'[t].origin = tokens[t].origin
         /\ \A t \in Stored \cap DOMAIN writes[r] : tokens'[t].revoked
         /\ DOMAIN writes[r] \subseteq TokenIds
         /\ \A q \in Requests \ {r} : writes'[q] = writes[q] /\ pc'[q] = pc[q]
         /\ pc'[r] \in Over
         /\ Opens(r) \/ Exchanges(r) \/ Closes(r) \/ DOMAIN writes[r] = {}
<1>1. TypeInv /\ FreshInv /\ UpdateRevokes(r) /\ HeldInv(r) /\ pc[r] = "commit"
  BY DEF ExchangeInv, RotationInv, RowsInv, Commit
<1>2. /\ req' = req
      /\ Stored' = Stored \cup DOMAIN writes[r]
      /\ \A t \in Stored' : tokens'[t] = (IF t \in DOMAIN writes[r] THEN writes[r][t] ELSE tokens[t])
      /\ \A q \in Requests \ {r} : writes'[q] = writes[q] /\ pc'[q] = pc[q]
      /\ pc'[r] \in Over
  BY <1>1, CommitEffect
<1>3. req[r].fresh \notin Stored /\ DOMAIN writes[r] \subseteq TokenIds
  BY <1>1 DEF FreshInv, TypeInv, TypeOK, IsTable, Over
<1>4. Opens(r) \/ Exchanges(r) \/ Closes(r) \/ DOMAIN writes[r] = {}
  BY <1>1 DEF HeldInv
<1>5. /\ \A t \in Stored : tokens'[t].origin = tokens[t].origin
      /\ \A t \in Stored \cap DOMAIN writes[r] : tokens'[t].revoked
  BY <1>1, <1>2 DEF UpdateRevokes
<1> QED BY <1>2, <1>3, <1>4, <1>5

\* Commit exchanges a token once, and leaves the tokens held by others alone.
LEMMA ExchangeCommitted ==
  ASSUME ExchangeInv, NEW r \in Requests, Commit(r)
  PROVE  Alone' /\ OriginsRevoked' /\ OneSuccessor' /\ \A q \in Requests : HeldInv(q)'
<1> DEFINE p == req[r].presented
           n == req[r].fresh
           D == DOMAIN writes[r]
<1>1. /\ n \notin Stored /\ req' = req /\ Stored' = Stored \cup D
      /\ \A t \in Stored' \ D : tokens'[t] = tokens[t]
      /\ \A t \in D : tokens'[t] = writes[r][t]
      /\ \A q \in Requests \ {r} : writes'[q] = writes[q] /\ pc'[q] = pc[q]
      /\ pc'[r] \in Over
  BY ExchangeCommit
<1>2. /\ \A t \in Stored : tokens'[t].origin = tokens[t].origin
      /\ \A t \in Stored \cap D : tokens'[t].revoked
      /\ D \subseteq TokenIds
  BY ExchangeCommit
<1>3. Opens(r) \/ Exchanges(r) \/ Closes(r) \/ D = {}
  BY ExchangeCommit
<1>4. NoToken \notin Stored'
  BY <1>1, <1>2, NoTokenIsNotStored, NoTokenAssumption DEF ExchangeInv, RotationInv, TypeInv
<1>5. \A q \in Requests : req[q].presented \in Stored \cup {NoToken}
  BY DEF ExchangeInv, RotationInv, RowsInv
<1>6. \A t \in Stored : t \in Stored' /\ (tokens[t].revoked => tokens'[t].revoked)
  BY <1>1, <1>2
\* a new row has no origin, or the token that r exchanges
<1>7. \A t \in Stored' \ Stored :
         /\ t = n
         /\ tokens'[t].origin # NoToken => /\ tokens'[t].origin = p
                                            /\ p \in Stored \cap D
                                            /\ ~tokens[p].revoked
  BY <1>1, <1>3 DEF Opens, Exchanges, Closes
<1>8. OriginsRevoked /\ OneSuccessor /\ Alone
  BY DEF ExchangeInv
<1>9. Alone'
  BY <1>1, <1>4, <1>5, <1>8 DEF Alone
<1>10. OriginsRevoked'
  <2> SUFFICES ASSUME NEW s \in Stored', tokens'[s].origin # NoToken
               PROVE  tokens'[s].origin \in Stored' /\ tokens'[tokens'[s].origin].revoked
    BY DEF OriginsRevoked
  <2>1. CASE s \in Stored
    BY <1>2, <1>6, <1>8, <2>1 DEF OriginsRevoked
  <2>2. CASE s \notin Stored
    BY <1>2, <1>6, <1>7, <2>2
  <2> QED BY <2>1, <2>2
<1>11. OneSuccessor'
  <2> SUFFICES ASSUME NEW s \in Stored', NEW t \in Stored', s # t,
                      tokens'[s].origin = tokens'[t].origin, tokens'[s].origin # NoToken
               PROVE  FALSE
    BY DEF OneSuccessor
  <2>1. CASE s \in Stored /\ t \in Stored
    BY <1>2, <1>8, <2>1 DEF OneSuccessor
  <2>2. CASE s \in Stored /\ t \notin Stored
    BY <1>2, <1>7, <1>8, <2>2 DEF OriginsRevoked
  <2>3. CASE s \notin Stored /\ t \in Stored
    BY <1>2, <1>7, <1>8, <2>3 DEF OriginsRevoked
  <2>4. CASE s \notin Stored /\ t \notin Stored
    BY <1>7, <2>4
  <2> QED BY <2>1, <2>2, <2>3, <2>4
<1>12. ASSUME NEW q \in Requests PROVE HeldInv(q)'
  <2>1. CASE q = r
    BY <1>1, <2>1 DEF HeldInv, Over
  <2>2. CASE q # r
    <3>1. req[q].presented \in Stored => tokens'[req[q].presented] = tokens[req[q].presented]
      <4> SUFFICES ASSUME req[q].presented \in Stored PROVE req[q].presented \notin D
        BY <1>1
      <4> QED BY <1>1, <1>3, <1>8, <2>2 DEF Opens, Exchanges, Closes, Alone
    <3>2. HeldInv(q) /\ pc'[q] = pc[q] /\ writes'[q] = writes[q] /\ req' = req
      BY <1>1, <2>2 DEF ExchangeInv
    <3>3. pc[q] \in {"readUser", "saveRotated", "saveStored", "logoutSave"} => req[q].presented \in Stored
      BY DEF ExchangeInv, RotationInv, TypeInv, Ready
    <3>4. Exchanges(q) => Exchanges(q)'
      BY <1>1, <3>1, <3>2 DEF Exchanges
    <3>5. Closes(q) => Closes(q)'
      BY <1>1, <3>1, <3>2 DEF Closes
    <3>6. Opens(q) => Opens(q)'
      BY <3>2 DEF Opens
    <3> QED BY <3>1, <3>2, <3>3, <3>4, <3>5, <3>6 DEF HeldInv
  <2> QED BY <2>1, <2>2
<1> QED BY <1>9, <1>10, <1>11, <1>12
\* A request takes a token that no other request holds, and reads its row.
LEMMA ExchangeArrive ==
  ASSUME SingleFlight, ExchangeInv, NEW r \in Requests, Arrive(r)
  PROVE  Alone' /\ OriginsRevoked' /\ OneSuccessor' /\ \A q \in Requests : HeldInv(q)'
<1> DEFINE Good == Alone' /\ OriginsRevoked' /\ OneSuccessor' /\ \A q \in Requests : HeldInv(q)'
<1>0. /\ pc \in [Requests -> InTransaction \cup {"idle", "ok", "failed"}]
      /\ req \in [Requests -> Request]
  BY DEF ExchangeInv, RotationInv, TypeInv, TypeOK
<1>1. ASSUME NEW new, NEW place, req' = [req EXCEPT ![r] = new], pc' = [pc EXCEPT ![r] = place],
             UNCHANGED <<tokens, writes>>, pc[r] = "idle",
             new.presented \in Stored => \A q \in Requests \ {r} : req[q].presented # new.presented,
             \/ place \in {"throw", "loginSave", "revokeFamily", "commit"}
             \/ place = "readUser" /\ ~tokens[new.presented].revoked
             \/ /\ place = "logoutSave"
                /\ new.revoked = tokens[new.presented].revoked
                /\ new.link = tokens[new.presented].replacedBy
      PROVE  Good
  <2>1. /\ pc'[r] = place /\ req'[r] = new
        /\ \A q \in Requests \ {r} : pc'[q] = pc[q] /\ req'[q] = req[q] /\ writes'[q] = writes[q]
    BY <1>0, <1>1
  <2>2. DOMAIN writes'[r] = {}
    BY <1>1 DEF ExchangeInv, RotationInv, FreshInv, Clean
  <2>3. HeldInv(r)'
    BY <1>1, <2>1, <2>2 DEF HeldInv
  <2> QED BY <1>1, <2>1, <2>3, ExchangeKept
<1>2. ASSUME NEW u \in Users, NEW valid \in BOOLEAN, LoginReadUser(r, u, valid)
      PROVE  Good
  <2>1. PICK new, place :
          /\ new.presented = NoToken /\ place \in {"throw", "loginSave"}
          /\ req' = [req EXCEPT ![r] = new] /\ pc' = [pc EXCEPT ![r] = place]
    BY <1>2 DEF LoginReadUser, Goto, NoRequest
  <2>2. NoToken \notin Stored
    BY NoTokenIsNotStored DEF ExchangeInv, RotationInv, TypeInv
  <2> QED BY <1>1, <1>2, <2>1, <2>2 DEF LoginReadUser
<1>3. ASSUME NEW t \in Stored \cup {NoToken}, RefreshFind(r, t)
      PROVE  Good
  <2>1. PICK new, place :
          /\ new.presented = t
          /\ \/ place \in {"throw", "revokeFamily"}
             \/ place = "readUser" /\ ~tokens[t].revoked
          /\ req' = [req EXCEPT ![r] = new] /\ pc' = [pc EXCEPT ![r] = place]
    BY <1>3 DEF RefreshFind, Goto, NoRequest
  <2>2. pc[r] = "idle" /\ MayPresent(r, t) /\ UNCHANGED <<tokens, writes>>
    BY <1>3 DEF RefreshFind
  <2>3. t \in Stored => \A q \in Requests \ {r} : req[q].presented # t
    BY <2>2, SingleFlight DEF MayPresent
  <2> QED BY <1>1, <2>1, <2>2, <2>3
<1>4. ASSUME NEW t \in Stored \cup {NoToken}, LogoutFind(r, t)
      PROVE  Good
  <2>1. PICK new, place :
          /\ new.presented = t
          /\ \/ place = "commit"
             \/ /\ place = "logoutSave"
                /\ new.revoked = tokens[t].revoked /\ new.link = tokens[t].replacedBy
          /\ req' = [req EXCEPT ![r] = new] /\ pc' = [pc EXCEPT ![r] = place]
    BY <1>4 DEF LogoutFind, Goto, NoRequest
  <2>2. pc[r] = "idle" /\ MayPresent(r, t) /\ UNCHANGED <<tokens, writes>>
    BY <1>4 DEF LogoutFind
  <2>3. t \in Stored => \A q \in Requests \ {r} : req[q].presented # t
    BY <2>2, SingleFlight DEF MayPresent
  <2> QED BY <1>1, <2>1, <2>2, <2>3
<1> QED BY <1>2, <1>3, <1>4 DEF Arrive

\* The saves: what waits for Commit opens, moves or closes one session.
LEMMA ExchangeSave ==
  ASSUME ExchangeInv, NEW r \in Requests,
         LoginSave(r) \/ RefreshSaveRotated(r) \/ RefreshSaveStored(r) \/ LogoutSave(r)
  PROVE  Alone' /\ OriginsRevoked' /\ OneSuccessor' /\ \A q \in Requests : HeldInv(q)'
<1> DEFINE p == req[r].presented
<1>0. /\ pc \in [Requests -> InTransaction \cup {"idle", "ok", "failed"}] /\ req \in [Requests -> Request]
      /\ DOMAIN writes = Requests /\ req[r] \in Request /\ HeldInv(r)
      /\ TypeInv /\ FreshInv /\ RowsInv /\ RotationLinked
  BY DEF ExchangeInv, RotationInv, TypeInv, TypeOK
<1>1. /\ UNCHANGED tokens /\ Stored' = Stored
      /\ \A q \in Requests \ {r} : pc'[q] = pc[q] /\ req'[q] = req[q] /\ writes'[q] = writes[q]
  BY <1>0 DEF LoginSave, RefreshSaveRotated, RefreshSaveStored, LogoutSave, Update, Write, Goto, Stored
<1>2. req'[r].presented = p
  <2>1. ASSUME NEW t, req' = [req EXCEPT ![r].fresh = t] PROVE req'[r].presented = p
    BY <1>0, <2>1 DEF Request
  <2> QED BY <1>0, <2>1 DEF LoginSave, RefreshSaveRotated, RefreshSaveStored, LogoutSave, Request
<1>3. SUFFICES HeldInv(r)'
  BY <1>1, <1>2, ExchangeKept
<1>4. CASE LoginSave(r)
  <2>1. PICK t \in Unused : /\ req' = [req EXCEPT ![r].fresh = t]
                            /\ Write(r, [s \in {t} |-> NewToken(req[r].user, NoToken)])
    BY <1>4 DEF LoginSave
  <2>2. req'[r].fresh = t /\ pc'[r] = "commit" /\ DOMAIN writes[r] = {}
    BY <1>0, <1>4, <2>1 DEF LoginSave, Goto, Request, FreshInv, Clean
  <2>3. writes'[r] = Written([s \in {t} |-> NewToken(req[r].user, NoToken)], writes[r])
    BY <1>0, <2>1 DEF Write
  <2>4. DOMAIN writes'[r] = {t} /\ writes'[r][t].origin = NoToken /\ ~writes'[r][t].revoked
    BY <2>2, <2>3 DEF Written, NewToken
  <2> QED BY <2>2, <2>4 DEF HeldInv, Opens
<1>5. CASE RefreshSaveRotated(r)
  <2>1. pc'[r] = "saveStored" /\ pc[r] = "saveRotated"
    BY <1>0, <1>5 DEF RefreshSaveRotated, Goto
  <2> QED BY <1>0, <1>1, <1>2, <2>1 DEF HeldInv
<1>6. CASE RefreshSaveStored(r)
  <2> DEFINE n == req[r].fresh
             row == [tokens[p] EXCEPT !.revoked = TRUE, !.replacedBy = n]
  <2>1. /\ p \in Stored /\ n \notin Stored /\ writes[r] = NewRow(r) /\ ~tokens[p].revoked
    BY <1>0, <1>6 DEF RefreshSaveStored, TypeInv, Ready, FreshInv, RowsInv, HeldInv, Over
  <2>2. writes'[r] = Written([s \in {p} |-> row], writes[r])
    BY <1>0, <1>6 DEF RefreshSaveStored, Update, Write
  <2>3. pc'[r] = "commit" /\ req'[r].fresh = n
    BY <1>0, <1>6 DEF RefreshSaveStored, Goto, Request
  <2>4. /\ DOMAIN writes'[r] = {p, n} /\ writes'[r][n].origin = p /\ ~writes'[r][n].revoked
    BY <2>1, <2>2 DEF Written, NewRow, NewToken
  <2>5. Exchanges(r)'
    BY <1>1, <1>2, <2>1, <2>3, <2>4 DEF Exchanges
  <2> QED BY <2>3, <2>5 DEF HeldInv
<1>7. CASE LogoutSave(r)
  <2> DEFINE link == IF req[r].revoked THEN req[r].link ELSE NoToken
  <2>1. /\ p \in Stored /\ pc'[r] = "commit" /\ DOMAIN writes[r] = {} /\ req' = req
        /\ req[r].revoked = tokens[p].revoked /\ req[r].link = tokens[p].replacedBy
    BY <1>0, <1>7 DEF LogoutSave, TypeInv, Ready, Goto, FreshInv, Clean, HeldInv
  <2>2. link = tokens[p].replacedBy
    BY <1>0, <2>1 DEF RotationLinked
  <2>3. writes'[r] = Written([s \in {p} |-> [tokens[p] EXCEPT !.revoked = TRUE, !.replacedBy = link]], writes[r])
    BY <1>0, <1>7 DEF LogoutSave, Update, Write
  <2>4. tokens[p] \in Row
    BY <1>0, <2>1, StoredRowIsTyped DEF TypeInv, TypeOK
  <2> HIDE DEF link
  <2>5. DOMAIN writes'[r] = {p} /\ writes'[r][p].replacedBy = link
    BY <2>1, <2>3, <2>4 DEF Written, Row
  <2>6. Closes(r)'
    BY <1>1, <2>1, <2>2, <2>5 DEF Closes
  <2> QED BY <2>1, <2>6 DEF HeldInv
<1> QED BY <1>4, <1>5, <1>6, <1>7

\* Every step keeps the tokens in the hands of one request each.
LEMMA ExchangeInvStep ==
  ASSUME SingleFlight PROVE ExchangeInv /\ [Next]_vars => ExchangeInv'
<1> SUFFICES ASSUME ExchangeInv, [Next]_vars PROVE ExchangeInv'
  OBVIOUS
<1> DEFINE Good == Alone' /\ OriginsRevoked' /\ OneSuccessor' /\ \A q \in Requests : HeldInv(q)'
<1>0. /\ pc \in [Requests -> InTransaction \cup {"idle", "ok", "failed"}]
      /\ req \in [Requests -> Request] /\ DOMAIN writes = Requests
  BY DEF ExchangeInv, RotationInv, TypeInv, TypeOK
<1>1. RotationInv'
  BY RotationInvStep DEF ExchangeInv
<1>2. ASSUME UNCHANGED <<tokens, pc, req, writes>> PROVE Good
  BY <1>2 DEF ExchangeInv, Alone, OriginsRevoked, OneSuccessor, HeldInv, Opens, Exchanges, Closes, Stored
<1>3. ASSUME NEW r \in Requests, Arrive(r) PROVE Good
  BY <1>3, SingleFlight, ExchangeArrive
<1>4. ASSUME NEW r \in Requests,
             LoginSave(r) \/ RefreshSaveRotated(r) \/ RefreshSaveStored(r) \/ LogoutSave(r)
      PROVE  Good
  BY <1>4, ExchangeSave
\* the steps of r that only move it on, or end it
<1>5. ASSUME NEW r \in Requests, UNCHANGED <<tokens, req>>,
             \A q \in Requests \ {r} : pc'[q] = pc[q] /\ writes'[q] = writes[q],
             \/ pc'[r] \in {"throw", "failed"}
             \/ pc'[r] = "saveRotated" /\ pc[r] = "readUser"
      PROVE  Good
  <2>1. HeldInv(r)'
    BY <1>5 DEF ExchangeInv, HeldInv
  <2> QED BY <1>5, <2>1, ExchangeKept
<1>6. ASSUME NEW r \in Requests, RefreshReadUser(r) PROVE Good
  BY <1>0, <1>5, <1>6 DEF RefreshReadUser, Goto
<1>7. ASSUME NEW r \in Requests, RefreshRevokeFamily(r) PROVE Good
  <2>1. /\ UNCHANGED <<tokens, req>> /\ pc'[r] = "throw"
        /\ \A q \in Requests \ {r} : pc'[q] = pc[q] /\ writes'[q] = writes[q]
    BY <1>0, <1>7 DEF RefreshRevokeFamily, Goto, Write
  <2> QED BY <1>5, <1>7, <2>1
<1>8. ASSUME NEW r \in Requests, Rollback(r) PROVE Good
  <2>1. /\ UNCHANGED <<tokens, req>> /\ pc'[r] = "failed"
        /\ \A q \in Requests \ {r} : pc'[q] = pc[q] /\ writes'[q] = writes[q]
    BY <1>0, <1>8 DEF Rollback, Goto
  <2> QED BY <1>5, <1>8, <2>1
<1>9. ASSUME NEW r \in Requests, Commit(r) PROVE Good
  BY <1>9, ExchangeCommitted
<1>10. ASSUME NEW r \in Requests, Finish(r) PROVE Good
  <2>1. /\ req'[r] = NoRequest /\ pc'[r] = "idle" /\ UNCHANGED tokens
        /\ \A q \in Requests \ {r} : pc'[q] = pc[q] /\ req'[q] = req[q] /\ writes'[q] = writes[q]
    BY <1>0, <1>10 DEF Finish, Goto
  <2>2. HeldInv(r)' /\ req'[r].presented \notin Stored
    BY <2>1, NoTokenIsNotStored DEF HeldInv, NoRequest, ExchangeInv, RotationInv, TypeInv
  <2> QED BY <2>1, <2>2, ExchangeKept
<1>11. ASSUME NEW t \in TokenIds, Expire(t) PROVE Good
  BY <1>2, <1>11 DEF Expire
<1>12. ASSUME NEW u \in Users, Suspend(u) PROVE Good
  BY <1>2, <1>12 DEF Suspend
<1>13. ASSUME UNCHANGED vars PROVE Good
  BY <1>2, <1>13 DEF vars
<1>14. Good
  BY <1>3, <1>4, <1>6, <1>7, <1>8, <1>9, <1>10, <1>11, <1>12, <1>13 DEF Next, Serve, Throw, Fault
<1> QED BY <1>1, <1>14 DEF ExchangeInv

\* ExchangeInv is inductive when no token is in two requests.
LEMMA ExchangeInvariant == ASSUME SingleFlight PROVE Spec => []ExchangeInv
<1>1. ExchangeInv /\ [Next]_vars => ExchangeInv'
  BY SingleFlight, ExchangeInvStep
<1> QED BY <1>1, ExchangeInvInit, PTL DEF Spec

\* A client that presents a token in one request at a time exchanges it at most
\* once, whatever fails and is retried: no two stored tokens were issued for it.
THEOREM ExchangedOnce == ASSUME SingleFlight PROVE Spec => []OneSuccessor
<1>1. ExchangeInv => OneSuccessor
  BY DEF ExchangeInv
<1> QED BY <1>1, SingleFlight, ExchangeInvariant, PTL

\* Under the same condition the audit trail of a session is never erased nor
\* redirected by a save.
THEOREM LinkIsFinal == ASSUME SingleFlight PROVE Spec => LinkFinal
<1> DEFINE Kept == \A t \in Stored : tokens[t].replacedBy # NoToken =>
                     tokens'[t].replacedBy = tokens[t].replacedBy
<1>1. ASSUME ExchangeInv, Next PROVE Kept
  <2>1. CASE UNCHANGED tokens
    BY <2>1
  <2>2. ASSUME NEW r \in Requests, Commit(r) PROVE Kept
    <3> SUFFICES ASSUME NEW t \in Stored, tokens[t].replacedBy # NoToken
                 PROVE  tokens'[t].replacedBy = tokens[t].replacedBy
      OBVIOUS
    <3>1. tokens[t].revoked
      BY <1>1 DEF ExchangeInv, RotationInv, RotationLinked
    <3>2. /\ req[r].fresh \notin Stored
          /\ Stored' = Stored \cup DOMAIN writes[r]
          /\ \A s \in Stored' \ DOMAIN writes[r] : tokens'[s] = tokens[s]
          /\ \A s \in DOMAIN writes[r] : tokens'[s] = writes[r][s]
      BY <1>1, <2>2, ExchangeCommit
    <3>3. Opens(r) \/ Exchanges(r) \/ Closes(r) \/ DOMAIN writes[r] = {}
      BY <1>1, <2>2, ExchangeCommit
    <3> QED BY <3>1, <3>2, <3>3 DEF Opens, Exchanges, Closes
  <2> QED BY <1>1, <2>1, <2>2, OnlyCommitWrites, Zenon
<1>2. ExchangeInv /\ [Next]_vars => [Kept]_vars
  BY <1>1
<1> QED BY <1>2, SingleFlight, ExchangeInvariant, PTL DEF Spec, LinkFinal

\* The abstract register follows: Commit opens, rotates or closes one session,
\* and nothing else changes the table.
LEMMA CommitImplementsRegister ==
  ASSUME ExchangeInv, NEW r \in Requests, Commit(r)
  PROVE  [Register!Next]_<<[t \in Stored |-> tokens[t].origin], {t \in Stored : ~tokens[t].revoked}>>
<1> DEFINE p == req[r].presented
           n == req[r].fresh
           D == DOMAIN writes[r]
           issued == [t \in Stored |-> tokens[t].origin]
           live == {t \in Stored : ~tokens[t].revoked}
<1>1. /\ n \notin Stored /\ Stored' = Stored \cup D
      /\ \A t \in Stored' \ D : tokens'[t] = tokens[t]
      /\ \A t \in D : tokens'[t] = writes[r][t]
      /\ \A t \in Stored : tokens'[t].origin = tokens[t].origin
      /\ \A t \in Stored \cap D : tokens'[t].revoked
      /\ D \subseteq TokenIds
  BY ExchangeCommit
<1>2. Opens(r) \/ Exchanges(r) \/ Closes(r) \/ D = {}
  BY ExchangeCommit
<1>3. CASE D = {}
  BY <1>1, <1>3
<1>4. CASE Opens(r)
  <2>1. D = {n} /\ n \in TokenIds /\ Stored' = Stored \cup {n} /\ DOMAIN issued = Stored
    BY <1>1, <1>4 DEF Opens
  <2>2. issued' = [t \in Stored \cup {n} |-> IF t = n THEN NoToken ELSE issued[t]]
    BY <1>1, <1>4, <2>1 DEF Opens
  <2>3. live' = live \cup {n}
    BY <1>1, <1>4, <2>1 DEF Opens
  <2>4. Register!Next
    BY <1>1, <2>1, <2>2, <2>3 DEF Register!OpenSession, Register!Issue, Register!Next
  <2> QED BY <2>4
<1>5. CASE Exchanges(r)
  <2>1. /\ D = {p, n} /\ n \in TokenIds /\ Stored' = Stored \cup {n} /\ DOMAIN issued = Stored
        /\ p \in TokenIds /\ p \in live
    BY <1>1, <1>5 DEF Exchanges
  <2>2. issued' = [t \in Stored \cup {n} |-> IF t = n THEN p ELSE issued[t]]
    BY <1>1, <1>5, <2>1 DEF Exchanges
  <2>3. live' = (live \ {p}) \cup {n}
    BY <1>1, <1>5, <2>1 DEF Exchanges
  <2>4. Register!Next
    BY <1>1, <2>1, <2>2, <2>3 DEF Register!Rotate, Register!Issue, Register!Next
  <2> QED BY <2>4
<1>6. CASE Closes(r)
  <2>1. /\ D = {p} /\ p \in TokenIds /\ Stored' = Stored
    BY <1>1, <1>6 DEF Closes
  <2>2. issued' = issued
    BY <1>1, <2>1
  <2>3. live' = live \ {p}
    BY <1>1, <2>1
  <2>4. CASE p \in live
    BY <2>1, <2>2, <2>3, <2>4 DEF Register!CloseSession, Register!Next
  <2>5. CASE p \notin live
    BY <2>2, <2>3, <2>5
  <2> QED BY <2>4, <2>5
<1> QED BY <1>2, <1>3, <1>4, <1>5, <1>6

\* Refresh-token rotation keeps its promise: every change of the table opens,
\* exchanges or closes exactly one session.
THEOREM RotationImplementsRegister == ASSUME SingleFlight PROVE Spec => ImplementsRegister
<1>1. Init => Register!Init
  BY DEF Init, NoRows, Stored, Register!Init
<1>2. ASSUME ExchangeInv, [Next]_vars
      PROVE  [Register!Next]_<<[t \in Stored |-> tokens[t].origin], {t \in Stored : ~tokens[t].revoked}>>
  <2>1. CASE UNCHANGED tokens
    BY <2>1 DEF Stored
  <2>2. CASE ~UNCHANGED tokens
    <3>1. PICK r \in Requests : Commit(r)
      BY <1>2, <2>2, OnlyCommitWrites DEF vars
    <3> QED BY <1>2, <3>1, CommitImplementsRegister
  <2> QED BY <2>1, <2>2
<1> QED BY <1>1, <1>2, SingleFlight, ExchangeInvariant, PTL DEF Spec, ImplementsRegister, Register!Spec
=============================================================================
