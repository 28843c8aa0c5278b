--------------------------- MODULE SessionsProofs ---------------------------
(***************************************************************************)
(* Proofs about Sessions, for any number of users, tokens and requests.    *)
(***************************************************************************)
EXTENDS Sessions, TLAPS

(* Helpers of the model return what their names say. *)

\* The rows of f written over the table g are a table again.
LEMMA WrittenIsTable ==
  ASSUME NEW f, NEW g, IsTable(f), IsTable(g)
  PROVE  /\ IsTable(Written(f, g))
         /\ DOMAIN Written(f, g) = DOMAIN f \cup DOMAIN g
BY DEF IsTable, Written

\* A transaction that has written nothing holds an empty table.
LEMMA NoRowsIsTable == IsTable(NoRows) /\ DOMAIN NoRows = {}
BY DEF IsTable, NoRows

\* A request writes a table over its own rows only.
LEMMA WriteIsTyped ==
  ASSUME NEW r \in Requests, NEW rows, IsTable(rows), Write(r, rows),
         DOMAIN writes = Requests, \A q \in Requests : IsTable(writes[q])
  PROVE  /\ DOMAIN writes' = Requests
         /\ \A q \in Requests : IsTable(writes'[q])
         /\ writes'[r] = Written(rows, writes[r])
         /\ \A q \in Requests \ {r} : writes'[q] = writes[q]
<1>1. DOMAIN writes' = Requests /\ writes'[r] = Written(rows, writes[r])
  BY DEF Write
<1>2. \A q \in Requests \ {r} : writes'[q] = writes[q]
  BY DEF Write
<1>3. IsTable(writes'[r])
  BY <1>1, WrittenIsTable
<1> QED BY <1>1, <1>2, <1>3

\* What a request knows after its first read is a Request again.
LEMMA ArrivedIsRequest ==
  ASSUME NEW op \in {"login", "refresh", "logout"}, NEW t \in TokenIds \cup {NoToken},
         NEW u \in Users \cup {NoUser}, NEW revoked \in BOOLEAN,
         NEW link \in TokenIds \cup {NoToken}, NEW flag \in BOOLEAN
  PROVE  /\ [NoRequest EXCEPT !.op = op, !.user = u, !.wasSuspended = flag] \in Request
         /\ [NoRequest EXCEPT !.op = op, !.presented = t] \in Request
         /\ [NoRequest EXCEPT !.op = op, !.presented = t, !.user = u,
                !.revoked = revoked, !.link = link] \in Request
         /\ [NoRequest EXCEPT !.op = op, !.presented = t, !.user = u,
                !.revoked = revoked, !.link = link, !.wasSuspended = flag] \in Request
BY DEF NoRequest, Request

\* A stored row has the fields of a Row.
LEMMA StoredRowIsTyped ==
  ASSUME IsTable(tokens), NEW t \in Stored
  PROVE  /\ t \in TokenIds
         /\ tokens[t] \in Row
         /\ tokens[t].owner \in Users /\ tokens[t].revoked \in BOOLEAN
         /\ tokens[t].replacedBy \in TokenIds \cup {NoToken}
         /\ tokens[t].origin \in TokenIds \cup {NoToken}
BY DEF IsTable, Stored, Row

-----------------------------------------------------------------------------
(* Type correctness.  A row is typed only if the request that writes it    *)
(* has read a user, and an update only if its token is stored.             *)

Ready ==
  \A r \in Requests :
    /\ pc[r] \in {"loginSave", "revokeFamily", "readUser", "saveRotated", "saveStored", "logoutSave"}
         => req[r].user \in Users
    /\ pc[r] \in {"revokeFamily", "readUser", "saveRotated", "saveStored", "logoutSave"}
         => req[r].presented \in Stored

TypeInv == TypeOK /\ Ready

\* The empty table and idle requests are typed.
LEMMA TypeInvInit == Init => TypeInv
BY NoRowsIsTable DEF Init, TypeInv, TypeOK, Ready, NoRequest, Request, Stored, NoRows, IsTable, InTransaction

\* Every step, whatever request takes it, keeps types and readiness.
LEMMA TypeInvStep == TypeInv /\ [Next]_vars => TypeInv'
<1> SUFFICES ASSUME TypeInv, [Next]_vars PROVE TypeInv'
  OBVIOUS
<1> USE DEF TypeInv
<1>1. CASE UNCHANGED vars
  BY <1>1 DEF vars, TypeOK, Ready, Stored, IsTable
<1>2. ASSUME NEW r \in Requests, NEW u \in Users, NEW valid \in BOOLEAN, LoginReadUser(r, u, valid)
      PROVE  TypeInv'
  <2> DEFINE flag == u \in suspended
             new == [NoRequest EXCEPT !.op = "login", !.user = u, !.wasSuspended = flag]
  <2>1. new \in Request
    <3>1. flag \in BOOLEAN
      OBVIOUS
    <3> HIDE DEF flag
    <3> QED BY <3>1, ArrivedIsRequest
  <2>2. new.user \in Users
    BY DEF NoRequest
  <2>3. req' = [req EXCEPT ![r] = new]
    BY <1>2 DEF LoginReadUser
  <2>4. pc' = [pc EXCEPT ![r] = "throw"] \/ pc' = [pc EXCEPT ![r] = "loginSave"]
    BY <1>2 DEF LoginReadUser, Goto
  <2> HIDE DEF new
  <2> QED BY <1>2, <2>1, <2>2, <2>3, <2>4 DEF LoginReadUser, TypeOK, Ready, InTransaction, Stored
<1>3. ASSUME NEW r \in Requests, LoginSave(r)
      PROVE  TypeInv'
  <2> PICK t \in Unused :
           /\ req' = [req EXCEPT ![r].fresh = t]
           /\ Write(r, [s \in {t} |-> NewToken(req[r].user, NoToken)])
    BY <1>3 DEF LoginSave
  <2>1. req[r].user \in Users
    BY <1>3 DEF LoginSave, Ready
  <2>2. IsTable([s \in {t} |-> NewToken(req[r].user, NoToken)])
    BY <2>1 DEF IsTable, Row, Unused, NewToken
  <2>3. DOMAIN writes' = Requests /\ \A q \in Requests : IsTable(writes'[q])
    BY <2>2, WriteIsTyped DEF TypeOK
  <2>4. req' \in [Requests -> Request] /\ pc' = [pc EXCEPT ![r] = "commit"]
    BY <1>3 DEF LoginSave, TypeOK, Request, Goto, Unused
  <2> QED BY <1>3, <2>3, <2>4 DEF LoginSave, TypeOK, Ready, InTransaction, Stored
<1>4. ASSUME NEW r \in Requests, NEW t \in Stored \cup {NoToken}, RefreshFind(r, t)
      PROVE  TypeInv'
  <2>1. CASE t \notin Stored
    <3> DEFINE new == [NoRequest EXCEPT !.op = "refresh", !.presented = t]
    <3>1. new \in Request
      BY <2>1, ArrivedIsRequest
    <3>2. req' = [req EXCEPT ![r] = new] /\ pc' = [pc EXCEPT ![r] = "throw"]
      BY <1>4, <2>1 DEF RefreshFind, Goto
    <3> HIDE DEF new
    <3> QED BY <1>4, <3>1, <3>2 DEF RefreshFind, TypeOK, Ready, InTransaction, Stored
  <2>2. CASE t \in Stored
    <3> DEFINE flag == tokens[t].owner \in suspended
               new == [NoRequest EXCEPT !.op = "refresh", !.presented = t, !.user = tokens[t].owner,
                         !.revoked = tokens[t].revoked, !.link = tokens[t].replacedBy,
                         !.wasSuspended = flag]
    <3>1. new \in Request
      <4>1. flag \in BOOLEAN
        OBVIOUS
      <4> HIDE DEF flag
      <4>2. /\ tokens[t].owner \in Users \cup {NoUser} /\ tokens[t].revoked \in BOOLEAN
            /\ tokens[t].replacedBy \in TokenIds \cup {NoToken}
            /\ t \in TokenIds \cup {NoToken}
        BY <2>2, StoredRowIsTyped DEF TypeOK
      <4> QED BY <4>1, <4>2 DEF NoRequest, Request
    <3>2. new.user \in Users /\ new.presented \in Stored
      BY <2>2, StoredRowIsTyped DEF NoRequest, TypeOK
    <3>3. req' = [req EXCEPT ![r] = new]
      BY <1>4, <2>2 DEF RefreshFind
    <3>4. \E place \in {"revokeFamily", "throw", "readUser"} : pc' = [pc EXCEPT ![r] = place]
      BY <1>4, <2>2 DEF RefreshFind, Goto
    <3> HIDE DEF new
    <3> QED BY <1>4, <3>1, <3>2, <3>3, <3>4 DEF RefreshFind, TypeOK, Ready, InTransaction, Stored
  <2> QED BY <2>1, <2>2
<1>5. ASSUME NEW r \in Requests, RefreshRevokeFamily(r)
      PROVE  TypeInv'
  <2> DEFINE rows == [t \in Family(req[r].user) |-> [tokens[t] EXCEPT !.revoked = TRUE]]
  <2>1. IsTable(rows)
    <3>1. \A t \in Family(req[r].user) : t \in TokenIds /\ [tokens[t] EXCEPT !.revoked = TRUE] \in Row
      BY StoredRowIsTyped DEF Family, TypeOK, Row
    <3> QED BY <3>1 DEF IsTable
  <2>2. DOMAIN writes' = Requests /\ \A q \in Requests : IsTable(writes'[q])
    BY <1>5, <2>1, WriteIsTyped DEF RefreshRevokeFamily, TypeOK
  <2> QED BY <1>5, <2>2 DEF RefreshRevokeFamily, TypeOK, Ready, Goto, InTransaction, Stored
<1>6. ASSUME NEW r \in Requests, RefreshReadUser(r)
      PROVE  TypeInv'
  BY <1>6 DEF RefreshReadUser, TypeOK, Ready, Goto, InTransaction, Stored
<1>7. ASSUME NEW r \in Requests, RefreshSaveRotated(r)
      PROVE  TypeInv'
  <2> PICK t \in Unused :
           /\ req' = [req EXCEPT ![r].fresh = t]
           /\ Write(r, [s \in {t} |-> NewToken(req[r].user, req[r].presented)])
    BY <1>7 DEF RefreshSaveRotated
  <2>1. req[r].user \in Users /\ req[r].presented \in TokenIds
    BY <1>7 DEF RefreshSaveRotated, Ready, TypeOK, IsTable, Stored
  <2>2. IsTable([s \in {t} |-> NewToken(req[r].user, req[r].presented)])
    BY <2>1 DEF IsTable, Row, Unused, NewToken
  <2>3. DOMAIN writes' = Requests /\ \A q \in Requests : IsTable(writes'[q])
    BY <2>2, WriteIsTyped DEF TypeOK
  <2>4. req' \in [Requests -> Request] /\ pc' = [pc EXCEPT ![r] = "saveStored"]
    BY <1>7 DEF RefreshSaveRotated, TypeOK, Request, Goto, Unused
  <2>5. Ready'
    BY <1>7, <2>4 DEF RefreshSaveRotated, Ready, TypeOK, Stored, Request
  <2> QED BY <1>7, <2>3, <2>4, <2>5 DEF RefreshSaveRotated, TypeOK, InTransaction
<1>8. ASSUME NEW r \in Requests, NEW revoked \in BOOLEAN, NEW link \in TokenIds \cup {NoToken},
             req[r].presented \in Stored, Update(r, revoked, link)
      PROVE  DOMAIN writes' = Requests /\ \A q \in Requests : IsTable(writes'[q])
  <2> DEFINE t == req[r].presented
             rows == [s \in {t} |-> [tokens[t] EXCEPT !.revoked = revoked, !.replacedBy = link]]
  <2>1. tokens[t] \in Row
    BY <1>8 DEF IsTable, Stored, TypeOK
  <2>2. [tokens[t] EXCEPT !.revoked = revoked, !.replacedBy = link] \in Row
    BY <1>8, <2>1 DEF Row
  <2>3. t \in TokenIds
    BY <1>8 DEF IsTable, Stored, TypeOK
  <2>4. IsTable(rows)
    BY <2>2, <2>3 DEF IsTable
  <2>5. Write(r, rows)
    BY <1>8 DEF Update
  <2> QED BY <2>4, <2>5, WriteIsTyped DEF TypeOK
<1>9. ASSUME NEW r \in Requests, RefreshSaveStored(r)
      PROVE  TypeInv'
  <2>1. req[r].presented \in Stored /\ req[r].fresh \in TokenIds \cup {NoToken}
    BY <1>9 DEF RefreshSaveStored, Ready, TypeOK, Request
  <2>2. DOMAIN writes' = Requests /\ \A q \in Requests : IsTable(writes'[q])
    BY <1>9, <2>1, <1>8 DEF RefreshSaveStored
  <2>3. req' \in [Requests -> Request]
    <3>1. [req[r] EXCEPT !.revoked = TRUE, !.link = req[r].fresh] \in Request
      BY <2>1 DEF TypeOK, Request
    <3>2. req' = [req EXCEPT ![r] = [req[r] EXCEPT !.revoked = TRUE, !.link = req[r].fresh]]
      BY <1>9 DEF RefreshSaveStored, TypeOK
    <3> QED BY <3>1, <3>2 DEF TypeOK
  <2> QED BY <1>9, <2>2, <2>3 DEF RefreshSaveStored, TypeOK, Ready, Goto, InTransaction, Stored
<1>10. ASSUME NEW r \in Requests, NEW t \in Stored \cup {NoToken}, LogoutFind(r, t)
       PROVE  TypeInv'
  <2>1. CASE t \notin Stored
    <3> DEFINE new == [NoRequest EXCEPT !.op = "logout", !.presented = t]
    <3>1. new \in Request
      BY <2>1, ArrivedIsRequest
    <3>2. req' = [req EXCEPT ![r] = new] /\ pc' = [pc EXCEPT ![r] = "commit"]
      BY <1>10, <2>1 DEF LogoutFind, Goto
    <3> HIDE DEF new
    <3> QED BY <1>10, <3>1, <3>2 DEF LogoutFind, TypeOK, Ready, InTransaction, Stored
  <2>2. CASE t \in Stored
    <3> DEFINE new == [NoRequest EXCEPT !.op = "logout", !.presented = t, !.user = tokens[t].owner,
                         !.revoked = tokens[t].revoked, !.link = tokens[t].replacedBy]
    <3>1. new \in Request
      BY <2>2, StoredRowIsTyped, ArrivedIsRequest DEF TypeOK
    <3>2. new.user \in Users /\ new.presented \in Stored
      BY <2>2, StoredRowIsTyped DEF NoRequest, TypeOK
    <3>3. req' = [req EXCEPT ![r] = new] /\ pc' = [pc EXCEPT ![r] = "logoutSave"]
      BY <1>10, <2>2 DEF LogoutFind, Goto
    <3> HIDE DEF new
    <3> QED BY <1>10, <3>1, <3>2, <3>3 DEF LogoutFind, TypeOK, Ready, InTransaction, Stored
  <2> QED BY <2>1, <2>2
<1>11. ASSUME NEW r \in Requests, LogoutSave(r)
       PROVE  TypeInv'
  <2>1. /\ req[r].presented \in Stored
        /\ (IF req[r].revoked THEN req[r].link ELSE NoToken) \in TokenIds \cup {NoToken}
    BY <1>11 DEF LogoutSave, Ready, TypeOK, Request
  <2>2. DOMAIN writes' = Requests /\ \A q \in Requests : IsTable(writes'[q])
    BY <1>11, <2>1, <1>8 DEF LogoutSave
  <2> QED BY <1>11, <2>2 DEF LogoutSave, TypeOK, Ready, Goto, InTransaction, Stored
<1>12. ASSUME NEW r \in Requests, Commit(r)
       PROVE  TypeInv'
  <2>1. IsTable(tokens') /\ Stored \subseteq Stored'
    <3>1. IsTable(writes[r]) /\ IsTable(tokens) /\ tokens' = Written(writes[r], tokens)
      BY <1>12 DEF Commit, TypeOK
    <3> QED BY <3>1, WrittenIsTable DEF Stored
  <2>2. DOMAIN writes' = Requests /\ \A q \in Requests : IsTable(writes'[q])
    BY <1>12, NoRowsIsTable DEF Commit, TypeOK
  <2> QED BY <1>12, <2>1, <2>2 DEF Commit, TypeOK, Ready, Goto, InTransaction
<1>13. ASSUME NEW r \in Requests, Rollback(r)
       PROVE  TypeInv'
  <2>1. DOMAIN writes' = Requests /\ \A q \in Requests : IsTable(writes'[q])
    BY <1>13, NoRowsIsTable DEF Rollback, TypeOK
  <2> QED BY <1>13, <2>1 DEF Rollback, TypeOK, Ready, Goto, InTransaction, Stored
<1>14. ASSUME NEW r \in Requests, Finish(r)
       PROVE  TypeInv'
  BY <1>14 DEF Finish, TypeOK, Ready, Goto, Request, NoRequest, InTransaction, Stored
<1>15. ASSUME NEW t \in TokenIds, Expire(t)
       PROVE  TypeInv'
  BY <1>15 DEF Expire, TypeOK, Ready, Stored
<1>16. ASSUME NEW u \in Users, Suspend(u)
       PROVE  TypeInv'
  BY <1>16 DEF Suspend, TypeOK, Ready, Stored
<1> QED
  BY <1>1, <1>2, <1>3, <1>4, <1>5, <1>6, <1>7, <1>9, <1>10, <1>11, <1>12, <1>13, <1>14, <1>15, <1>16
     DEF Next, Arrive, Serve, Throw, Fault

\* The strengthened type invariant holds in every behaviour.
LEMMA TypeInvariant == Spec => []TypeInv
BY TypeInvInit, TypeInvStep, PTL DEF Spec

\* Whatever requests are served together, the table, the open transactions and
\* the requests' variables keep their types: no row without an owner is ever
\* written.
THEOREM TypeCorrect == Spec => []TypeOK
BY TypeInvariant, PTL DEF TypeInv
=============================================================================
