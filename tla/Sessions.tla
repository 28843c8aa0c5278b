------------------------------ MODULE Sessions ------------------------------
(***************************************************************************)
(* Refresh-token sessions: the use cases Login, RefreshAccessToken and     *)
(* Logout over the table refresh_tokens.  Each use case runs inside one    *)
(* interactive transaction (TransactionDecorator), at PostgreSQL's default *)
(* isolation READ COMMITTED.  Every await between two repository calls is  *)
(* a point where another request may run, so each repository call is an    *)
(* action of its own.                                                      *)
(*                                                                         *)
(* A transaction's writes stay in writes[r] until Commit and hold the      *)
(* locks of the rows they touch; Throw and Fault drop them.  A request     *)
(* whose COMMIT was executed may fail nevertheless.                        *)
(***************************************************************************)
EXTENDS Naturals, FiniteSets

CONSTANTS
  Users,          \* the rows of the table users
  TokenIds,       \* the ids (and hashes) a RefreshToken can get
  Requests,       \* the slots of requests being served at the same time
  NoUser,         \* no user read yet
  NoToken,        \* replacedByTokenId when it is null; as a presented token,
                  \* a string whose hash no row has
  SingleFlight    \* TRUE: no token is presented by two requests at once

ASSUME NoTokenAssumption == NoToken \notin TokenIds

ASSUME SingleFlightAssumption == SingleFlight \in BOOLEAN

VARIABLES
  tokens,     \* committed rows: a function from the stored ids to Row
  expired,    \* ids whose expiresAt the clock has passed
  suspended,  \* users whose status is not active
  pc,         \* where each request stands
  req,        \* the local variables of each request
  writes      \* the rows each open transaction has written, not committed

vars == <<tokens, expired, suspended, pc, req, writes>>

\* revokedAt is abstracted to "is it set".  origin is a history field, no
\* column: the token whose refresh issued this one.
Row == [owner : Users, revoked : BOOLEAN,
        replacedBy : TokenIds \cup {NoToken}, origin : TokenIds \cup {NoToken}]

IsTable(f) == DOMAIN f \subseteq TokenIds /\ f \in [DOMAIN f -> Row]

NoRows == [t \in {} |-> NoToken]

\* op is the use case, presented the token of the request, user the owner it
\* read, fresh the id it generated; revoked and link are the revokedAt and
\* replacedByTokenId of the RefreshToken object it holds in memory;
\* wasSuspended is history: the user was suspended at the request's first read.
Request == [op : {"none", "login", "refresh", "logout"},
            presented : TokenIds \cup {NoToken}, user : Users \cup {NoUser},
            fresh : TokenIds \cup {NoToken}, revoked : BOOLEAN,
            link : TokenIds \cup {NoToken}, wasSuspended : BOOLEAN]

NoRequest == [op |-> "none", presented |-> NoToken, user |-> NoUser,
              fresh |-> NoToken, revoked |-> FALSE, link |-> NoToken,
              wasSuspended |-> FALSE]

\* The control points inside a transaction: the next repository call, the
\* commit of the use case that returned, or the throw that rolls it back.
InTransaction == {"loginSave", "revokeFamily", "readUser", "saveRotated",
                  "saveStored", "logoutSave", "commit", "throw"}

TypeOK ==
  /\ IsTable(tokens)
  /\ expired \subseteq TokenIds
  /\ suspended \subseteq Users
  /\ pc \in [Requests -> InTransaction \cup {"idle", "ok", "failed"}]
  /\ req \in [Requests -> Request]
  /\ DOMAIN writes = Requests /\ \A r \in Requests : IsTable(writes[r])

Init ==
  /\ tokens = NoRows
  /\ expired = {}
  /\ suspended = {}
  /\ pc = [r \in Requests |-> "idle"]
  /\ req = [r \in Requests |-> NoRequest]
  /\ writes = [r \in Requests |-> NoRows]

-----------------------------------------------------------------------------
(* The store: overlay of uncommitted writes, row locks, fresh ids *)

Stored == DOMAIN tokens

\* table g after the rows of f have been written to it
Written(f, g) ==
  [t \in DOMAIN f \cup DOMAIN g |-> IF t \in DOMAIN f THEN f[t] ELSE g[t]]

\* No other open transaction has written row t.
Unlocked(r, t) == \A q \in Requests \ {r} : t \notin DOMAIN writes[q]

\* Random ids: neither stored nor generated by a request being served.
Unused == TokenIds \ (Stored \cup {req[q].fresh : q \in Requests})

\* Bound: a request that will generate an id arrives only while TokenIds has
\* one left for it and for every such request already being served.
IdLeft == Cardinality(Unused) >
            Cardinality({q \in Requests : pc[q] \in {"loginSave", "readUser", "saveRotated"}})

Write(r, rows) == writes' = [writes EXCEPT ![r] = Written(rows, @)]

\* save() of the RefreshToken object r holds, for a row that is stored: the
\* update branch of the upsert sets revokedAt and replacedByTokenId only.
Update(r, revoked, link) ==
  LET t == req[r].presented
  IN  /\ Unlocked(r, t)
      /\ Write(r, [s \in {t} |-> [tokens[t] EXCEPT !.revoked = revoked,
                                                   !.replacedBy = link]])

\* RefreshToken.issue: neither revoked nor replaced.
NewToken(user, origin) ==
  [owner |-> user, revoked |-> FALSE, replacedBy |-> NoToken, origin |-> origin]

Goto(r, place) == pc' = [pc EXCEPT ![r] = place]

\* The client environment: with SingleFlight a token is in one request only.
MayPresent(r, t) ==
  SingleFlight /\ t \in Stored => \A q \in Requests \ {r} : req[q].presented # t

-----------------------------------------------------------------------------
(* LoginUseCase *)

LoginReadUser(r, u, passwordValid) ==
  /\ pc[r] = "idle"
  /\ req' = [req EXCEPT ![r] = [NoRequest EXCEPT !.op = "login", !.user = u,
                                  !.wasSuspended = u \in suspended]]
  /\ IF u \in suspended \/ ~passwordValid
       THEN Goto(r, "throw") ELSE IdLeft /\ Goto(r, "loginSave")
  /\ UNCHANGED <<tokens, expired, suspended, writes>>

LoginSave(r) ==
  /\ pc[r] = "loginSave"
  /\ \E t \in Unused :
       /\ req' = [req EXCEPT ![r].fresh = t]
       /\ Write(r, [s \in {t} |-> NewToken(req[r].user, NoToken)])
  /\ Goto(r, "commit")
  /\ UNCHANGED <<tokens, expired, suspended>>

-----------------------------------------------------------------------------
(* RefreshAccessTokenUseCase *)

\* Mutant: the owner of the stored token is not taken over.
RefreshFindNoOwner(r, t) ==
  /\ pc[r] = "idle"
  /\ MayPresent(r, t)
  /\ t \in Stored /\ ~tokens[t].revoked /\ t \notin expired /\ IdLeft
  /\ req' = [req EXCEPT ![r] = [NoRequest EXCEPT !.op = "refresh", !.presented = t]]
  /\ Goto(r, "readUser")
  /\ UNCHANGED <<tokens, expired, suspended, writes>>

\* findByHash and the three early exits that follow it without an await.
RefreshFind(r, t) ==
  /\ pc[r] = "idle"
  /\ MayPresent(r, t)
  /\ IF t \notin Stored
       THEN /\ req' = [req EXCEPT ![r] = [NoRequest EXCEPT !.op = "refresh", !.presented = t]]
            /\ Goto(r, "throw")
       ELSE /\ req' = [req EXCEPT ![r] =
                 [NoRequest EXCEPT !.op = "refresh", !.presented = t, !.user = tokens[t].owner,
                    !.revoked = tokens[t].revoked, !.link = tokens[t].replacedBy,
                    !.wasSuspended = tokens[t].owner \in suspended]]
            /\ \/ tokens[t].revoked /\ Goto(r, "revokeFamily")
               \/ ~tokens[t].revoked /\ t \in expired /\ Goto(r, "throw")
               \/ ~tokens[t].revoked /\ t \notin expired /\ IdLeft /\ Goto(r, "readUser")
  /\ UNCHANGED <<tokens, expired, suspended, writes>>

\* Reuse of a revoked token: revokeAllForUser, one UPDATE of the user's rows
\* with revokedAt null, and then the use case throws.
Family(u) == {t \in Stored : tokens[t].owner = u /\ ~tokens[t].revoked}

RefreshRevokeFamily(r) ==
  /\ pc[r] = "revokeFamily"
  /\ \A t \in Family(req[r].user) : Unlocked(r, t)
  /\ Write(r, [t \in Family(req[r].user) |-> [tokens[t] EXCEPT !.revoked = TRUE]])
  /\ Goto(r, "throw")
  /\ UNCHANGED <<tokens, expired, suspended, req>>

\* Mutant: the user is not read again.
RefreshReadUserSkipped(r) ==
  /\ pc[r] = "readUser"
  /\ Goto(r, "saveRotated")
  /\ UNCHANGED <<tokens, expired, suspended, req, writes>>

RefreshReadUser(r) ==
  /\ pc[r] = "readUser"
  /\ IF req[r].user \in suspended THEN Goto(r, "throw") ELSE Goto(r, "saveRotated")
  /\ UNCHANGED <<tokens, expired, suspended, req, writes>>

RefreshSaveRotated(r) ==
  /\ pc[r] = "saveRotated"
  /\ \E t \in Unused :
       /\ req' = [req EXCEPT ![r].fresh = t]
       /\ Write(r, [s \in {t} |-> NewToken(req[r].user, req[r].presented)])
  /\ Goto(r, "saveStored")
  /\ UNCHANGED <<tokens, expired, suspended>>

\* Mutant: the link is set, revokedAt is not.
RefreshSaveStoredLinkOnly(r) ==
  /\ pc[r] = "saveStored"
  /\ req' = [req EXCEPT ![r].link = req[r].fresh]
  /\ Update(r, FALSE, req[r].fresh)
  /\ Goto(r, "commit")
  /\ UNCHANGED <<tokens, expired, suspended>>

\* stored.revoke(now, newTokenId) changes the object read by RefreshFind, which
\* was not revoked then; save writes it over whatever the row holds by now.
RefreshSaveStored(r) ==
  /\ pc[r] = "saveStored"
  /\ req' = [req EXCEPT ![r].revoked = TRUE, ![r].link = req[r].fresh]
  /\ Update(r, TRUE, req[r].fresh)
  /\ Goto(r, "commit")
  /\ UNCHANGED <<tokens, expired, suspended>>

-----------------------------------------------------------------------------
(* LogoutUseCase *)

\* An unknown token is a silent success.
LogoutFind(r, t) ==
  /\ pc[r] = "idle"
  /\ MayPresent(r, t)
  /\ IF t \notin Stored
       THEN /\ req' = [req EXCEPT ![r] = [NoRequest EXCEPT !.op = "logout", !.presented = t]]
            /\ Goto(r, "commit")
       ELSE /\ req' = [req EXCEPT ![r] =
                 [NoRequest EXCEPT !.op = "logout", !.presented = t, !.user = tokens[t].owner,
                    !.revoked = tokens[t].revoked, !.link = tokens[t].replacedBy]]
            /\ Goto(r, "logoutSave")
  /\ UNCHANGED <<tokens, expired, suspended, writes>>

\* Mutant: logout saves the object it read without revoking it.
LogoutSaveAsRead(r) ==
  /\ pc[r] = "logoutSave"
  /\ Update(r, req[r].revoked, req[r].link)
  /\ Goto(r, "commit")
  /\ UNCHANGED <<tokens, expired, suspended, req>>

\* Mutant: revoke lacks its early return for an object already revoked.
LogoutSaveUnlinked(r) ==
  /\ pc[r] = "logoutSave"
  /\ Update(r, TRUE, NoToken)
  /\ Goto(r, "commit")
  /\ UNCHANGED <<tokens, expired, suspended, req>>

\* stored.revoke(now) leaves an object already revoked as it is.
LogoutSave(r) ==
  /\ pc[r] = "logoutSave"
  /\ Update(r, TRUE, IF req[r].revoked THEN req[r].link ELSE NoToken)
  /\ Goto(r, "commit")
  /\ UNCHANGED <<tokens, expired, suspended, req>>

-----------------------------------------------------------------------------
(* PrismaUnitOfWork: the use case returned, or it threw, or the database,  *)
(* the connection or the process failed under it                           *)

\* Mutant: the transaction stays open after the response.
CommitLeftOpen(r) ==
  /\ pc[r] = "commit"
  /\ tokens' = Written(writes[r], tokens)
  /\ Goto(r, "ok")
  /\ UNCHANGED <<expired, suspended, req, writes>>

\* The rows become visible; the client is told so, or of a failure if the
\* connection is lost before the acknowledgement of COMMIT arrives.
Commit(r) ==
  /\ pc[r] = "commit"
  /\ tokens' = Written(writes[r], tokens)
  /\ writes' = [writes EXCEPT ![r] = NoRows]
  /\ \E outcome \in {"ok", "failed"} : Goto(r, outcome)
  /\ UNCHANGED <<expired, suspended, req>>

\* Mutant: the saves of a failing use case are not in one transaction.
RollbackNothing(r) ==
  /\ tokens' = Written(writes[r], tokens)
  /\ writes' = [writes EXCEPT ![r] = NoRows]
  /\ Goto(r, "failed")
  /\ UNCHANGED <<expired, suspended, req>>

Rollback(r) ==
  /\ writes' = [writes EXCEPT ![r] = NoRows]
  /\ Goto(r, "failed")
  /\ UNCHANGED <<tokens, expired, suspended, req>>

Throw(r) == pc[r] = "throw" /\ Rollback(r)

Fault(r) == pc[r] \in InTransaction \ {"throw"} /\ Rollback(r)

\* The response is out and the slot serves the next request.
Finish(r) ==
  /\ pc[r] \in {"ok", "failed"}
  /\ Goto(r, "idle")
  /\ req' = [req EXCEPT ![r] = NoRequest]
  /\ UNCHANGED <<tokens, expired, suspended, writes>>

-----------------------------------------------------------------------------
(* The environment: the clock, and an operator changing users.status *)

Expire(t) ==
  /\ t \in Stored \ expired
  /\ expired' = expired \cup {t}
  /\ UNCHANGED <<tokens, suspended, pc, req, writes>>

Suspend(u) ==
  /\ u \notin suspended
  /\ suspended' = suspended \cup {u}
  /\ UNCHANGED <<tokens, expired, pc, req, writes>>

Arrive(r) ==
  \/ \E u \in Users, passwordValid \in BOOLEAN : LoginReadUser(r, u, passwordValid)
  \/ \E t \in Stored \cup {NoToken} : RefreshFind(r, t) \/ LogoutFind(r, t)

\* The steps a request takes on its own once it has arrived.
Serve(r) ==
  \/ LoginSave(r)
  \/ RefreshRevokeFamily(r) \/ RefreshReadUser(r)
  \/ RefreshSaveRotated(r) \/ RefreshSaveStored(r)
  \/ LogoutSave(r)
  \/ Commit(r) \/ Throw(r)

Next ==
  \/ \E r \in Requests : Arrive(r) \/ Serve(r) \/ Fault(r) \/ Finish(r)
  \/ \E t \in TokenIds : Expire(t)
  \/ \E u \in Users : Suspend(u)

Spec == Init /\ [][Next]_vars

\* The event loop and the database keep serving every request that arrived.
\* Strong fairness, for PostgreSQL grants a row lock in the order in which it
\* was asked for: a waiting request is not overtaken for ever.
FairSpec == Spec /\ \A r \in Requests : SF_vars(Serve(r))

-----------------------------------------------------------------------------
(* Properties *)

\* A stored link always leads to a stored successor of the same user that the
\* refresh of this very token issued, and only a revoked token has one: the two
\* saves of a rotation are never seen one without the other.
RotationLinked ==
  \A t \in Stored : tokens[t].replacedBy # NoToken =>
    /\ tokens[t].revoked
    /\ tokens[t].replacedBy \in Stored
    /\ tokens[tokens[t].replacedBy].owner = tokens[t].owner
    /\ tokens[tokens[t].replacedBy].origin = t

\* All that the use case of request r promises is in the table: its new token,
\* and the revocation of the one it was given.
TookEffect(r) ==
  /\ req[r].op \in {"login", "refresh"} =>
       req[r].fresh \in Stored /\ tokens[req[r].fresh].owner = req[r].user
  /\ req[r].op \in {"refresh", "logout"} /\ req[r].user # NoUser =>
       req[r].presented \in Stored /\ tokens[req[r].presented].revoked

\* What a response tells the client is what the table holds, whatever else was
\* served meanwhile: a request that succeeded took effect, and one that failed
\* has done all or nothing.  If a failed refresh left its new token behind, it
\* had made both of its saves and only the acknowledgement of COMMIT was lost.
ResponseMatchesTable ==
  \A r \in Requests :
    /\ pc[r] = "ok" => TookEffect(r)
    /\ pc[r] = "failed" /\ req[r].fresh \in Stored =>
         /\ TookEffect(r)
         /\ req[r].op = "refresh" => req[r].link = req[r].fresh

\* A user already suspended when a login or a refresh first looked gets no
\* token from it, neither an answer nor a row: the refresh re-reads the user
\* after it found the token.
SuspendedGetsNothing ==
  \A r \in Requests : req[r].wasSuspended => pc[r] # "ok" /\ req[r].fresh \notin Stored

\* No save of a token object read earlier ever brings a revoked token back:
\* logout and rotation overwrite the row with a stale copy, which must be
\* revoked first.
RevocationFinal ==
  [][\A t \in Stored :
       /\ t \in Stored'
       /\ tokens[t].revoked => tokens'[t].revoked]_vars

\* A token is exchanged at most once: no two stored tokens were issued by
\* refreshes of the same one.
OneSuccessor ==
  \A s, t \in Stored : tokens[s].origin = tokens[t].origin /\ s # t =>
    tokens[s].origin = NoToken

\* The rotation link, once stored, is the audit trail of the session and is
\* neither erased nor redirected.
LinkFinal ==
  [][\A t \in Stored : tokens[t].replacedBy # NoToken =>
       tokens'[t].replacedBy = tokens[t].replacedBy]_vars

\* The stored tokens are those issued, the ones not revoked carry a session.
Register == INSTANCE SessionRegister
              WITH issued <- [t \in Stored |-> tokens[t].origin],
                   live <- {t \in Stored : ~tokens[t].revoked}

\* Rotation implements its promise: every change of the table opens, moves or
\* closes exactly one session.
ImplementsRegister == Register!Spec

\* The comment of the use case, "revoke the whole family for that user as a
\* theft response": once the reuse of a revoked token has been answered, the
\* user has no token left that is not revoked.
ReuseRevokesFamily ==
  [][\A r \in Requests : Throw(r) /\ req[r].op = "refresh" /\ req[r].revoked =>
       \A t \in Stored : tokens[t].owner = req[r].user => tokens'[t].revoked]_vars

\* Every request that arrived is answered; in particular the requests waiting
\* for each other's row locks never all wait for ever.
EveryRequestAnswered ==
  \A r \in Requests : pc[r] \in InTransaction ~> pc[r] \in {"ok", "failed"}
=============================================================================
