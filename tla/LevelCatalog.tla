---------------------------- MODULE LevelCatalog ----------------------------
(***************************************************************************)
(* The level catalog: create, update, publish and archive by admins, the   *)
(* lists, and the seeding script, over the table levels.                   *)
(*                                                                         *)
(* Each mutation runs in an interactive transaction of its own.  It reads  *)
(* the level, changes the object in memory and saves the whole row, which  *)
(* no version protects: what others committed in between is overwritten.   *)
(* Seeding upserts one row after the other, without a transaction.         *)
(***************************************************************************)
EXTENDS LevelGeometry

CONSTANTS
  LevelIds,   \* bound: the level ids there will ever be
  Authored,   \* the files under level-json: a payload for some ids
  Payloads,   \* the bodies of create and update requests
  Requests,   \* the slots of requests being served at the same time
  NoLevel, NoRow

IsBody(body) == body.arrows \in Seq(Arrow) /\ AttemptsOf(body.attempts) \in Int

Frames == {body.frame : body \in Payloads} \cup {Authored[id].frame : id \in DOMAIN Authored}

Statuses == {"DRAFT", "PUBLISHED", "ARCHIVED"}

LevelRow == [status : Statuses, arrows : Seq(Arrow), attempts : Int, frame : Frames]

ASSUME BodiesAssumption ==
  /\ DOMAIN Authored \subseteq LevelIds
  /\ \A body \in Payloads : IsBody(body)
  /\ \A id \in DOMAIN Authored : IsBody(Authored[id])

ASSUME NoLevelAssumption == NoLevel \notin LevelIds /\ NoRow \notin LevelRow

VARIABLES
  table,     \* the committed rows
  writes,    \* per request: the row its open transaction has written
  pc,        \* where each request stands
  req,       \* its local variables
  seeding    \* the ids the running seed has still to upsert

vars == <<table, writes, pc, req, seeding>>

Row(status, arrows, attempts, frame) ==
  [status |-> status, arrows |-> arrows, attempts |-> attempts, frame |-> frame]

\* copy is the object in memory; stale is history: another commit since it was read
NoRequest == [op |-> "none", id |-> NoLevel, payload |-> NoRow, copy |-> NoRow, stale |-> FALSE]

Mutations == {"update", "publish", "archive"}

Serving == {"create", "find", "save", "commit", "list"}

Stored == {id \in LevelIds : table[id] # NoRow}

Init ==
  /\ table = [id \in LevelIds |-> NoRow]
  /\ writes = [r \in Requests |-> NoRow]
  /\ pc = [r \in Requests |-> "idle"]
  /\ req = [r \in Requests |-> NoRequest]
  /\ seeding = {}

-----------------------------------------------------------------------------
(* The aggregate and its row *)

\* The draft of a request: positions without z, the default for attempts.
Draft(payload) ==
  Row("DRAFT", Flat(payload.arrows), AttemptsOf(payload.attempts), payload.frame)

\* recordToLevel: every value object is built again from the row.
Readable(row) == Constructible(row.arrows, row.attempts, row.frame)

\* Mutant: the mask is not asserted for a new definition.
AcceptsUnmasked(level, arrows, attempts) ==
  /\ level.status = "DRAFT"
  /\ \A i \in DOMAIN arrows : ValidArrow(arrows[i])
  /\ ValidDefinition(arrows, attempts)

\* updateDefinition takes place on a draft, inside its mask.
Accepts(level, arrows, attempts) ==
  /\ level.status = "DRAFT"
  /\ \A i \in DOMAIN arrows : ValidArrow(arrows[i])
  /\ ValidDefinition(arrows, attempts)
  /\ Within(arrows, ShapeOf(level.frame))

MayPublish(level) == level.status = "DRAFT" /\ IsSolvable(level.arrows)

\* Mutant: a draft may be archived too.
MayArchiveAny(level) == level.status # "ARCHIVED"

MayArchive(level) == level.status = "PUBLISHED"

-----------------------------------------------------------------------------
(* Requests *)

Goto(r, place) == pc' = [pc EXCEPT ![r] = place]

\* A row is locked by the open transaction that has written it.
Unlocked(r, id) == \A q \in Requests \ {r} : writes[q] # NoRow => req[q].id # id

\* Everybody else who works on a copy of this level has a stale one now.
Outdated(id, r) ==
  [q \in Requests |-> IF q # r /\ req[q].id = id /\ pc[q] = "save"
                      THEN [req[q] EXCEPT !.stale = TRUE] ELSE req[q]]

\* The token is verified, the role has to be ADMIN, fields have to be given:
\* 401, 403 or 400 otherwise.
ArriveRefused(r) ==
  /\ pc[r] = "idle"
  /\ Goto(r, "failed")
  /\ UNCHANGED <<table, writes, req, seeding>>

\* CreateLevelUseCase up to its save; an invalid body is answered at once.
ArriveCreate(r, payload) ==
  /\ pc[r] = "idle"
  /\ IF Readable(Draft(payload))
       THEN /\ req' = [req EXCEPT ![r] = [NoRequest EXCEPT !.op = "create", !.copy = Draft(payload)]]
            /\ Goto(r, "create")
       ELSE Goto(r, "failed") /\ UNCHANGED req
  /\ UNCHANGED <<table, writes, seeding>>

ArriveMutation(r, op, id, payload) ==
  /\ pc[r] = "idle"
  /\ op = "update" <=> payload # NoRow
  /\ req' = [req EXCEPT ![r] = [NoRequest EXCEPT !.op = op, !.id = id, !.payload = payload]]
  /\ Goto(r, "find")
  /\ UNCHANGED <<table, writes, seeding>>

\* getLevel, getLevels and the admins' list.
ArriveRead(r, op, id) ==
  /\ pc[r] = "idle"
  /\ op = "get" <=> id # NoLevel
  /\ req' = [req EXCEPT ![r] = [NoRequest EXCEPT !.op = op, !.id = id]]
  /\ Goto(r, "list")
  /\ UNCHANGED <<table, writes, seeding>>

\* The rows a read selects.  A level is found by its id whatever its status; an
\* admin's filter by status selects fewer.
Selected(r) ==
  CASE req[r].op = "get"       -> {req[r].id} \cap Stored
    [] req[r].op = "listAdmin" -> Stored
    [] req[r].op = "list"      -> {id \in Stored : table[id].status = "PUBLISHED"}

\* One row that cannot be mapped fails the whole list.
Read(r) ==
  /\ pc[r] = "list"
  /\ Goto(r, IF (req[r].op = "get" => Selected(r) # {}) /\ \A id \in Selected(r) : Readable(table[id])
             THEN "ok" ELSE "failed")
  /\ UNCHANGED <<table, writes, req, seeding>>

\* The insert of a new draft, under a generated id.
CreateSave(r) ==
  /\ pc[r] = "create"
  /\ \E id \in LevelIds \ (Stored \cup DOMAIN Authored) :
       /\ \A q \in Requests : writes[q] # NoRow => req[q].id # id
       /\ req' = [req EXCEPT ![r].id = id]
  /\ writes' = [writes EXCEPT ![r] = req[r].copy]
  /\ Goto(r, "commit")
  /\ UNCHANGED <<table, seeding>>

\* What the aggregate becomes in memory; its own exceptions are answered.
Transition(level, op, payload) ==
  CASE op = "update"  -> [level EXCEPT !.arrows = Flat(payload.arrows),
                                       !.attempts = AttemptsOf(payload.attempts)]
    [] op = "publish" -> [level EXCEPT !.status = "PUBLISHED"]
    [] op = "archive" -> [level EXCEPT !.status = "ARCHIVED"]

Allowed(level, op, payload) ==
  CASE op = "update"  -> Accepts(level, Flat(payload.arrows), payload.attempts)
    [] op = "publish" -> MayPublish(level)
    [] op = "archive" -> MayArchive(level)

\* findById and the domain's transition: 404, 500 for a corrupt row, 409 or 422.
Find(r) ==
  /\ pc[r] = "find"
  /\ LET row == table[req[r].id]
     IN  IF row # NoRow /\ Readable(row) /\ Allowed(row, req[r].op, req[r].payload)
           THEN /\ req' = [req EXCEPT ![r].copy = Transition(row, req[r].op, req[r].payload)]
                /\ Goto(r, "save")
           ELSE Goto(r, "failed") /\ UNCHANGED req
  /\ UNCHANGED <<table, writes, seeding>>

\* Mutant: a save does not wait for the row's lock.
SaveUnlocked(r) ==
  /\ pc[r] = "save"
  /\ writes' = [writes EXCEPT ![r] = req[r].copy]
  /\ Goto(r, "commit")
  /\ UNCHANGED <<table, req, seeding>>

\* The upsert of the whole row; it waits for the row's lock, not for its value.
Save(r) ==
  /\ pc[r] = "save" /\ Unlocked(r, req[r].id)
  /\ writes' = [writes EXCEPT ![r] = req[r].copy]
  /\ Goto(r, "commit")
  /\ UNCHANGED <<table, req, seeding>>

\* Mutant: publication writes the status only.
CommitStatusOnly(r) ==
  /\ pc[r] = "commit"
  /\ table' = [table EXCEPT ![req[r].id] =
                  IF req[r].op = "publish" THEN [@ EXCEPT !.status = "PUBLISHED"] ELSE writes[r]]
  /\ writes' = [writes EXCEPT ![r] = NoRow]
  /\ req' = Outdated(req[r].id, r)
  /\ Goto(r, "ok")
  /\ UNCHANGED seeding

\* The row becomes visible; the admin may be told of a failure nevertheless, if
\* the acknowledgement of COMMIT is lost.
Commit(r) ==
  /\ pc[r] = "commit"
  /\ table' = [table EXCEPT ![req[r].id] = writes[r]]
  /\ writes' = [writes EXCEPT ![r] = NoRow]
  /\ req' = Outdated(req[r].id, r)
  /\ \E outcome \in {"ok", "failed"} : Goto(r, outcome)
  /\ UNCHANGED seeding

\* A statement fails, the connection or the process is lost: rolled back.
Fault(r) ==
  /\ pc[r] \in Serving
  /\ writes' = [writes EXCEPT ![r] = NoRow]
  /\ Goto(r, "failed")
  /\ UNCHANGED <<table, req, seeding>>

Finish(r) ==
  /\ pc[r] \in {"ok", "failed"}
  /\ req' = [req EXCEPT ![r] = NoRequest]
  /\ Goto(r, "idle")
  /\ UNCHANGED <<table, writes, seeding>>

-----------------------------------------------------------------------------
(* Seeding *)

AuthoredRow(id) ==
  Row("PUBLISHED", Authored[id].arrows, AttemptsOf(Authored[id].attempts), Authored[id].frame)

\* loadAuthoredLevels: a file that does not validate stops the seed before it
\* writes anything.
SeedStart ==
  /\ seeding = {}
  /\ \A id \in DOMAIN Authored : Readable(AuthoredRow(id)) /\ IsSolvable(AuthoredRow(id).arrows)
  /\ seeding' = DOMAIN Authored
  /\ UNCHANGED <<table, writes, pc, req>>

\* One upsert, which commits by itself.
SeedUpsert(id) ==
  /\ id \in seeding
  /\ \A q \in Requests : writes[q] # NoRow => req[q].id # id
  /\ table' = [table EXCEPT ![id] = AuthoredRow(id)]
  /\ req' = [q \in Requests |-> IF req[q].id = id /\ pc[q] = "save"
                                THEN [req[q] EXCEPT !.stale = TRUE] ELSE req[q]]
  /\ seeding' = seeding \ {id}
  /\ UNCHANGED <<writes, pc>>

SeedFault ==
  /\ seeding # {}
  /\ seeding' = {}
  /\ UNCHANGED <<table, writes, pc, req>>

-----------------------------------------------------------------------------
Arrive(r) ==
  \/ ArriveRefused(r)
  \/ \E payload \in Payloads :
       ArriveCreate(r, payload) \/ \E id \in LevelIds : ArriveMutation(r, "update", id, payload)
  \/ \E id \in LevelIds, op \in {"publish", "archive"} : ArriveMutation(r, op, id, NoRow)
  \/ \E id \in LevelIds \cup {NoLevel}, op \in {"get", "list", "listAdmin"} : ArriveRead(r, op, id)

Serve(r) == CreateSave(r) \/ Find(r) \/ Save(r) \/ Commit(r) \/ Read(r)

Next ==
  \/ \E r \in Requests : Arrive(r) \/ Serve(r) \/ Fault(r) \/ Finish(r)
  \/ SeedStart \/ (\E id \in LevelIds : SeedUpsert(id)) \/ SeedFault

Spec == Init /\ [][Next]_vars

-----------------------------------------------------------------------------
(* Properties *)

\* Table, open transactions and copies hold rows; an open transaction has
\* written the row of one level, and no two of them the same.
TypeOK ==
  /\ \A id \in Stored : table[id] \in LevelRow
  /\ \A r \in Requests :
       /\ writes[r] # NoRow => writes[r] \in LevelRow /\ pc[r] = "commit" /\ req[r].id \in LevelIds
       /\ pc[r] = "commit" => writes[r] = req[r].copy
       /\ pc[r] = "commit" => Unlocked(r, req[r].id)
  /\ seeding \subseteq DOMAIN Authored

\* Whatever admins and seeds do to a level at the same time, what players can be
\* given was found playable: a stale definition never gets together with a newer
\* status.
PublishedPlayable == \A id \in Stored : table[id].status # "DRAFT" => IsSolvable(table[id].arrows)

\* Every stored row can be read back, so no level makes the public list fail.
CatalogReadable == \A id \in Stored : Readable(table[id])

\* What a level may become: a new definition as a draft, published as it is,
\* then archived as it is.
Lawful(before, after) ==
  \/ after = before
  \/ before.status = "DRAFT" /\ after.status = "DRAFT" /\ after.frame = before.frame
  \/ before.status = "DRAFT" /\ after = [before EXCEPT !.status = "PUBLISHED"]
  \/ before.status = "PUBLISHED" /\ after = [before EXCEPT !.status = "ARCHIVED"]

\* A published level turns back into a draft, an archived one is listed again,
\* only through the save of a copy that another commit has outdated, or through
\* the seed, which publishes its files again.
OnlyStaleCopiesUndo ==
  [][\A id \in Stored :
       \/ Lawful(table[id], table'[id])
       \/ \E r \in Requests : Commit(r) /\ req[r].id = id /\ req[r].stale
       \/ SeedUpsert(id)]_vars
=============================================================================
