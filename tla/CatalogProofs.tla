---------------------------- MODULE CatalogProofs ----------------------------
(***************************************************************************)
(* Proofs about LevelCatalog, for any number of levels, bodies, authored   *)
(* files and requests.                                                     *)
(***************************************************************************)
EXTENDS LevelCatalog, TLAPS

(* The rows.  Whatever a transition makes of a sound row is one.            *)

\* Readable, and playable unless it is a draft.
Sound(row) ==
  /\ row \in LevelRow
  /\ Readable(row)
  /\ row.status # "DRAFT" => IsSolvable(row.arrows)

LEMMA FlatIsTyped ==
  ASSUME NEW arrows \in Seq(Arrow)
  PROVE  Flat(arrows) \in Seq(Arrow)
<1>1. ASSUME NEW i \in DOMAIN arrows
      PROVE  Flat(arrows)[i] \in Arrow
  <2> DEFINE path == arrows[i].path
             flat == [k \in DOMAIN path |-> <<path[k][1], path[k][2], 0>>]
  <2>1. arrows[i] \in Arrow /\ path \in Seq(Position)
    <3>1. arrows[i] \in Arrow
      OBVIOUS
    <3> QED BY <3>1 DEF Arrow
  <2> HIDE DEF path
  <2>2. ASSUME NEW k \in DOMAIN path
        PROVE  <<path[k][1], path[k][2], 0>> \in Position
    <3>1. path[k] \in Position
      BY <2>1
    <3> QED BY <3>1 DEF Position
  <2>3. flat \in [1 .. Len(path) -> Position] /\ Len(path) \in Nat
    BY <2>1, <2>2
  <2>4. flat \in Seq(Position)
    BY <2>3
  <2>5. Flat(arrows)[i] = [arrows[i] EXCEPT !.path = flat]
    BY DEF Flat, path
  <2> HIDE DEF flat
  <2> QED BY <2>1, <2>4, <2>5 DEF Arrow, path
<1>2. Flat(arrows) \in [1 .. Len(arrows) -> Arrow]
  BY <1>1 DEF Flat
<1> QED BY <1>2

\* A draft made from a body is a row.
LEMMA DraftIsRow ==
  ASSUME NEW payload \in Payloads
  PROVE  Draft(payload) \in LevelRow
<1>1. Flat(payload.arrows) \in Seq(Arrow) /\ AttemptsOf(payload.attempts) \in Int
  BY FlatIsTyped, BodiesAssumption DEF IsBody
<1>2. payload.frame \in Frames
  BY DEF Frames
<1> QED BY <1>1, <1>2 DEF Draft, Row, LevelRow, Statuses

\* The row of an authored file.
LEMMA AuthoredIsRow ==
  ASSUME NEW id \in DOMAIN Authored
  PROVE  AuthoredRow(id) \in LevelRow /\ AuthoredRow(id).status = "PUBLISHED"
<1>1. Authored[id].arrows \in Seq(Arrow) /\ AttemptsOf(Authored[id].attempts) \in Int
  BY BodiesAssumption DEF IsBody
<1>2. Authored[id].frame \in Frames
  BY DEF Frames
<1> QED BY <1>1, <1>2 DEF AuthoredRow, Row, LevelRow, Statuses

\* An allowed transition of a sound row gives a sound row that may follow it.
LEMMA TransitionIsLawful ==
  ASSUME NEW row, Sound(row), NEW op \in Mutations, NEW payload,
         op = "update" => payload \in Payloads, Allowed(row, op, payload)
  PROVE  Sound(Transition(row, op, payload)) /\ Lawful(row, Transition(row, op, payload))
<1>1. CASE op = "update"
  <2> DEFINE arrows == Flat(payload.arrows)
             attempts == AttemptsOf(payload.attempts)
             new == [row EXCEPT !.arrows = arrows, !.attempts = attempts]
  <2>1. arrows \in Seq(Arrow) /\ attempts \in Int
    BY <1>1, FlatIsTyped, BodiesAssumption DEF IsBody
  <2>2. Accepts(row, arrows, payload.attempts) /\ Transition(row, op, payload) = new
    BY <1>1 DEF Allowed, Transition
  <2> HIDE DEF arrows
  <2>3. attempts >= 1 /\ AttemptsOf(attempts) >= 1
    <3>1. attempts >= 1
      BY <2>2 DEF Accepts, ValidDefinition
    <3>2. AttemptsOf(attempts) = attempts \/ AttemptsOf(attempts) = 5
      BY DEF AttemptsOf, DefaultAttempts
    <3> QED BY <3>1, <3>2
  <2> HIDE DEF attempts
  <2>4. /\ new \in LevelRow /\ new.status = row.status /\ new.frame = row.frame
        /\ new.arrows = arrows /\ new.attempts = attempts
    BY <2>1 DEF Sound, LevelRow
  <2>5. row.status = "DRAFT"
    BY <2>2 DEF Accepts
  <2> HIDE DEF new
  <2>6. Readable(new)
    BY <2>2, <2>3, <2>4 DEF Sound, Readable, Constructible, Accepts, ValidDefinition
  <2> QED BY <2>2, <2>4, <2>5, <2>6 DEF Sound, Lawful
<1>2. CASE op = "publish"
  <2>1. /\ row.status = "DRAFT" /\ IsSolvable(row.arrows)
        /\ Transition(row, op, payload) = [row EXCEPT !.status = "PUBLISHED"]
    BY <1>2 DEF Allowed, Transition, MayPublish
  <2>2. LET new == [row EXCEPT !.status = "PUBLISHED"]
        IN  /\ new \in LevelRow /\ new.arrows = row.arrows
            /\ new.attempts = row.attempts /\ new.frame = row.frame
    BY DEF Sound, LevelRow, Statuses
  <2> QED BY <2>1, <2>2 DEF Sound, Lawful, Readable
<1>3. CASE op = "archive"
  <2>1. /\ row.status = "PUBLISHED"
        /\ Transition(row, op, payload) = [row EXCEPT !.status = "ARCHIVED"]
    BY <1>3 DEF Allowed, Transition, MayArchive
  <2>2. LET new == [row EXCEPT !.status = "ARCHIVED"]
        IN  /\ new \in LevelRow /\ new.arrows = row.arrows
            /\ new.attempts = row.attempts /\ new.frame = row.frame
    BY DEF Sound, LevelRow, Statuses
  <2> QED BY <2>1, <2>2 DEF Sound, Lawful, Readable
<1> QED BY <1>1, <1>2, <1>3 DEF Mutations

-----------------------------------------------------------------------------
(* The invariant.  A row stays sound because what is saved was made of a    *)
(* sound row as a whole, stale or not; it is lawful if it is not stale,     *)
(* because the row's lock keeps everybody else out from save to commit.     *)

Request ==
  [op : Mutations \cup {"none", "create", "get", "list", "listAdmin"},
   id : LevelIds \cup {NoLevel}, payload : Payloads \cup {NoRow},
   copy : LevelRow \cup {NoRow}, stale : BOOLEAN]

Typed ==
  /\ table \in [LevelIds -> LevelRow \cup {NoRow}]
  /\ writes \in [Requests -> LevelRow \cup {NoRow}]
  /\ pc \in [Requests -> Serving \cup {"idle", "ok", "failed"}]
  /\ req \in [Requests -> Request]
  /\ seeding \subseteq DOMAIN Authored

InTransaction(r) ==
  /\ writes[r] # NoRow <=> pc[r] = "commit"
  /\ pc[r] = "commit" => writes[r] = req[r].copy /\ req[r].id \in LevelIds /\ Unlocked(r, req[r].id)
  /\ pc[r] \in {"find", "save"} =>
       req[r].op \in Mutations /\ req[r].id \in LevelIds /\ (req[r].op = "update" => req[r].payload \in Payloads)

Copied(r) ==
  /\ pc[r] \in {"create", "save", "commit"} => Sound(req[r].copy)
  /\ pc[r] \in {"save", "commit"} /\ ~req[r].stale /\ req[r].id \in Stored =>
       Lawful(table[req[r].id], req[r].copy)

IInv ==
  /\ Typed
  /\ \A r \in Requests : InTransaction(r) /\ Copied(r)
  /\ \A id \in Stored : Sound(table[id])
  /\ \A id \in seeding : Sound(AuthoredRow(id))

LEMMA IInvInit == Init => IInv
<1> SUFFICES ASSUME Init PROVE IInv
  OBVIOUS
<1>1. NoRequest \in Request
  BY DEF NoRequest, Request
<1>2. Typed
  BY <1>1 DEF Init, Typed
<1>3. Stored = {}
  BY DEF Init, Stored
<1> QED BY <1>2, <1>3 DEF Init, IInv, InTransaction, Copied, Unlocked

\* A request that holds no lock and takes none: only what it knows has to fit
\* the place where it goes.
LEMMA LocalStep ==
  ASSUME IInv, NEW r \in Requests, pc[r] # "commit",
         NEW place \in {"create", "find", "save", "list", "idle", "ok", "failed"},
         NEW new \in Request,
         pc' = [pc EXCEPT ![r] = place], req' = [req EXCEPT ![r] = new],
         UNCHANGED <<table, writes, seeding>>,
         place \in {"find", "save"} => new.op \in Mutations /\ new.id \in LevelIds
                                         /\ (new.op = "update" => new.payload \in Payloads),
         place \in {"create", "save"} => Sound(new.copy),
         place = "save" /\ ~new.stale /\ new.id \in Stored => Lawful(table[new.id], new.copy)
  PROVE  IInv'
<1>1. Typed'
  BY DEF IInv, Typed, Serving
<1>2. Stored' = Stored
  BY DEF Stored
<1>3. pc'[r] = place /\ req'[r] = new /\ writes'[r] = NoRow
  BY DEF IInv, Typed, InTransaction
<1>4. ASSUME NEW q \in Requests, q # r
      PROVE  pc'[q] = pc[q] /\ req'[q] = req[q] /\ writes'[q] = writes[q]
  BY <1>4 DEF IInv, Typed
<1>5. ASSUME NEW q \in Requests
      PROVE  InTransaction(q)' /\ Copied(q)'
  <2>1. CASE q = r
    BY <1>2, <1>3, <2>1 DEF InTransaction, Copied
  <2>2. CASE q # r
    <3>1. InTransaction(q) /\ Copied(q)
      BY DEF IInv
    <3>2. pc[q] = "commit" => Unlocked(q, req[q].id)'
      BY <1>3, <1>4, <2>2, <3>1 DEF InTransaction, Unlocked
    <3> QED BY <1>2, <1>4, <2>2, <3>1, <3>2 DEF InTransaction, Copied
  <2> QED BY <2>1, <2>2
<1>6. /\ \A id \in Stored' : Sound(table'[id])
      /\ \A id \in seeding' : Sound(AuthoredRow(id))
  BY <1>2 DEF IInv
<1> QED BY <1>1, <1>5, <1>6 DEF IInv

\* Rolling back, or forgetting, releases the lock.
LEMMA ReleaseStep ==
  ASSUME IInv, NEW r \in Requests,
         pc' = [pc EXCEPT ![r] = "failed"], writes' = [writes EXCEPT ![r] = NoRow],
         UNCHANGED <<table, req, seeding>>
  PROVE  IInv'
<1>1. Typed'
  BY DEF IInv, Typed
<1>2. Stored' = Stored /\ pc'[r] = "failed" /\ writes'[r] = NoRow
  BY DEF Stored, IInv, Typed
<1>3. ASSUME NEW q \in Requests, q # r
      PROVE  pc'[q] = pc[q] /\ writes'[q] = writes[q]
  BY <1>3 DEF IInv, Typed
<1>4. ASSUME NEW q \in Requests
      PROVE  InTransaction(q)' /\ Copied(q)'
  <2>1. InTransaction(q) /\ Copied(q)
    BY DEF IInv
  <2>2. CASE q = r
    BY <1>2, <2>2 DEF InTransaction, Copied
  <2>3. CASE q # r
    <3>1. pc[q] = "commit" => Unlocked(q, req[q].id)'
      BY <1>2, <1>3, <2>1 DEF InTransaction, Unlocked
    <3> QED BY <1>2, <1>3, <2>1, <2>3, <3>1 DEF InTransaction, Copied
  <2> QED BY <2>2, <2>3
<1> QED BY <1>1, <1>2, <1>4 DEF IInv

\* A save takes the lock of a row that nobody else holds.
LEMMA SaveStep ==
  ASSUME IInv, NEW r \in Requests, pc[r] \in {"create", "save"}, NEW id \in LevelIds,
         Unlocked(r, id), pc[r] = "create" => id \notin Stored, pc[r] = "save" => id = req[r].id,
         req' = [req EXCEPT ![r].id = id], pc' = [pc EXCEPT ![r] = "commit"],
         writes' = [writes EXCEPT ![r] = req[r].copy], UNCHANGED <<table, seeding>>
  PROVE  IInv'
<1>1. req[r] \in Request /\ Copied(r) /\ InTransaction(r)
  BY DEF IInv, Typed
<1>2. Sound(req[r].copy) /\ req[r].copy \in LevelRow /\ req[r].copy # NoRow
  BY <1>1, NoLevelAssumption DEF Copied, Sound
<1>3. /\ pc'[r] = "commit" /\ writes'[r] = req[r].copy /\ req'[r] \in Request
      /\ req'[r].copy = req[r].copy /\ req'[r].id = id /\ req'[r].stale = req[r].stale
  BY <1>1 DEF IInv, Typed, Request
<1>4. Typed'
  BY <1>2, <1>3 DEF IInv, Typed, Serving
<1>5. Stored' = Stored
  BY DEF Stored
<1>6. ASSUME NEW q \in Requests, q # r
      PROVE  pc'[q] = pc[q] /\ req'[q] = req[q] /\ writes'[q] = writes[q]
  BY <1>6 DEF IInv, Typed
<1>7. InTransaction(r)' /\ Copied(r)'
  <2>1. Unlocked(r, id)'
    BY <1>6 DEF Unlocked
  <2>2. InTransaction(r)'
    BY <1>2, <1>3, <2>1 DEF InTransaction
  <2> QED BY <1>1, <1>3, <1>5, <2>2 DEF Copied
<1>8. ASSUME NEW q \in Requests, q # r
      PROVE  InTransaction(q)' /\ Copied(q)'
  <2>1. InTransaction(q) /\ Copied(q)
    BY DEF IInv
  <2>2. pc[q] = "commit" => req[q].id # id
    BY <1>8, <2>1 DEF InTransaction, Unlocked
  <2>3. pc[q] = "commit" => Unlocked(q, req[q].id)'
    BY <1>3, <1>6, <1>8, <2>1, <2>2 DEF InTransaction, Unlocked
  <2> QED BY <1>5, <1>6, <1>8, <2>1, <2>3 DEF InTransaction, Copied
<1> QED BY <1>4, <1>5, <1>7, <1>8 DEF IInv

\* A row that nobody but the committing request has locked gets a sound successor.
Stores(id, row, committing) ==
  /\ id \in LevelIds /\ Sound(row) /\ committing \subseteq Requests
  /\ \A r \in Requests \ committing : pc[r] = "commit" => req[r].id # id
  /\ table' = [table EXCEPT ![id] = row]
  /\ req' = [q \in Requests |-> IF q \notin committing /\ req[q].id = id /\ pc[q] = "save"
                                THEN [req[q] EXCEPT !.stale = TRUE] ELSE req[q]]
  /\ writes' = [q \in Requests |-> IF q \in committing THEN NoRow ELSE writes[q]]
  /\ \E outcome \in {"ok", "failed"} :
       pc' = [q \in Requests |-> IF q \in committing THEN outcome ELSE pc[q]]
  /\ seeding' \subseteq seeding

\* The copies of the row that others work on are stale from now on.
LEMMA StoreStep ==
  ASSUME IInv, NEW id, NEW row, NEW committing, Stores(id, row, committing)
  PROVE  IInv'
<1> USE DEF Stores
<1>1. /\ Stored' = Stored \cup {id} /\ table'[id] = row
      /\ \A other \in LevelIds : other # id => table'[other] = table[other]
  BY NoLevelAssumption DEF Stored, IInv, Typed, Sound
<1>2. ASSUME NEW q \in Requests
      PROVE  /\ req'[q] \in Request /\ req'[q].op = req[q].op /\ req'[q].id = req[q].id
             /\ req'[q].payload = req[q].payload /\ req'[q].copy = req[q].copy
             /\ ~req'[q].stale => req'[q] = req[q]
                  /\ ~(q \notin committing /\ req[q].id = id /\ pc[q] = "save")
  BY DEF IInv, Typed, Request
<1>3. Typed'
  BY <1>2 DEF IInv, Typed, Sound
<1>4. ASSUME NEW q \in Requests
      PROVE  InTransaction(q)' /\ Copied(q)'
  <2>1. InTransaction(q) /\ Copied(q)
    BY DEF IInv
  <2>2. CASE q \in committing
    BY <2>2 DEF InTransaction, Copied
  <2>3. CASE q \notin committing
    <3>1. pc'[q] = pc[q] /\ writes'[q] = writes[q]
      BY <2>3
    <3>2. pc[q] = "commit" => Unlocked(q, req[q].id)'
      <4>1. \A p \in Requests : writes'[p] # NoRow => writes[p] # NoRow
        OBVIOUS
      <4> QED BY <1>2, <2>1, <4>1 DEF InTransaction, Unlocked
    <3>3. InTransaction(q)'
      BY <1>2, <2>1, <3>1, <3>2 DEF InTransaction
    <3>4. ASSUME pc[q] \in {"save", "commit"}, ~req'[q].stale, req'[q].id \in Stored'
          PROVE  Lawful(table'[req'[q].id], req'[q].copy)
      <4>1. req[q].id # id /\ req'[q] = req[q]
        BY <1>2, <2>3, <3>4
      <4>2. req[q].id \in Stored /\ table'[req[q].id] = table[req[q].id]
        BY <1>1, <3>4, <4>1 DEF Stored
      <4> QED BY <2>1, <3>4, <4>1, <4>2 DEF Copied
    <3> QED BY <1>2, <2>1, <3>1, <3>3, <3>4 DEF Copied
  <2> QED BY <2>2, <2>3
<1>5. \A other \in Stored' : Sound(table'[other])
  BY <1>1 DEF IInv, Stored
<1> QED BY <1>3, <1>4, <1>5 DEF IInv

LEMMA ArriveKeeps ==
  ASSUME IInv, NEW r \in Requests, Arrive(r)
  PROVE  IInv'
<1> USE DEF Goto
<1>0. req \in [Requests -> Request] /\ NoRequest \in Request
  BY DEF IInv, Typed, NoRequest, Request
<1>1. CASE ArriveRefused(r)
  <2>1. req' = [req EXCEPT ![r] = req[r]] /\ req[r] \in Request
    BY <1>0, <1>1 DEF ArriveRefused
  <2> QED BY <1>1, <2>1, LocalStep DEF ArriveRefused
<1>2. ASSUME NEW payload \in Payloads, ArriveCreate(r, payload)
      PROVE  IInv'
  <2>1. CASE Readable(Draft(payload))
    <3> DEFINE new == [NoRequest EXCEPT !.op = "create", !.copy = Draft(payload)]
    <3>1. Draft(payload) \in LevelRow /\ Draft(payload).status = "DRAFT"
      BY DraftIsRow DEF Draft, Row
    <3>2. new \in Request /\ new.copy = Draft(payload)
      BY <3>1 DEF NoRequest, Request
    <3>3. /\ req' = [req EXCEPT ![r] = new] /\ pc' = [pc EXCEPT ![r] = "create"] /\ pc[r] = "idle"
          /\ UNCHANGED <<table, writes, seeding>>
      BY <1>2, <2>1 DEF ArriveCreate
    <3>4. Sound(new.copy)
      BY <2>1, <3>1, <3>2 DEF Sound
    <3> HIDE DEF new
    <3> QED BY <3>2, <3>3, <3>4, LocalStep
  <2>2. CASE ~Readable(Draft(payload))
    <3>1. req' = [req EXCEPT ![r] = req[r]] /\ req[r] \in Request
      BY <1>0, <1>2, <2>2 DEF ArriveCreate
    <3> QED BY <1>2, <2>2, <3>1, LocalStep DEF ArriveCreate
  <2> QED BY <2>1, <2>2
<1>3. ASSUME NEW op \in Mutations, NEW id \in LevelIds, NEW payload \in Payloads \cup {NoRow},
             ArriveMutation(r, op, id, payload)
      PROVE  IInv'
  <2> DEFINE new == [NoRequest EXCEPT !.op = op, !.id = id, !.payload = payload]
  <2>1. new \in Request /\ new.op = op /\ new.id = id /\ new.payload = payload
    BY DEF NoRequest, Request
  <2>2. /\ req' = [req EXCEPT ![r] = new] /\ pc' = [pc EXCEPT ![r] = "find"] /\ pc[r] = "idle"
        /\ UNCHANGED <<table, writes, seeding>> /\ (op = "update" => payload \in Payloads)
    BY <1>3 DEF ArriveMutation
  <2> HIDE DEF new
  <2> QED BY <2>1, <2>2, LocalStep
<1>4. ASSUME NEW id \in LevelIds \cup {NoLevel}, NEW op \in {"get", "list", "listAdmin"},
             ArriveRead(r, op, id)
      PROVE  IInv'
  <2> DEFINE new == [NoRequest EXCEPT !.op = op, !.id = id]
  <2>1. new \in Request
    BY DEF NoRequest, Request
  <2>2. /\ req' = [req EXCEPT ![r] = new] /\ pc' = [pc EXCEPT ![r] = "list"] /\ pc[r] = "idle"
        /\ UNCHANGED <<table, writes, seeding>>
    BY <1>4 DEF ArriveRead
  <2> HIDE DEF new
  <2> QED BY <2>1, <2>2, LocalStep
<1> QED BY <1>1, <1>2, <1>3, <1>4 DEF Arrive, Mutations

\* The row read is sound, so what the aggregate makes of it is.
LEMMA FindKeeps ==
  ASSUME IInv, NEW r \in Requests, Find(r)
  PROVE  IInv'
<1> DEFINE id == req[r].id
           row == table[id]
<1>1. /\ req \in [Requests -> Request] /\ req[r] \in Request /\ pc[r] = "find"
      /\ UNCHANGED <<table, writes, seeding>>
  BY DEF IInv, Typed, Find
<1>2. /\ req[r].op \in Mutations /\ id \in LevelIds
      /\ req[r].op = "update" => req[r].payload \in Payloads
  BY <1>1 DEF IInv, InTransaction
<1>3. CASE row # NoRow /\ Allowed(row, req[r].op, req[r].payload)
           /\ pc' = [pc EXCEPT ![r] = "save"]
           /\ req' = [req EXCEPT ![r].copy = Transition(row, req[r].op, req[r].payload)]
  <2> DEFINE copy == Transition(row, req[r].op, req[r].payload)
             new == [req[r] EXCEPT !.copy = copy]
  <2>1. Sound(row)
    BY <1>2, <1>3 DEF IInv, Stored
  <2>2. Sound(copy) /\ Lawful(row, copy)
    BY <1>2, <1>3, <2>1, TransitionIsLawful
  <2>3. req' = [req EXCEPT ![r] = new]
    BY <1>1, <1>3
  <2> HIDE DEF copy
  <2>4. new \in Request /\ new.copy = copy /\ new.op = req[r].op /\ new.id = id
        /\ new.payload = req[r].payload
    BY <1>1, <2>2 DEF Request, Sound
  <2> HIDE DEF new
  <2> QED BY <1>1, <1>2, <1>3, <2>2, <2>3, <2>4, LocalStep
<1>4. CASE pc' = [pc EXCEPT ![r] = "failed"] /\ req' = req
  <2>1. req' = [req EXCEPT ![r] = req[r]]
    BY <1>1, <1>4
  <2> QED BY <1>1, <1>4, <2>1, LocalStep
<1> QED BY <1>3, <1>4 DEF Find, Goto

LEMMA CommitKeeps ==
  ASSUME IInv, NEW r \in Requests, Commit(r)
  PROVE  IInv'
<1>1. /\ req[r].id \in LevelIds /\ Unlocked(r, req[r].id) /\ writes[r] = req[r].copy
      /\ Sound(writes[r]) /\ pc[r] = "commit"
  BY DEF IInv, InTransaction, Copied, Commit
<1>2. \A q \in Requests \ {r} : pc[q] = "commit" => req[q].id # req[r].id
  BY <1>1 DEF IInv, InTransaction, Unlocked
<1>3. /\ table' = [table EXCEPT ![req[r].id] = writes[r]]
      /\ req' = [q \in Requests |-> IF q \notin {r} /\ req[q].id = req[r].id /\ pc[q] = "save"
                                    THEN [req[q] EXCEPT !.stale = TRUE] ELSE req[q]]
      /\ writes' = [q \in Requests |-> IF q \in {r} THEN NoRow ELSE writes[q]]
      /\ \E outcome \in {"ok", "failed"} :
           pc' = [q \in Requests |-> IF q \in {r} THEN outcome ELSE pc[q]]
      /\ seeding' \subseteq seeding
  BY DEF Commit, Outdated, Goto, IInv, Typed
<1>4. Stores(req[r].id, writes[r], {r})
  BY <1>1, <1>2, <1>3 DEF Stores
<1> QED BY <1>4, StoreStep

LEMMA SeedUpsertKeeps ==
  ASSUME IInv, NEW id \in LevelIds, SeedUpsert(id)
  PROVE  IInv'
<1> DEFINE row == AuthoredRow(id)
<1>1. Sound(row)
  BY DEF SeedUpsert, IInv
<1>2. \A q \in Requests \ {} : pc[q] = "commit" => req[q].id # id
  BY DEF SeedUpsert, IInv, InTransaction
<1>3. /\ table' = [table EXCEPT ![id] = row]
      /\ req' = [q \in Requests |-> IF q \notin {} /\ req[q].id = id /\ pc[q] = "save"
                                    THEN [req[q] EXCEPT !.stale = TRUE] ELSE req[q]]
      /\ writes' = [q \in Requests |-> IF q \in {} THEN NoRow ELSE writes[q]]
      /\ \E outcome \in {"ok", "failed"} :
           pc' = [q \in Requests |-> IF q \in {} THEN outcome ELSE pc[q]]
      /\ seeding' \subseteq seeding
  BY DEF SeedUpsert, IInv, Typed
<1> HIDE DEF row
<1>4. Stores(id, row, {})
  BY <1>1, <1>2, <1>3 DEF Stores
<1> QED BY <1>4, StoreStep

LEMMA ServeKeeps ==
  ASSUME IInv, NEW r \in Requests, Serve(r) \/ Fault(r) \/ Finish(r)
  PROVE  IInv'
<1>0. req \in [Requests -> Request] /\ req[r] \in Request /\ NoRequest \in Request
  BY DEF IInv, Typed, NoRequest, Request
<1>1. CASE CreateSave(r)
  <2>1. PICK id \in LevelIds \ (Stored \cup DOMAIN Authored) :
          /\ \A q \in Requests : writes[q] # NoRow => req[q].id # id
          /\ req' = [req EXCEPT ![r].id = id]
    BY <1>1 DEF CreateSave
  <2>2. Unlocked(r, id) /\ id \notin Stored
    BY <2>1 DEF Unlocked
  <2> QED BY <1>1, <2>1, <2>2, SaveStep DEF CreateSave, Goto
<1>2. CASE Save(r)
  <2>1. req[r].id \in LevelIds /\ Unlocked(r, req[r].id)
    BY <1>2 DEF Save, IInv, InTransaction
  <2>2. req' = [req EXCEPT ![r].id = req[r].id]
    BY <1>0, <1>2 DEF Save, Request
  <2> QED BY <1>2, <2>1, <2>2, SaveStep DEF Save, Goto
<1>3. CASE Find(r)
  BY <1>3, FindKeeps
<1>4. CASE Commit(r)
  BY <1>4, CommitKeeps
<1>5. CASE Read(r)
  <2>1. req' = [req EXCEPT ![r] = req[r]]
    BY <1>0, <1>5 DEF Read
  <2>2. pc' = [pc EXCEPT ![r] = "ok"] \/ pc' = [pc EXCEPT ![r] = "failed"]
    BY <1>5 DEF Read, Goto
  <2> QED BY <1>0, <1>5, <2>1, <2>2, LocalStep DEF Read
<1>6. CASE Fault(r)
  BY <1>6, ReleaseStep DEF Fault, Goto
<1>7. CASE Finish(r)
  BY <1>0, <1>7, LocalStep DEF Finish, Goto
<1> QED BY <1>1, <1>2, <1>3, <1>4, <1>5, <1>6, <1>7 DEF Serve

LEMMA IInvStep == IInv /\ [Next]_vars => IInv'
<1> SUFFICES ASSUME IInv, [Next]_vars PROVE IInv'
  OBVIOUS
<1>1. ASSUME NEW r \in Requests, Arrive(r) \/ Serve(r) \/ Fault(r) \/ Finish(r)
      PROVE  IInv'
  BY <1>1, ArriveKeeps, ServeKeeps
<1>2. ASSUME NEW id \in LevelIds, SeedUpsert(id)
      PROVE  IInv'
  BY <1>2, SeedUpsertKeeps
<1>3. CASE SeedStart
  <2>1. \A id \in seeding' : Sound(AuthoredRow(id))
    BY <1>3, AuthoredIsRow DEF SeedStart, Sound
  <2> QED BY <1>3, <2>1 DEF SeedStart, IInv, Typed, InTransaction, Copied, Unlocked, Stored
<1>4. CASE SeedFault
  BY <1>4 DEF SeedFault, IInv, Typed, InTransaction, Copied, Unlocked, Stored
<1>5. CASE UNCHANGED vars
  BY <1>5 DEF vars, IInv, Typed, InTransaction, Copied, Unlocked, Stored
<1> QED BY <1>1, <1>2, <1>3, <1>4, <1>5 DEF Next

\* The invariant holds in every state admins and seeds can reach.
THEOREM Invariance == Spec => []IInv
<1>1. Init => IInv
  BY IInvInit
<1>2. IInv /\ [Next]_vars => IInv'
  BY IInvStep
<1> QED BY <1>1, <1>2, PTL DEF Spec

\* Rows, locks and copies are what they are meant to be.
THEOREM TypeCorrect == Spec => []TypeOK
<1>1. IInv => TypeOK
  BY DEF IInv, Typed, InTransaction, TypeOK, Stored
<1> QED BY <1>1, Invariance, PTL

\* What players can be given was found playable.
THEOREM Playable == Spec => []PublishedPlayable
<1>1. IInv => PublishedPlayable
  BY DEF IInv, Sound, PublishedPlayable
<1> QED BY <1>1, Invariance, PTL

\* No stored row makes a list fail.
THEOREM AllReadable == Spec => []CatalogReadable
<1>1. IInv => CatalogReadable
  BY DEF IInv, Sound, CatalogReadable
<1> QED BY <1>1, Invariance, PTL

\* Only stale copies and the seed take a level back to an earlier status.
THEOREM StaleCopiesUndo == Spec => OnlyStaleCopiesUndo
<1> DEFINE A == \A id \in Stored :
                  \/ Lawful(table[id], table'[id])
                  \/ \E r \in Requests : Commit(r) /\ req[r].id = id /\ req[r].stale
                  \/ SeedUpsert(id)
<1>1. IInv /\ [Next]_vars => [A]_vars
  <2> SUFFICES ASSUME IInv, Next, NEW id \in Stored, ~Lawful(table[id], table'[id])
               PROVE  \/ \E r \in Requests : Commit(r) /\ req[r].id = id /\ req[r].stale
                      \/ SeedUpsert(id)
    OBVIOUS
  <2>1. table'[id] # table[id] /\ id \in LevelIds
    BY DEF Lawful, Stored
  <2>2. ASSUME NEW r \in Requests, Commit(r)
        PROVE  req[r].id = id /\ req[r].stale
    <3>1. table' = [table EXCEPT ![req[r].id] = writes[r]] /\ table \in [LevelIds -> LevelRow \cup {NoRow}]
      BY <2>2 DEF Commit, IInv, Typed
    <3>2. req[r].id = id /\ table'[id] = writes[r]
      BY <2>1, <3>1
    <3>3. writes[r] = req[r].copy /\ pc[r] = "commit" /\ req[r] \in Request
      BY <2>2 DEF Commit, IInv, InTransaction, Typed
    <3> QED BY <3>2, <3>3 DEF IInv, Copied, Request
  <2>3. ASSUME NEW other \in LevelIds, SeedUpsert(other)
        PROVE  other = id
    BY <2>1, <2>3 DEF SeedUpsert, IInv, Typed
  <2>4. ASSUME NEW r \in Requests, Arrive(r) \/ Find(r) \/ CreateSave(r) \/ Save(r) \/ Read(r)
                                     \/ Fault(r) \/ Finish(r)
        PROVE  table' = table
    BY <2>4 DEF Arrive, ArriveRefused, ArriveCreate, ArriveMutation, ArriveRead, Find, CreateSave,
                Save, Read, Fault, Finish
  <2>5. SeedStart \/ SeedFault => table' = table
    BY DEF SeedStart, SeedFault
  <2> QED BY <2>1, <2>2, <2>3, <2>4, <2>5 DEF Next, Serve
<1>2. OnlyStaleCopiesUndo <=> [][A]_vars
  BY DEF OnlyStaleCopiesUndo
<1> HIDE DEF A
<1> QED BY <1>1, <1>2, Invariance, PTL DEF Spec
=============================================================================
