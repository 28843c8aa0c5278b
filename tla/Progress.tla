------------------------------ MODULE Progress ------------------------------
(***************************************************************************)
(* The progress of one player, whose devices send CompleteLevelService,    *)
(* SyncProgressService and LoadProgressService requests at the same time.  *)
(* None of them runs in a transaction: a request reads the row of          *)
(* player_progress in one query and its completed_levels in a second one,  *)
(* computes in memory, and save() replaces every row in a transaction of   *)
(* its own.  Players do not share rows, so one player is enough.  save()   *)
(* locks the player_progress row with its first statement until it         *)
(* commits, so a save is one step.                                         *)
(***************************************************************************)
EXTENDS Naturals, Sequences

CONSTANTS
  Levels,      \* the rows of the table levels
  Results,     \* the valid pairs <<score, seconds>> of a LevelScore
  Requests,    \* the slots of requests being served at the same time
  NoResult,    \* the level is not completed
  MaxDtos,     \* bound: completed levels in one sync payload
  MaxVersion   \* bound: nothing is sent to be saved from this version on

ASSUME ResultsAssumption == Results \subseteq Nat \X Nat /\ NoResult \notin Results

ASSUME BoundsAssumption == MaxDtos \in Nat /\ MaxVersion \in Nat

VARIABLES
  exists,     \* the player has a row in player_progress
  progress,   \* its version and completed_levels
  pc,         \* where each request stands
  req,        \* the local variables of each request
  best,       \* history: the best result ever saved for each level
  raced       \* history: some save has replaced levels it had not read

vars == <<exists, progress, pc, req, best, raced>>

\* completedAt, ids and updatedAt are left out: no decision reads them.
PlayerProgress == [version : Nat, completed : [Levels -> Results \cup {NoResult}]]

Empty == [version |-> 0, completed |-> [l \in Levels |-> NoResult]]

Dto == [level : Levels, result : Results]

\* dtos is the payload (one completion, or what a device syncs); fault is what
\* is wrong with it: a value object rejects it, or one of its level ids does
\* not exist; mem is the PlayerProgress in memory; sawRow the answer of the first query; staleRow
\* and staleLevels are history: a save since the first and the second query.
Request == [op : {"none", "complete", "sync", "load"}, dtos : Seq(Dto),
            fault : {"none", "invalid", "unknownLevel"}, sawRow : BOOLEAN,
            mem : PlayerProgress, staleRow : BOOLEAN, staleLevels : BOOLEAN]

NoRequest == [op |-> "none", dtos |-> <<>>, fault |-> "none",
              sawRow |-> FALSE, mem |-> Empty, staleRow |-> FALSE, staleLevels |-> FALSE]

Serving == {"findProgress", "findLevels", "record", "save", "publish"}

TypeOK ==
  /\ exists \in BOOLEAN
  /\ progress \in PlayerProgress
  /\ pc \in [Requests -> Serving \cup {"idle", "ok", "failed"}]
  /\ req \in [Requests -> Request]
  /\ best \in [Levels -> Results \cup {NoResult}]
  /\ raced \in BOOLEAN

Init ==
  /\ exists = FALSE
  /\ progress = Empty
  /\ pc = [r \in Requests |-> "idle"]
  /\ req = [r \in Requests |-> NoRequest]
  /\ best = [l \in Levels |-> NoResult]
  /\ raced = FALSE

-----------------------------------------------------------------------------
(* The aggregate and the merge policy *)

\* LevelScore.isBetterThan: the higher score, then the faster time.
IsBetterThan(a, b) == a[1] > b[1] \/ (a[1] = b[1] /\ a[2] < b[2])

\* recordCompletion keeps the better result of a level.
Better(new, old) == IF old = NoResult \/ IsBetterThan(new, old) THEN new ELSE old

\* The best of a level's completions in a payload, recorded one by one.
BestOf(dtos, l) ==
  LET results == {dtos[i].result : i \in {j \in DOMAIN dtos : dtos[j].level = l}}
  IN  IF results = {} THEN NoResult
      ELSE CHOOSE a \in results : \A b \in results : ~IsBetterThan(b, a)

\* PlayerProgress.empty, then recordCompletion for every dto: each call counts
\* one version, improvement or not.
Local(dtos) == [version |-> Len(dtos), completed |-> [l \in Levels |-> BestOf(dtos, l)]]

\* Mutant: the version counts down.
RecordCompletionDown(p, dto) ==
  [version |-> p.version - 1,
   completed |-> [p.completed EXCEPT ![dto.level] = Better(dto.result, @)]]

\* Mutant: the latest result replaces the stored one.
RecordCompletionLatest(p, dto) ==
  [version |-> p.version + 1,
   completed |-> [p.completed EXCEPT ![dto.level] = dto.result]]

RecordCompletion(p, dto) ==
  [version |-> p.version + 1,
   completed |-> [p.completed EXCEPT ![dto.level] = Better(dto.result, @)]]

\* Mutant: what the device has wins over what is stored.
MergeLocalWins(local, remote) ==
  [version |-> IF local.version > remote.version THEN local.version + 1
                                                 ELSE remote.version + 1,
   completed |-> [l \in Levels |-> IF local.completed[l] = NoResult THEN remote.completed[l]
                                   ELSE local.completed[l]]]

\* ProgressMergePolicy.merge: start from the local levels, take a remote one
\* that is missing or strictly better.
Merge(local, remote) ==
  [version |-> IF local.version > remote.version THEN local.version + 1
                                                 ELSE remote.version + 1,
   completed |-> [l \in Levels |->
     IF remote.completed[l] = NoResult THEN local.completed[l]
     ELSE Better(remote.completed[l], local.completed[l])]]

-----------------------------------------------------------------------------
(* The requests *)

Goto(r, place) == pc' = [pc EXCEPT ![r] = place]

Arrive(r, op, dtos, fault) ==
  /\ pc[r] = "idle"
  /\ op # "load" => progress.version < MaxVersion
  /\ req' = [req EXCEPT ![r] = [NoRequest EXCEPT !.op = op, !.dtos = dtos,
                                  !.fault = fault]]
  /\ Goto(r, "findProgress")
  /\ UNCHANGED <<exists, progress, best, raced>>

\* findByUserId, first query; without a row the request goes on with
\* PlayerProgress.empty.
FindProgress(r) ==
  /\ pc[r] = "findProgress"
  /\ req' = [req EXCEPT ![r].sawRow = exists, ![r].mem.version = progress.version]
  /\ Goto(r, IF exists THEN "findLevels" ELSE "record")
  /\ UNCHANGED <<exists, progress, best, raced>>

\* findByUserId, second query.
FindLevels(r) ==
  /\ pc[r] = "findLevels"
  /\ req' = [req EXCEPT ![r].mem.completed = progress.completed]
  /\ Goto(r, "record")
  /\ UNCHANGED <<exists, progress, best, raced>>

\* A load answers with what it read and stores nothing.
Load(r) ==
  /\ pc[r] = "record" /\ req[r].op = "load"
  /\ Goto(r, "ok")
  /\ UNCHANGED <<exists, progress, req, best, raced>>

\* An invalid score, time, move count or date throws before anything is saved.
Reject(r) ==
  /\ pc[r] = "record" /\ req[r].op # "load" /\ req[r].fault = "invalid"
  /\ Goto(r, "failed")
  /\ UNCHANGED <<exists, progress, req, best, raced>>

Record(r) ==
  /\ pc[r] = "record" /\ req[r].fault # "invalid"
  /\ \/ req[r].op = "complete"
        /\ req' = [req EXCEPT ![r].mem = RecordCompletion(@, req[r].dtos[1])]
     \/ req[r].op = "sync"
        /\ req' = [req EXCEPT ![r].mem = Merge(Local(req[r].dtos), @)]
  /\ Goto(r, "save")
  /\ UNCHANGED <<exists, progress, best, raced>>

\* The repository's transaction replaces the version and all levels.
SaveProgress(r) ==
  /\ pc[r] = "save"
  /\ req[r].fault = "none" /\ (req[r].sawRow \/ ~exists)
  /\ exists' = TRUE
  /\ progress' = req[r].mem
  /\ best' = [l \in Levels |-> LET new == BestOf(req[r].dtos, l)
                               IN  IF new = NoResult THEN best[l] ELSE Better(new, best[l])]
  /\ raced' = (raced \/ req[r].staleLevels)
  /\ Goto(r, "publish")
  /\ req' = [q \in Requests |-> IF q = r THEN req[q] ELSE
               [req[q] EXCEPT !.staleRow = @ \/ pc[q] \in {"findLevels", "record", "save"},
                              !.staleLevels = @ \/ pc[q] \in {"record", "save"}]]

\* A level id without a row breaks the foreign key; a row created by another
\* first request breaks the unique user_id.  The transaction rolls back.
SaveConflict(r) ==
  /\ pc[r] = "save"
  /\ req[r].fault = "unknownLevel" \/ (~req[r].sawRow /\ exists)
  /\ Goto(r, "failed")
  /\ UNCHANGED <<exists, progress, req, best, raced>>

Publish(r) ==
  /\ pc[r] = "publish"
  /\ Goto(r, "ok")
  /\ UNCHANGED <<exists, progress, req, best, raced>>

\* Mutant: the statements of save are not in one transaction.
FaultAfterWrites(r) ==
  /\ pc[r] \in Serving
  /\ Goto(r, "failed")
  /\ IF pc[r] = "save" THEN exists' = TRUE /\ progress' = req[r].mem
                       ELSE UNCHANGED <<exists, progress>>
  /\ UNCHANGED <<req, best, raced>>

\* The database or the process fails; what is not saved is lost.  At "publish"
\* it also is a save whose COMMIT was executed and not acknowledged.
Fault(r) ==
  /\ pc[r] \in Serving
  /\ Goto(r, "failed")
  /\ UNCHANGED <<exists, progress, req, best, raced>>

Finish(r) ==
  /\ pc[r] \in {"ok", "failed"}
  /\ Goto(r, "idle")
  /\ req' = [req EXCEPT ![r] = NoRequest]
  /\ UNCHANGED <<exists, progress, best, raced>>

Payloads == UNION {[1 .. n -> Dto] : n \in 0 .. MaxDtos}

Next ==
  \E r \in Requests :
    \/ \E dtos \in Payloads, fault \in {"none", "invalid", "unknownLevel"} :
         \/ Arrive(r, "sync", dtos, fault)
         \/ Len(dtos) = 1 /\ Arrive(r, "complete", dtos, fault)
    \/ Arrive(r, "load", <<>>, "none")
    \/ FindProgress(r) \/ FindLevels(r)
    \/ Load(r) \/ Reject(r) \/ Record(r)
    \/ SaveProgress(r) \/ SaveConflict(r) \/ Publish(r)
    \/ Fault(r) \/ Finish(r)

Spec == Init /\ [][Next]_vars

-----------------------------------------------------------------------------
(* Properties *)

\* a is at least as good a result as b, which may be none
AtLeast(a, b) == b = NoResult \/ (a # NoResult /\ ~IsBetterThan(b, a))

\* As long as no save replaced levels it had not read, the stored progress is
\* exactly the best of everything ever saved, through completions and syncs of
\* all devices, in whatever order they were interleaved and retried.
BestUnlessRaced == ~raced => progress.completed = best

\* No interleaving, failed save or retry ever credits a level with a result
\* better than the best one saved for it, or credits one never completed.
NothingInvented == \A l \in Levels : AtLeast(best[l], progress.completed[l])

\* A save that read the current levels takes no completion away, makes no
\* result worse, and stores at least what the request carried; and one that read
\* the current row counts the version upwards, so that no version is used twice
\* for different progress.  The row is read before the levels,
\* and may be stale where they are not.
LossNeedsRace ==
  [][\A r \in Requests : SaveProgress(r) =>
       /\ ~req[r].staleLevels =>
            \A l \in Levels :
              /\ AtLeast(progress'.completed[l], progress.completed[l])
              /\ AtLeast(progress'.completed[l], BestOf(req[r].dtos, l))
       /\ ~req[r].staleRow => progress'.version > progress.version]_vars
=============================================================================
