---------------------------- MODULE Leaderboard ----------------------------
(***************************************************************************)
(* The leaderboard of one level: SubmitScoreService and                    *)
(* GetLeaderboardService over the aggregate Leaderboard and the tables     *)
(* leaderboards and leaderboard_entries.                                   *)
(*                                                                         *)
(* A submission is NOT wrapped in a transaction: it reads the board in one *)
(* query and its entries in a second one, computes the new list in memory, *)
(* and replaces all rows in the transaction of save().  Other requests run *)
(* between these steps.  save() takes the lock of the board's row with its *)
(* first statement and holds it until it commits, so a save is one step.   *)
(***************************************************************************)
EXTENDS Naturals, Sequences, FiniteSets

CONSTANTS
  Users,        \* the players
  Results,      \* the valid pairs <<score, seconds>> a submission can carry
  MaxEntries,   \* MaxLeaderboardEntries.DEFAULT
  Requests,     \* the slots of requests being served at the same time
  NoUser, NoResult

ASSUME ResultsAssumption == Results \subseteq Nat \X Nat /\ NoResult \notin Results

ASSUME MaxEntriesAssumption == MaxEntries \in Nat \ {0}

VARIABLES
  exists,    \* the level has a row in leaderboards
  entries,   \* its rows in leaderboard_entries, ordered by rank
  pc,        \* where each request stands
  req,       \* the local variables of each request
  best,      \* history: each user's best result that was ever saved
  raced      \* history: some save over a board it had found has replaced
             \* entries it had not read

vars == <<exists, entries, pc, req, best, raced>>

Entry == [user : Users, result : Results]

\* sawBoard is the answer of the first query, list the aggregate in memory;
\* stale is history: a save by another request since the entries were read.
Request == [user : Users \cup {NoUser}, result : Results \cup {NoResult},
            sawBoard : BOOLEAN, list : Seq(Entry), stale : BOOLEAN]

NoRequest == [user |-> NoUser, result |-> NoResult, sawBoard |-> FALSE, list |-> <<>>,
              stale |-> FALSE]

Serving == {"findBoard", "findEntries", "submit", "save", "publish"}

TypeOK ==
  /\ exists \in BOOLEAN
  /\ entries \in Seq(Entry)
  /\ pc \in [Requests -> Serving \cup {"idle", "ok", "failed"}]
  /\ req \in [Requests -> Request]
  /\ best \in [Users -> Results \cup {NoResult}]
  /\ raced \in BOOLEAN

Init ==
  /\ exists = FALSE
  /\ entries = <<>>
  /\ pc = [r \in Requests |-> "idle"]
  /\ req = [r \in Requests |-> NoRequest]
  /\ best = [u \in Users |-> NoResult]
  /\ raced = FALSE

-----------------------------------------------------------------------------
(* The aggregate *)

\* ScoreEntry.isBetterThan: the higher score, then the faster time.
IsBetterThan(a, b) == a[1] > b[1] \/ (a[1] = b[1] /\ a[2] < b[2])

\* rankEntries sorts by the same order; the sort is stable, so of two equal
\* results the one earlier in the list keeps the better rank.
Before(list, i, j) ==
  \/ IsBetterThan(list[i].result, list[j].result)
  \/ i < j /\ ~IsBetterThan(list[j].result, list[i].result)

RankOf(list, i) == 1 + Cardinality({j \in DOMAIN list : Before(list, j, i)})

\* The positions of list may have gaps.
RankEntries(list) ==
  [k \in 1 .. Cardinality(DOMAIN list) |-> list[CHOOSE i \in DOMAIN list : RankOf(list, i) = k]]

\* Mutant: the list is never cut.
TruncateNever(list) == list

Truncate(list) == SubSeq(list, 1, IF Len(list) < MaxEntries THEN Len(list) ELSE MaxEntries)

\* Mutant: an existing entry is never replaced.
IsNoOpWhenPresent(list, entry) == \E i \in DOMAIN list : list[i].user = entry.user

\* Mutant: an existing entry is always replaced.
IsNoOpNever(list, entry) == FALSE

\* submitEntry is a no-op for a result that does not beat the user's own.
IsNoOp(list, entry) ==
  \E i \in DOMAIN list : list[i].user = entry.user /\ ~IsBetterThan(entry.result, list[i].result)

\* The entries of the others where they stand, and the new one behind them.
Pushed(list, entry) ==
  [i \in {j \in DOMAIN list : list[j].user # entry.user} \cup {Len(list) + 1} |->
     IF i \in DOMAIN list THEN list[i] ELSE entry]

SubmitEntry(list, entry) ==
  IF IsNoOp(list, entry) THEN list ELSE Truncate(RankEntries(Pushed(list, entry)))

-----------------------------------------------------------------------------
(* The requests *)

Goto(r, place) == pc' = [pc EXCEPT ![r] = place]

\* The user and the level are looked up first; either may be unknown.
SubmitArrive(r, u, result, known) ==
  /\ pc[r] = "idle"
  /\ req' = [req EXCEPT ![r] = [NoRequest EXCEPT !.user = u, !.result = result]]
  /\ IF known THEN Goto(r, "findBoard") ELSE Goto(r, "failed")
  /\ UNCHANGED <<exists, entries, best, raced>>

\* A read carries no user.
GetArrive(r) ==
  /\ pc[r] = "idle"
  /\ req' = [req EXCEPT ![r] = NoRequest]
  /\ Goto(r, "findBoard")
  /\ UNCHANGED <<exists, entries, best, raced>>

IsRead(r) == req[r].user = NoUser

\* findByLevelId, first query: without a row a submission starts from
\* Leaderboard.empty, and a read answers with no entries.
FindBoard(r) ==
  /\ pc[r] = "findBoard"
  /\ req' = [req EXCEPT ![r].sawBoard = exists]
  /\ Goto(r, IF exists THEN "findEntries" ELSE IF IsRead(r) THEN "ok" ELSE "submit")
  /\ UNCHANGED <<exists, entries, best, raced>>

\* findByLevelId, second query.
FindEntries(r) ==
  /\ pc[r] = "findEntries"
  /\ req' = [req EXCEPT ![r].list = entries]
  /\ Goto(r, IF IsRead(r) THEN "ok" ELSE "submit")
  /\ UNCHANGED <<exists, entries, best, raced>>

\* Mutant: the entry does not carry the user who was looked up.
SubmitAnonymous(r) ==
  /\ pc[r] = "submit" /\ req[r].result # NoResult
  /\ req' = [req EXCEPT ![r].list =
                SubmitEntry(@, [user |-> NoUser, result |-> req[r].result])]
  /\ Goto(r, "save")
  /\ UNCHANGED <<exists, entries, best, raced>>

\* The value objects reject an invalid score, time or move count; otherwise
\* the aggregate takes the entry in memory.
Submit(r) ==
  /\ pc[r] = "submit"
  /\ \/ /\ req[r].result = NoResult
        /\ Goto(r, "failed")
        /\ UNCHANGED req
     \/ /\ req[r].result # NoResult
        /\ req' = [req EXCEPT ![r].list =
                     SubmitEntry(@, [user |-> req[r].user, result |-> req[r].result])]
        /\ Goto(r, "save")
  /\ UNCHANGED <<exists, entries, best, raced>>

\* The repository's transaction: upsert the board, delete its entries, insert
\* the list in memory -- after a no-op too.
SaveBoard(r) ==
  /\ pc[r] = "save"
  /\ req[r].sawBoard \/ ~exists
  /\ exists' = TRUE
  /\ entries' = req[r].list
  /\ best' = [best EXCEPT ![req[r].user] =
                IF @ = NoResult \/ IsBetterThan(req[r].result, @) THEN req[r].result ELSE @]
  /\ raced' = (raced \/ (req[r].sawBoard /\ req[r].stale))
  /\ Goto(r, "publish")
  /\ req' = [q \in Requests |-> IF q # r /\ pc[q] \in {"submit", "save"}
                                THEN [req[q] EXCEPT !.stale = TRUE] ELSE req[q]]

\* Another request created the board since: the new board's id conflicts with
\* the unique level_id, and the transaction rolls back.
SaveConflict(r) ==
  /\ pc[r] = "save"
  /\ ~req[r].sawBoard /\ exists
  /\ Goto(r, "failed")
  /\ UNCHANGED <<exists, entries, req, best, raced>>

Publish(r) ==
  /\ pc[r] = "publish"
  /\ Goto(r, "ok")
  /\ UNCHANGED <<exists, entries, req, best, raced>>

\* Mutant: the statements of save are not in one transaction.
FaultAfterWrites(r) ==
  /\ pc[r] \in Serving
  /\ Goto(r, "failed")
  /\ IF pc[r] = "save" THEN exists' = TRUE /\ entries' = req[r].list
                       ELSE UNCHANGED <<exists, entries>>
  /\ UNCHANGED <<req, best, raced>>

\* The database or the process fails; what is not saved is lost.  At "publish"
\* it also is a save whose COMMIT was executed and not acknowledged.
Fault(r) ==
  /\ pc[r] \in Serving
  /\ Goto(r, "failed")
  /\ UNCHANGED <<exists, entries, req, best, raced>>

Finish(r) ==
  /\ pc[r] \in {"ok", "failed"}
  /\ Goto(r, "idle")
  /\ req' = [req EXCEPT ![r] = NoRequest]
  /\ UNCHANGED <<exists, entries, best, raced>>

Arrive(r) ==
  \/ \E u \in Users, result \in Results \cup {NoResult}, known \in BOOLEAN :
       SubmitArrive(r, u, result, known)
  \/ GetArrive(r)

Serve(r) ==
  \/ FindBoard(r) \/ FindEntries(r) \/ Submit(r)
  \/ SaveBoard(r) \/ SaveConflict(r) \/ Publish(r)

Next == \E r \in Requests : Arrive(r) \/ Serve(r) \/ Fault(r) \/ Finish(r)

Spec == Init /\ [][Next]_vars

-----------------------------------------------------------------------------
(* Properties *)

NotWorse(a, b) == ~IsBetterThan(b, a)

\* A list a player may be shown: best first, at most MaxEntries, each user once.
Ranked(list) ==
  /\ Len(list) <= MaxEntries
  /\ \A i, j \in DOMAIN list : i < j =>
       /\ NotWorse(list[i].result, list[j].result)
       /\ list[i].user # list[j].user

\* However submissions interleave, the stored board and every board a request
\* has read or computed is ranked: read, ranked and replaced as a whole.
BoardRanked == Ranked(entries) /\ \A r \in Requests : Ranked(req[r].list)

\* No interleaving shows a user a result better than the best one that was ever
\* saved for the user, nor any entry for which no submission was saved.
NothingInvented ==
  \A i \in DOMAIN entries :
    /\ best[entries[i].user] # NoResult
    /\ NotWorse(best[entries[i].user], entries[i].result)

\* list gives user u at least this result, or is full of results as good.
Counted(list, u, result) ==
  \/ \E i \in DOMAIN list : list[i].user = u /\ NotWorse(list[i].result, result)
  \/ Len(list) = MaxEntries /\ \A i \in DOMAIN list : NotWorse(list[i].result, result)

\* At the moment a submission is saved it counts: the user stands on the board
\* with at least this result, unless the board is full of results as good.
OwnSubmissionCounts ==
  [][\A r \in Requests : SaveBoard(r) => Counted(entries', req[r].user, req[r].result)]_vars

\* As long as no save over a board it had found replaced entries it had not
\* read, the board is the top of everybody's best: no result ever saved is
\* forgotten unless MaxEntries as good ones are shown, although the board keeps
\* nothing of a user pushed off it.  A first submission that lost the race for
\* the board fails and removes nothing.
TopOfBest ==
  ~raced => \A u \in Users : best[u] # NoResult => Counted(entries, u, best[u])

\* The user of request r has saved a result at least as good before.
IsResubmission(r) ==
  best[req[r].user] # NoResult /\ NotWorse(best[req[r].user], req[r].result)

\* "A worse or equal resubmission is an idempotent no-op": it leaves the board as
\* it is until some save, this one included, replaced entries it had not read.
\* (A stale no-op writes the list it read and removes what was saved since.)
ResubmissionIsNoOp ==
  [][\A r \in Requests :
       pc[r] = "save" /\ IsResubmission(r) /\ SaveBoard(r) /\ ~raced' => UNCHANGED entries]_vars
=============================================================================
