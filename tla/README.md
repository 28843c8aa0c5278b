# Arrow Maze backend: specifications

TLA+ specifications of the Arrow Maze backend, a Node.js service (Express, Prisma,
PostgreSQL) that keeps users' sessions, levels, progress, leaderboards and a daily
challenge. Paths below are relative to the repository; its TypeScript sources are
under `src/`.

## How the program runs, and what is hard in it

One Node.js process serves HTTP requests; several processes may serve the same
database. A use case is an `async` function: between two `await`s nothing else of
the process runs, at an `await` anything may. The state that outlives a request is in
PostgreSQL, used at its default isolation level READ COMMITTED. Eight use cases
(register, login, refresh, logout; create, update, publish and archive a level) run in
an interactive transaction (`TransactionDecorator`, `PrismaUnitOfWork`, wired in
`src/framework/app.ts`); all others call repositories one by one,
and only a repository's `save` that writes several tables opens a transaction of its
own (`withTransaction`). Nearly every mutation is "read an aggregate, change the object
in memory, save the whole object", without a version check. So the questions are:

- what does a save do with a copy that is stale by the time it is written;
- what does another request see between two repository calls;
- what is left when one of several calls fails, or the exception rolls back;
- what happens to work that exists in memory only;
- does everything that starts also end.

### Inventory

| Component | State | Operations | Interaction | What makes it correct |
|---|---|---|---|---|
| Sessions | table `refresh_tokens`: owner, hash, expiry, `revoked_at`, `replaced_by_token_id` | login, refresh (rotation, reuse detection), logout | reads `users`; interactive transactions; row locks | rotations are atomic and exchange a token once; revocation is final; reuse ends the family; responses are true; everyone is answered |
| Leaderboard | `leaderboards`, `leaderboard_entries` per level | submit score, get board | reads `users`, `levels`; save replaces all rows | ranked, one entry per user, best kept, nothing invented, a no-op changes nothing |
| Player progress | `player_progress` (version), `completed_levels` | complete level, sync a device, load | save replaces all rows; foreign key to `levels` | best of everything saved, in any order; version grows |
| Daily challenge | `daily_challenges` (one per UTC date), `daily_challenge_iterations` (operation log), tasks in memory | public get (generates on a miss), admin start, pipeline, poll | calls the generators, `setImmediate` task nobody awaits, partial unique index on RUNNING | one generation per date, truthful log, operations end, the day's level is stable |
| Candidate generation | none; two retry loops | random strategy, deterministic generator, the model's answer, validation; the script that writes level files | called by the daily challenge; by authors | accepts only playable levels of the right day; what the own generators make is never refused; every attempt ends |
| Level catalog | `levels`: definition, status | create, update definition, publish, archive, get, lists | interactive transactions, whole-row saves, the seed | published levels were found solvable; every row can be read; DRAFT, PUBLISHED, ARCHIVED in this order |
| Solvability, geometry | none | value objects, blocking graph, Kahn's algorithm | called on publication and validation | accepts exactly the levels that can be played to the end |
| Registration, user queries | `users` | register, list, current user | transaction; unique indexes | one user per address and name; answers are true; pages miss nobody |
| Access tokens, authorisation | none | JWT check, role check | middleware | stateless |
| HTTP, wiring, API document, logging, event bus | none of their own | parse, present, log, publish | around the use cases | no state behind them |
| Schema, seed, scripts | constraints | migrations, seeding | run alone | keys and indexes the use cases rely on |

`PROJECT.json` lists these with their sources, and under "hazards" each place where the
code is exposed to one of the questions above.

## Modules

| Module | Models | State and actions |
|---|---|---|
| `Sessions` | login, refresh, logout and their transactions | `tokens` is the committed table; `writes[r]` the rows request `r`'s open transaction has written, which also are the rows it has locked; `pc[r]`, `req[r]` the control point and the local variables. Each repository call of a use case is one action (`RefreshFind`, `RefreshReadUser`, `RefreshSaveRotated`, `RefreshSaveStored`, ...), together with the synchronous code up to the next `await`. `Commit`, `Throw`, `Fault` are the ends of a transaction; a `Commit` may be answered as a failure, when its acknowledgement is lost |
| `SessionRegister` | the abstract promise: a set of sessions that are opened, moved to a successor token, and closed | `Sessions` holds the mapping to it: `issued` are the stored tokens with their origin, `live` those not revoked |
| `Leaderboard` | submissions and reads of one level's board | `entries` is what the table holds, `req[r].list` the aggregate in memory; `FindBoard` and `FindEntries` are the two queries that Prisma's `include` makes; `SaveBoard` is the repository's transaction, or `SaveConflict` when the unique `level_id` refuses it |
| `Progress` | complete, sync and load of one player | like the leaderboard, with `Merge` and `RecordCompletion` as operators |
| `DailyChallenge` | the public read and the admin's iterations | `cache`, `table` are the two tables, `mem[a]` the local variables of a reader or of a task; `SaveFault` is an exception of a save (answered, or swallowed by the scheduler), whether or not the save took effect, `Crash` the loss of everything in memory |
| `IterationRegister` | the abstract promise of manual iterations: a date has one open operation, which replaces the public challenge of its date at most once and is closed with it | `DailyChallenge` holds the mapping to it: the rows without their logs, and as `published` the challenge that each task has put in the cache |
| `LevelGeometry` | the value objects of a level and `LevelSolvabilityPolicy`'s graph | operators only: what `create` of each value object refuses, which cells lie ahead, `Blockers`, and `IsSolvable` (acyclicity) as the reference for the algorithm; `CanLeave` is the rule of the game, stated by rays and not by the policy's comparison |
| `Solvability` | `isAcyclic`, Kahn's algorithm | `indegree`, `queue`, `visited` as in the code, one round of the loop per `Visit`; `remaining` is the board of a player who extracts arrows afterwards |
| `LevelGeneration` | everything that makes levels, and the doors | `job`, `stage`, `attempt`, `tries`, `built` are the strategy's and the script's loops; `OfferExternal` is a model, an author or an admin with any candidate; `Knock`, `Admit` are the validations; built on `Solvability`, whose steps it takes as its own |
| `LevelCatalog` | create, update, publish, archive, reads, seed | `table` is committed; `writes[r]` the row an open transaction holds and locks; `req[r].copy` the level in memory; `SeedUpsert` commits one file's row at a time |
| `Registration` | registrations and the admins' pages | `users`, `writes[r]`, `req[r]` as above; `Insert` is where the unique indexes wait or refuse; `walk` is an admin who asks for page after page, rows and total being two queries |
| `MCSessions`, `MCLeaderboard`, `MCProgress`, `MCLevels`, `MCCatalog`, `MCRegistration` | TLC instances; `DailyChallenge` is run as it is | |
| `SessionsProofs`, `SessionsRotationProofs`, `LeaderboardProofs`, `ProgressProofs`, `DailyChallengeProofs`, `SolvabilityProofs`, `CatalogProofs`, `RegistrationProofs` | the theorems | |

`LevelGeometry` is the part that components share: `LevelGeneration` (through
`Solvability`) and `LevelCatalog` extend it, so a level is playable in the same sense in
both. `LevelCatalog` uses `IsSolvable` in one step where the code runs the algorithm,
because it runs without an `await`; that the algorithm computes `IsSolvable` is what
`VerdictIsSolvable` says, and is proved. `DailyChallenge` leaves out what a candidate
looks like; that the fallback's candidate is never refused is `GeneratedNeverRefused`.

Abstractions. A token is its id: hashes are unique per token. `revokedAt` is reduced to
whether it is set; expiry is an event of the environment that may come at any time.
Scores and times are a set of pairs ordered as the code orders them (higher score, then
shorter time). A generated challenge is known by who generated it and which generator
did, which is what tells two answers of a language model apart. Random draws are
arbitrary choices, so seeds do not appear, nor do the scores by which the script prefers
one candidate to another. An e-mail address is a mailbox and whether it was spelt in
lower case. Ids, dates of update, names, colours, texts and time limits decide nothing
and are left out. History variables (`origin`, `wasSuspended`, `best`, `raced`, `stale`,
`staleRow`, `staleLevels`, `replaced`, `sawEmpty`, `present`, `disordered`) record the
past for properties; no guard reads them.

Row locks: an update of a row waits until no other open transaction has written it.
`revokeAllForUser` takes the locks of its rows together; taking them one by one could
only add a deadlock that PostgreSQL resolves by aborting one transaction, which is
`Fault`. The `save` transactions of leaderboard and progress lock the parent row with
their first statement until they commit, so each is one step.

The connection may be lost after COMMIT was executed and before it is acknowledged: the
rows are there and the client is told 500. In `Sessions`, `LevelCatalog` and `Registration`
this is a choice of `Commit`; the client who tries again then presents a revoked token,
publishes what is published, or meets its own account. In `Leaderboard` and `Progress` it
is `Fault` at the control point after the save, in `DailyChallenge` `SaveFault` after a
RUNNING row was stored. Nothing in the code distinguishes such a failure from any other,
so every property is about both.

## Runs

| Run | Shows |
|---|---|
| `Sessions_safety` | with clients that present a token as often and as concurrently as they like: rotations are atomic (`RotationLinked`), a request that succeeded took effect, and one that failed did all or nothing (`ResponseMatchesTable`), a suspended user gets neither an answer nor a row (`SuspendedGetsNothing`), revocation is final (`RevocationFinal`) |
| `Sessions_single` | with one request per token in flight: a token has one successor (`OneSuccessor`), links are final (`LinkFinal`) and the three use cases implement `SessionRegister` |
| `Sessions_live` | every request is answered, in spite of row locks |
| `Sessions_reuse` | finding: the revocation of a family on reuse is rolled back by the exception that follows it |
| `Sessions_double` | finding: two concurrent refreshes of a token both succeed |
| `Leaderboard_race` | interleaved submissions: always ranked, nothing invented, a submission counts when it is saved; until a save replaces entries it had not read, the board is the top of everybody's best (`TopOfBest`) and a resubmission that is no better changes nothing (`ResubmissionIsNoOp`) |
| `Progress_devices` | two devices: exact best unless a save replaced levels it had not read; the version grows; nothing is invented |
| `Daily_safety` | the use cases implement `IterationRegister` (`ImplementsIterations`): one generation per date, truthful operation logs, failing saves, crashes; a reader who ends after midnight stores under its own date, and only where it found nothing (`OnlyFirstReadersGenerate`); an operation ends unless a failing save or a crash ended its task (`EndsUnlessLost`) |
| `Daily_stuck` | finding: with a failing `cache.save` the operation is RUNNING for ever |
| `Levels` | the algorithm's counts between rounds, its verdict, the game on accepted and on refused levels, generators that are never turned down, jobs that end |
| `Catalog` | published levels stay playable and all rows readable under stale saves and seeds; a status goes back only by a stale copy or the seed (`OnlyStaleCopiesUndo`) |
| `Registration_race` | one account per mailbox and name, true answers, pages that miss nobody |

The findings are recorded in `PROJECT.json` with the line of the code and the sentence of
the documentation they contradict. Where a property is false in general, it says under
which condition it holds (`SingleFlight`, no save of a stale list, no failing save): that
is the contract on which clients and operators may rely.

Three more disagreements with the documents are the conditions inside properties that
hold, and have no run of their own:

- "A worse or equal resubmission is an idempotent no-op" (`src/domain/leaderboard/Leaderboard.ts:56`):
  `SubmitScoreService` saves the list it read also after a no-op, so a stale no-op removes
  what others saved since. `ResubmissionIsNoOp` is about saves that are not stale.
- The spec of manual iterations (`specs/backend-daily-challenge-manual-iteration-MAZ-224.spec.md:70`)
  says "after success, `GET /daily-challenge` for that UTC date returns the new iteration"; a
  reader that looked before and generated slowly replaces it in turn. `OnlyFirstReadersGenerate` permits that, to such a
  reader and under its own date only.
- "Public `GET /levels` must not leak archived levels after archive"
  (`specs/archive-score-preservation-MAZ-200.spec.md:106`); a publication that read the draft before another one published and archived it saves
  PUBLISHED over ARCHIVED, and the seed, "idempotent" by `README.md:244` and `docs/RELEASE.md:47`,
  publishes its archived levels again. `OnlyStaleCopiesUndo` says that nothing else does.

`RefusedNeverCleared` is about boards of one layer. On several layers the planar directions
of the policy look through all of them, so it refuses some levels that could be played:
it is on the safe side, which `AcceptedNeverStuck` confirms for any number of layers.

### Bounds

Two requests are served at a time in each run; slots are
reused, so histories of many requests are covered. Two is what every race found needs;
the theorems hold for any number. Three token ids allow a rotation of
a rotation and a token beside it; the bound `IdLeft` stops arrivals that would need one
more id and never a request being served. Three users on a board of two make the board overflow, and a
stale save frees a place again. Two levels, two results and payloads of up to two completions let
one level improve while another is lost; `MaxVersion` stops new saves at version 2, from
which the saves in flight still go on. Two operations, a reader and three days give
the races on one date and a reader across midnight (what a second reader adds, that one may
find what another stored, is the case of a reader after an iteration; the theorems hold for
any number); an operation or a reader serves
once, so the system may stop, which is why `Daily_stuck`, the run of `DailyChallenge`
without `Crash`, does not check for deadlock.

`Levels` takes boards of up to nine cells, up to three generated and four offered arrows:
a circle of two and one of four, an arrow with two blockers, one whose body lies ahead of
its own head, overlaps, three layers, and one offer that is malformed in each respect a
value object checks. `MaxArrows`, `MaxCells`, `MaxSide` are the code's limits at a size
where an offer exceeds them; `PlacementTries` and `MaxGenerations` are its loop bounds at
two, where the second try and the last one differ. `Catalog` has an authored level and an id for
drafts, and bodies of which one has a mask, one is cyclic and one does not fit the mask; an
update, a publication and an archiving of one level with a seed beside them are the
deepest histories its properties tell apart, and slots are reused. `Registration_race` has
three addresses, names and ids, one user per page and three times, so a row can be
committed behind, at and before the place where the walk stands. Symmetry is used in
safety runs only.

### Fairness

`Sessions!FairSpec` is strong fairness of each request's own steps: PostgreSQL queues
for a row lock, so a waiting request is not overtaken for ever. Arrivals, faults and the
clock are not fair. `DailyChallenge!FairSpec` is weak fairness of each operation's task:
the event loop runs what `setImmediate` was given and no step waits for another actor.
That the generator's call returns is an assumption (`fetch` is given no timeout), as is
that database calls return or fail. `LevelGeneration!FairSpec` is weak fairness of `Work`,
the rounds of the loops: it is synchronous code that nothing can interrupt. The choice
among the draws is not fair: `EveryJobEnds` holds for the unluckiest ones, through the
bounds of the loops. Jobs begin, and players play, when they like.

## Proofs

All theorems hold for any values of the constants that satisfy the named assumptions of
the modules, so for any number of users, levels, requests, arrows or days. Each proof
module proves one inductive invariant (`Init`, the step action by action, with one lemma
for "the others are as they were"), and derives its theorems from it.

Every invariant and every action property of a run that passes is a theorem.

`SessionsProofs`, `SessionsRotationProofs`, from the assumption that the null id is no
token (`NoTokenAssumption`). The first four results do not assume `SingleFlight`, the
last three do, as the run `Sessions_single` does; `Sessions_double` shows that they
are false without it:

- `TypeCorrect`: `Spec => []TypeOK`. `TypeOK` is not inductive: a row is typed only
  because a request past its first read has a user, and because the token it will update
  is stored. `TypeInv` adds this (`Ready`).
- `RotationIsAtomic`: `Spec => []RotationLinked`. The links become visible with `Commit`,
  in one step, so the invariant has to say what an open transaction has written.
  `FreshInv` says that a generated id is the request's own and not stored until the request
  is over (`Over`), and that a transaction that has not written yet holds no rows. `RowsInv` says
  that a request past its save of the new token holds exactly that row, that one about
  to commit revokes what it updates and keeps owner and origin (`UpdateRevokes`), that
  its links will hold afterwards (`LinkWillHold`), and that a link read by logout is one
  of the table. `RotationInv` is their conjunction with `TypeInv` and `RotationLinked`
  and is inductive; the step is proved action by action, with one lemma each for first
  reads, saves of new rows, updates and `Commit`.
- `RevocationIsFinal`: `Spec => RevocationFinal`, from the same invariant: only `Commit`
  changes the table, and `UpdateRevokes` says that what it overwrites is revoked.
- `ResponsesAreTrue` (`ResponseMatchesTable`), `SuspendedGetsNone` (`SuspendedGetsNothing`).
  The first says of a failed request that it did all or nothing: if its new token is stored,
  it was `Commit` that was not acknowledged, and both saves are there.
  To what a transaction has written, `ResponseInv` adds which use case a control point
  belongs to, and that what `Commit` makes visible is what the answer will say
  (`WillAnswer`); the token that was answered is stored for good by `RevocationIsFinal`'s
  argument. A user who was suspended at the first look is so at the second one, so that no
  token is generated.
- `ExchangedOnce` (`OneSuccessor`), `LinkIsFinal` (`LinkFinal`), and
  `RotationImplementsRegister` (`ImplementsRegister`), the refinement. `ExchangeInv` says
  that nobody else presents the token (`Alone`), so the copy a request holds of it is the
  stored row until its `Commit` (`HeldInv`), that a token that was exchanged is stored and revoked
  (`OriginsRevoked`), and that an open transaction about to commit either opens a session,
  exchanges one, closes one or writes nothing. `Commit` then is a step of `SessionRegister` or
  a stutter, and every other step is a stutter, rollbacks and faults among them.

`LeaderboardProofs`, from `ResultsAssumption` and `MaxEntriesAssumption`, which say that
results are pairs of numbers and the board has at least one place:

- `TypeCorrect`, `AlwaysRanked` (`BoardRanked`), `NoInvention` (`NothingInvented`),
  `TopIsKept` (`TopOfBest`), `SubmissionCounts` (`OwnSubmissionCounts`),
  `ResubmissionKeepsBoard` (`ResubmissionIsNoOp`). The lemmas about the model's ranking come first:
  the rank of an entry is one more than the number of entries before it, ranks are a
  permutation, so that `RankEntries` holds every entry once and in order, and cutting it
  drops only entries that are no better than all that stay. The invariant then says, per request, that a list in memory is ranked, that it became stale only if the board exists, that it shows the requester's own entry or what was submitted before,
  and that, unless another save made it stale, it is the stored list with the submission
  taken in. That a result pushed off the board never has to come back needs `Counted`:
  everybody's best is on the board, or the board is full of results as good, and a
  submission only replaces results by better ones.

`SolvabilityProofs`, about every `Spec` step of `LevelGeneration`, from the bounds and from
`OptionsAssumption`: the configurations of the strategy and of the script are within the
limits of the value objects (regions without duplicates in one layer, arrow counts up to
`MaxArrows`, at least one attempt, which is so for those in the code), and an offer is a list
of arrows, otherwise arbitrary:

- `TypeCorrect`, `CountsCorrect` (`KahnCounts`), `VerdictCorrect` (`VerdictIsSolvable`),
  `NeverStuck` (`AcceptedNeverStuck`), `NeverCleared` (`RefusedNeverCleared`). The
  invariant is `KahnCounts` with `Peeled`: the blockers of visited arrows are visited, and
  every set of visited arrows has one that none of the set blocks, the first of them to
  be visited, which is all that is left of the order of the visits. From it "all visited"
  gives acyclicity; a queue that runs empty early leaves a set that blocks itself. That an unblocked arrow can leave, and on one layer the
  converse, are lemmas about the rays of the geometry (`UnblockedLeaves` and its
  neighbours).
- `OursAreAccepted` (`GeneratedNeverRefused`). Both steps of a family climb the same
  diagonal slope (`Height`), so a path of the script rises by one from cell to cell: it
  cannot meet itself, its head cannot look back (`ClimbingIsValid`), and whatever blocks an
  arrow has its head higher up (`BlockerIsHigher`). The highest arrow of any group is
  therefore blocked by none of it, and the script's claim that one family is always
  solvable is `OneFamilyIsSolvable`. For the strategy, whose straight arrows may well lock
  each other, it is the policy's verdict that is the same at the door as in the test, because
  the level offered is the level tested. `MadeInv` carries this: the arrows are numbered, valid, in the
  region and apart (`Tidy`), those of the script climb (`Uphill`), and past its test a level is
  solvable and offered as it was built (`Tested`).

`CatalogProofs`, from the typing of bodies and files:

- `TypeCorrect`, `Playable` (`PublishedPlayable`), `AllReadable` (`CatalogReadable`),
  `StaleCopiesUndo` (`OnlyStaleCopiesUndo`). The invariant says that every row is
  `Sound` (readable, and solvable unless a draft) wherever it is: in the table, in an open
  transaction, in a copy; that transitions keep soundness (`TransitionIsLawful`); and that
  a copy that is not stale is still a lawful successor of the stored row, which the row
  locks protect from the save to the commit.

`RegistrationProofs`:

- `TypeCorrect`, `OneAccount` (`OneAccountPerMailbox`), `TrueAnswers` (`AnswersTrue`). The
  checks of `existsByEmail` and `existsByUsername` do not appear in the invariant: it is
  `KeysUnique` over the table and all open transactions together, from the index,
  with addresses normalised (`Spelling` in lower case) so that a key is a mailbox.
- `WalkIsComplete` (`WalkMissesNobody`), for any page size. The place of a user in the list
  is the number of rows created earlier, and stays what it is while rows are committed
  at the end only. `WalkInv` says for everyone who was there at the start that, depending on
  the place, the user was shown on an earlier page, is among the rows of this one, or stands
  beyond it and below the total, for which the walk goes on. Two users created at the same
  time have no order between them, which is why the property excepts them.

`DailyChallengeProofs`:

- `TypeCorrect`, `OneRunning` (`OneRunningPerDate`), `TrueOutcome` (`OutcomeIsTrue`),
  `FirstReadersOnly` (`OnlyFirstReadersGenerate`). The invariant ties the row of an
  operation to its task (`RowOf`: a pipeline runs only while the row is RUNNING and for its
  date), the task to its log (`TaskOf`: the fallback was used exactly if the log says so,
  the last event is the outcome) and keeps RUNNING rows apart (`RunningApart`, by the
  index). A lost task leaves RUNNING rows without a task, which it allows.
- `IterationsImplementRegister` (`ImplementsIterations`): `SaveRunning` is `Open`,
  `IterationSaveCache` is `Publish`, `PersistTerminal` is `Close` and `ReaderSaveCache` is
  `Provide`; every other step, failure and crash leaves the mapped state as it is. From the
  invariant it takes that the row of a task that publishes is RUNNING for the task's date,
  that a task publishes once, that its challenge carries its own name and a reader's the
  reader's, and that the outcome in its log is FAILED exactly if it published nothing.

`ProgressProofs`:

- `TypeCorrect`, `BestIsKept` (`BestUnlessRaced`), `NoInvention` (`NothingInvented`),
  `LossIsARace` (`LossNeedsRace`). Results form a strict
  total order, a finite payload therefore has a best result (`BestExists`), and both
  `RecordCompletion` and `Merge` equal `Applied`, the payload applied to what was read.
  The invariant then says that a request whose read is current holds that of the stored
  levels, and any other one at most that of the best ever saved.

Model-checked only: the liveness properties (`EveryRequestAnswered`, `EndsUnlessLost`,
`EveryJobEnds`), because the prover has no rules for fairness and ENABLED; and of course
the properties that the runs with findings refute. Induction over numbers is used nowhere:
where a path or a list calls for it, the proof takes the first counterexample, or the highest
element, of a finite set (`HighestExists`, `BestExists`).

## Plan

Done: the modules above, in the order `Sessions`, `Leaderboard`, `Progress`,
`DailyChallenge`, `LevelGeometry`, `Solvability`, `LevelGeneration`, `LevelCatalog`,
`Registration`, and their proofs. Left, in this order:

1. Proofs: that the statuses of `LevelCatalog` implement an abstract specification of their
   own, as rotations and iterations do; and the invariant half of the liveness arguments, that no request waits for itself or in a circle.
2. The seed's demo users, progress and boards, if the script comes to be used beside a
   running server.

## Not modelled

Transport, presentation and the API document (`openApiSpec.ts` is text); logging and the
event bus, which has no subscriber that changes state; JWT signature and expiry, which are
a library's (that a request without a role is refused before anything is read is
`ArriveRefused` of `LevelCatalog`); the demo users, progress and leaderboards of the seed
and the scripts other than `generate-level-seed`; `changePassword` and `suspend` of `User`,
which no use case calls (`Sessions` has suspension as an event of the environment). They
keep no state between requests, run alone, or are not part of the running program.
