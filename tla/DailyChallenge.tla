--------------------------- MODULE DailyChallenge ---------------------------
(***************************************************************************)
(* The daily challenge: GetDailyChallengeUseCase (public readers) and      *)
(* StartDailyChallengeIterationUseCase (admins) over the tables            *)
(* daily_challenges (one row per UTC date) and daily_challenge_iterations. *)
(*                                                                         *)
(* An admin's request stores a RUNNING operation and answers; its pipeline *)
(* then runs in a task that setImmediate starts and nobody awaits.  It     *)
(* lives in the memory of the process, and an exception in it is           *)
(* swallowed.  Nothing here runs in a transaction: each repository or      *)
(* generator call is one action.                                           *)
(***************************************************************************)
EXTENDS Naturals, Sequences

CONSTANTS
  Ops,          \* operation ids; each is also the slot of one admin request
  Readers,      \* public requests; each is served once
  MaxDay,       \* bound: the last UTC day
  NoChallenge,
  Faults        \* what may fail: steps that save, or "crash"

ASSUME MaxDayAssumption == MaxDay \in Nat

ASSUME ActorsAssumption == Ops \cap Readers = {}

ASSUME FaultsAssumption ==
  Faults \subseteq {"saveRunning", "saveCache", "saveTerminal", "crash"}

\* The actors whose generation produced it and the generator stand for the
\* level itself: a language model does not give the same answer twice.
Challenge == [by : Ops \cup Readers, source : {"gemini", "fallback"}]

ASSUME NoChallengeAssumption == NoChallenge \notin Challenge

VARIABLES
  today,     \* the UTC date of the clock
  cache,     \* daily_challenges
  table,     \* daily_challenge_iterations
  pc,        \* where each admin request or task, and each reader, stands
  mem,       \* its local variables
  replaced   \* history: operations whose challenge has been in the cache

vars == <<today, cache, table, pc, mem, replaced>>

Days == 0 .. MaxDay

EventType == {"REQUESTED", "GENERATION_STARTED", "GENERATOR_SELECTED", "CANDIDATE_REJECTED",
              "FALLBACK_USED", "VALIDATION_PASSED", "CACHE_REPLACED", "FAILED"}

\* status "absent": the operation id has no row
Operation == [status : {"absent", "RUNNING", "SUCCEEDED", "FAILED"}, date : Days,
              events : Seq(EventType), challenge : Challenge \cup {NoChallenge}]

NoOperation == [status |-> "absent", date |-> 0, events |-> <<>>, challenge |-> NoChallenge]

\* sawEmpty is history: the date had no challenge when the reader looked.
Memory == [date : Days, events : Seq(EventType),
           challenge : Challenge \cup {NoChallenge}, sawEmpty : BOOLEAN]

NoMemory == [date |-> 0, events |-> <<>>, challenge |-> NoChallenge, sawEmpty |-> FALSE]

Waiting == {"find", "saveRunning", "scheduled", "gemini", "fallback", "saveCache", "saveTerminal"}

TypeOK ==
  /\ today \in Days
  /\ cache \in [Days -> Challenge \cup {NoChallenge}]
  /\ table \in [Ops -> Operation]
  /\ pc \in [Ops \cup Readers -> Waiting \cup {"idle", "ok", "failed"}]
  /\ mem \in [Ops \cup Readers -> Memory]
  /\ replaced \subseteq Ops

Init ==
  /\ today = 0
  /\ cache = [d \in Days |-> NoChallenge]
  /\ table = [o \in Ops |-> NoOperation]
  /\ pc = [a \in Ops \cup Readers |-> "idle"]
  /\ mem = [a \in Ops \cup Readers |-> NoMemory]
  /\ replaced = {}

-----------------------------------------------------------------------------
Goto(a, place) == pc' = [pc EXCEPT ![a] = place]

Log(a, events) == mem' = [mem EXCEPT ![a].events = @ \o events]

\* tryGenerate, in an iteration and in a reader: a candidate that is missing or
\* does not validate counts as none.
Generated(a, source) ==
  mem' = [mem EXCEPT ![a].challenge = [by |-> a, source |-> source],
                     ![a].events = @ \o <<"VALIDATION_PASSED">>]

Running(d) == {o \in Ops : table[o].status = "RUNNING" /\ table[o].date = d}

-----------------------------------------------------------------------------
(* StartDailyChallengeIterationUseCase *)

\* Mutant: the pipeline works on the day after the requested one.
StartTomorrow(o, d) ==
  /\ pc[o] = "idle" /\ d <= today
  /\ Running(d) = {}
  /\ mem' = [mem EXCEPT ![o].date = d + 1]
  /\ Goto(o, "saveRunning")
  /\ UNCHANGED <<today, cache, table, replaced>>

\* A malformed or a future date is refused, and a date with a RUNNING operation
\* is answered with that operation (409); neither changes anything.
Start(o, d) ==
  /\ pc[o] = "idle" /\ d <= today
  /\ Running(d) = {}
  /\ mem' = [mem EXCEPT ![o].date = d]
  /\ Goto(o, "saveRunning")
  /\ UNCHANGED <<today, cache, table, replaced>>

\* Mutant: the table has no partial unique index.
SaveRunningNoIndex(o) ==
  /\ pc[o] = "saveRunning"
  /\ table' = [table EXCEPT ![o] = [NoOperation EXCEPT
                 !.status = "RUNNING", !.date = mem[o].date, !.events = <<"REQUESTED">>]]
  /\ Log(o, <<"REQUESTED">>)
  /\ Goto(o, "scheduled")
  /\ UNCHANGED <<today, cache, replaced>>

\* The partial unique index refuses a second RUNNING row of a date: the request
\* fails with an InfrastructureError and its operation id is never used.
SaveRunning(o) ==
  /\ pc[o] = "saveRunning"
  /\ IF Running(mem[o].date) = {}
       THEN /\ table' = [table EXCEPT ![o] = [NoOperation EXCEPT
                 !.status = "RUNNING", !.date = mem[o].date, !.events = <<"REQUESTED">>]]
            /\ Log(o, <<"REQUESTED">>)
            /\ Goto(o, "scheduled")
       ELSE Goto(o, "failed") /\ UNCHANGED <<table, mem>>
  /\ UNCHANGED <<today, cache, replaced>>

\* runPipeline, up to the call of the first generator.
RunPipeline(o) ==
  /\ pc[o] = "scheduled"
  /\ Log(o, <<"GENERATION_STARTED", "GENERATOR_SELECTED">>)
  /\ Goto(o, "gemini")
  /\ UNCHANGED <<today, cache, table, replaced>>

IterationGemini(o) ==
  /\ pc[o] = "gemini"
  /\ \/ Generated(o, "gemini") /\ Goto(o, "saveCache")
     \/ /\ Log(o, <<"CANDIDATE_REJECTED", "FALLBACK_USED", "GENERATOR_SELECTED">>)
        /\ Goto(o, "fallback")
  /\ UNCHANGED <<today, cache, table, replaced>>

\* Mutant: when both generators failed the pipeline returns without saving.
IterationFallbackReturns(o) ==
  /\ pc[o] = "fallback"
  /\ \/ Generated(o, "fallback") /\ Goto(o, "saveCache")
     \/ Log(o, <<"CANDIDATE_REJECTED", "FAILED">>) /\ Goto(o, "ok")
  /\ UNCHANGED <<today, cache, table, replaced>>

IterationFallback(o) ==
  /\ pc[o] = "fallback"
  /\ \/ Generated(o, "fallback") /\ Goto(o, "saveCache")
     \/ Log(o, <<"CANDIDATE_REJECTED", "FAILED">>) /\ Goto(o, "saveTerminal")
  /\ UNCHANGED <<today, cache, table, replaced>>

\* Mutant: the challenge becomes that of today, not of the requested date.
IterationSaveCacheToday(o) ==
  /\ pc[o] = "saveCache"
  /\ cache' = [cache EXCEPT ![today] = mem[o].challenge]
  /\ replaced' = replaced \cup {o}
  /\ Log(o, <<"CACHE_REPLACED">>)
  /\ Goto(o, "saveTerminal")
  /\ UNCHANGED <<today, table>>

IterationSaveCache(o) ==
  /\ pc[o] = "saveCache"
  /\ cache' = [cache EXCEPT ![mem[o].date] = mem[o].challenge]
  /\ replaced' = replaced \cup {o}
  /\ Log(o, <<"CACHE_REPLACED">>)
  /\ Goto(o, "saveTerminal")
  /\ UNCHANGED <<today, table>>

PersistTerminal(o) ==
  /\ pc[o] = "saveTerminal"
  /\ table' = [table EXCEPT ![o].status = IF mem[o].challenge = NoChallenge
                                            THEN "FAILED" ELSE "SUCCEEDED",
                            ![o].events = mem[o].events,
                            ![o].challenge = mem[o].challenge]
  /\ Goto(o, "ok")
  /\ UNCHANGED <<today, cache, mem, replaced>>

-----------------------------------------------------------------------------
(* GetDailyChallengeUseCase *)

ReaderArrive(p) ==
  /\ pc[p] = "idle"
  /\ mem' = [mem EXCEPT ![p].date = today]
  /\ Goto(p, "find")
  /\ UNCHANGED <<today, cache, table, replaced>>

\* Mutant: the midnight at which the day begins.
ExpiresAtOnce(d) == d

\* expiresAt, the next UTC midnight after date d
ExpiresAt(d) == d + 1

\* isCurrentCache: expiresAt is later than the reader's now, a time of day d.
\* The row was found by its date, so the comparison of dates always holds.
IsCurrentCache(challenge, d) == challenge # NoChallenge /\ ExpiresAt(d) > d

ReaderFind(p) ==
  /\ pc[p] = "find"
  /\ LET cached == cache[mem[p].date]
     IN  IF IsCurrentCache(cached, mem[p].date)
           THEN mem' = [mem EXCEPT ![p].challenge = cached] /\ Goto(p, "ok")
           ELSE mem' = [mem EXCEPT ![p].sawEmpty = cached = NoChallenge] /\ Goto(p, "gemini")
  /\ UNCHANGED <<today, cache, table, replaced>>

ReaderGemini(p) ==
  /\ pc[p] = "gemini"
  /\ \/ Generated(p, "gemini") /\ Goto(p, "saveCache")
     \/ Goto(p, "fallback") /\ UNCHANGED mem
  /\ UNCHANGED <<today, cache, table, replaced>>

\* Without a challenge the reader is answered 503.
ReaderFallback(p) ==
  /\ pc[p] = "fallback"
  /\ \/ Generated(p, "fallback") /\ Goto(p, "saveCache")
     \/ Goto(p, "failed") /\ UNCHANGED mem
  /\ UNCHANGED <<today, cache, table, replaced>>

ReaderSaveCache(p) ==
  /\ pc[p] = "saveCache"
  /\ cache' = [cache EXCEPT ![mem[p].date] = mem[p].challenge]
  /\ Goto(p, "ok")
  /\ UNCHANGED <<today, table, mem, replaced>>

-----------------------------------------------------------------------------
(* The clock, the database and the process *)

NewDay ==
  /\ today < MaxDay
  /\ today' = today + 1
  /\ UNCHANGED <<cache, table, pc, mem, replaced>>

\* Mutant: the pipeline catches a failed cache.save and goes on to SUCCEEDED.
SaveFaultCaught(a) ==
  /\ pc[a] \in Faults \/ (pc[a] = "scheduled" /\ "saveRunning" \in Faults)
  /\ Goto(a, IF a \in Ops /\ pc[a] = "saveCache" THEN "saveTerminal" ELSE "failed")
  /\ UNCHANGED <<today, cache, table, mem, replaced>>

\* A save throws: a request is answered 500, and the scheduler swallows the
\* exception of a task.  A save may have been executed although its answer was
\* lost: the RUNNING row is then stored and its task never scheduled.  (The
\* answer of cache.save being lost is the same as saveTerminal failing.)
SaveFault(a) ==
  /\ pc[a] \in Faults \/ (pc[a] = "scheduled" /\ "saveRunning" \in Faults)
  /\ Goto(a, "failed")
  /\ UNCHANGED <<today, cache, table, mem, replaced>>

\* Requests and tasks in memory are lost; nothing takes them up on a restart.
Crash ==
  /\ "crash" \in Faults
  /\ pc' = [a \in Ops \cup Readers |-> IF pc[a] \in Waiting THEN "failed" ELSE pc[a]]
  /\ UNCHANGED <<today, cache, table, mem, replaced>>

Admin(o) ==
  \/ SaveRunning(o) \/ RunPipeline(o)
  \/ IterationGemini(o) \/ IterationFallback(o)
  \/ IterationSaveCache(o) \/ PersistTerminal(o)

Reader(p) ==
  \/ ReaderFind(p) \/ ReaderGemini(p) \/ ReaderFallback(p) \/ ReaderSaveCache(p)

Next ==
  \/ \E o \in Ops : Admin(o) \/ \E d \in Days : Start(o, d)
  \/ \E p \in Readers : ReaderArrive(p) \/ Reader(p)
  \/ \E a \in Ops \cup Readers : SaveFault(a)
  \/ NewDay \/ Crash

Spec == Init /\ [][Next]_vars

\* The event loop runs every task it was given and no step waits for another
\* actor.  That every call returns is an assumption about fetch, which is given
\* no timeout, and about the database.
FairSpec == Spec /\ \A o \in Ops : WF_vars(Admin(o))

-----------------------------------------------------------------------------
(* Properties *)

\* Two admins that both found no RUNNING operation do not start two generations
\* of one date: at most one operation per date is RUNNING, and at most one
\* pipeline works on it.
OneRunningPerDate ==
  \A o, q \in Ops : o # q /\ mem[o].date = mem[q].date =>
    /\ ~(o \in Running(mem[o].date) /\ q \in Running(mem[o].date))
    /\ ~(/\ pc[o] \in Waiting \ {"saveRunning"}
         /\ pc[q] \in Waiting \ {"saveRunning"})

\* What the admin reads in the log of an operation that ended is what happened
\* to the public challenge: SUCCEEDED with a challenge that was in the cache,
\* FAILED without having touched it, and the log ends accordingly.
OutcomeIsTrue ==
  \A o \in Ops :
    LET log == table[o].events
    IN  /\ table[o].status = "SUCCEEDED" =>
             /\ o \in replaced /\ table[o].challenge.by = o
             /\ log[Len(log)] = "CACHE_REPLACED"
             /\ table[o].challenge.source = "fallback" <=> \E i \in DOMAIN log : log[i] = "FALLBACK_USED"
        /\ table[o].status = "FAILED" =>
             /\ o \notin replaced /\ table[o].challenge = NoChallenge
             /\ log[Len(log)] = "FAILED"

\* A reader's challenge becomes that of a date only if the reader began on this
\* date and looked before it had a challenge: no reader regenerates a day that
\* was stored, and one that ends after midnight stores it under its own date.
OnlyFirstReadersGenerate ==
  [][\A d \in Days, p \in Readers :
       cache'[d] # cache[d] /\ cache'[d] \in Challenge /\ cache'[d].by = p =>
         mem[p].sawEmpty /\ mem[p].date = d]_vars

\* What the tables say of the iterations: the rows without their logs, and the
\* challenge that each task has put in the cache.
Iterations == INSTANCE IterationRegister
                WITH Challenges <- Challenge, public <- cache,
                     operation <- [o \in Ops |-> [status |-> table[o].status, date |-> table[o].date,
                                                  challenge |-> table[o].challenge]],
                     published <- [o \in Ops |-> IF o \in replaced THEN mem[o].challenge
                                                                   ELSE NoChallenge]

\* Iterations implement their promise, with readers, failing saves and crashes
\* between any two steps: a date has one open operation, which replaces the
\* challenge of that date and of no other, once; and it is closed for good, with
\* the challenge it published or, if and only if there was none, as FAILED.
ImplementsIterations == Iterations!Spec

\* "The operation ends as FAILED" also if persistence fails: the admin who polls
\* it sees SUCCEEDED or FAILED, and its date becomes free for the next iteration.
OperationEnds ==
  \A o \in Ops : table[o].status = "RUNNING" ~> table[o].status \in {"SUCCEEDED", "FAILED"}

\* An operation ends unless its task was lost: only a failing save or a crash
\* ends a task before it has stored the outcome, never the generators' failures,
\* the readers or another operation.
EndsUnlessLost ==
  \A o \in Ops : table[o].status = "RUNNING" ~>
    table[o].status \in {"SUCCEEDED", "FAILED"} \/ pc[o] = "failed"
=============================================================================
