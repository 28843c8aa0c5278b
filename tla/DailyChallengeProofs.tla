------------------------- MODULE DailyChallengeProofs -------------------------
(***************************************************************************)
(* Proofs about DailyChallenge, for any number of admins, readers and days *)
(* and whatever may fail.                                                  *)
(***************************************************************************)
EXTENDS DailyChallenge, SequenceTheorems, TLAPS

Actors == Ops \cup Readers

-----------------------------------------------------------------------------
(* Event logs.                                                              *)

HasFallback(log) == \E i \in DOMAIN log : log[i] = "FALLBACK_USED"

EndsWith(log, event) == log # <<>> /\ log[Len(log)] = event

\* What was logged stays in the log, and its last event is the latest.
LEMMA LoggedEvents ==
  ASSUME NEW s \in Seq(EventType), NEW t \in Seq(EventType)
  PROVE  /\ s \o t \in Seq(EventType)
         /\ HasFallback(s \o t) <=> HasFallback(s) \/ HasFallback(t)
         /\ t # <<>> => EndsWith(s \o t, t[Len(t)])
<1>1. /\ s \o t \in Seq(EventType) /\ Len(s \o t) = Len(s) + Len(t)
      /\ \A i \in 1 .. Len(s) + Len(t) : (s \o t)[i] = IF i <= Len(s) THEN s[i] ELSE t[i - Len(s)]
  BY ConcatProperties
<1>2. Len(s) \in Nat /\ Len(t) \in Nat
  OBVIOUS
<1>3. HasFallback(s \o t) => HasFallback(s) \/ HasFallback(t)
  <2> SUFFICES ASSUME NEW i \in 1 .. Len(s) + Len(t), (s \o t)[i] = "FALLBACK_USED"
               PROVE  HasFallback(s) \/ HasFallback(t)
    BY <1>1 DEF HasFallback
  <2>1. CASE i <= Len(s)
    BY <1>1, <1>2, <2>1 DEF HasFallback
  <2>2. CASE i > Len(s)
    <3>1. t[i - Len(s)] = "FALLBACK_USED" /\ i - Len(s) \in DOMAIN t
      BY <1>1, <1>2, <2>2
    <3> QED BY <3>1 DEF HasFallback
  <2> QED BY <1>2, <2>1, <2>2
<1>4. HasFallback(s) => HasFallback(s \o t)
  <2> SUFFICES ASSUME NEW i \in DOMAIN s, s[i] = "FALLBACK_USED"
               PROVE  HasFallback(s \o t)
    BY DEF HasFallback
  <2>1. i \in DOMAIN (s \o t) /\ (s \o t)[i] = "FALLBACK_USED"
    BY <1>1, <1>2
  <2> QED BY <2>1 DEF HasFallback
<1>5. HasFallback(t) => HasFallback(s \o t)
  <2> SUFFICES ASSUME NEW i \in DOMAIN t, t[i] = "FALLBACK_USED"
               PROVE  HasFallback(s \o t)
    BY DEF HasFallback
  <2>1. Len(s) + i \in DOMAIN (s \o t) /\ (s \o t)[Len(s) + i] = "FALLBACK_USED"
    BY <1>1, <1>2
  <2> QED BY <2>1 DEF HasFallback
<1>6. t # <<>> => EndsWith(s \o t, t[Len(t)])
  <2> SUFFICES ASSUME t # <<>> PROVE EndsWith(s \o t, t[Len(t)])
    OBVIOUS
  <2>1. Len(t) > 0
    BY <1>2
  <2>2. (s \o t)[Len(s) + Len(t)] = t[Len(t)] /\ s \o t # <<>>
    BY <1>1, <1>2, <2>1
  <2> QED BY <1>1, <2>2 DEF EndsWith
<1> QED BY <1>1, <1>3, <1>4, <1>5, <1>6

-----------------------------------------------------------------------------
(* The invariant.  A task stands at most where its row and its log say, and *)
(* the unique index, not the check before it, keeps RUNNING rows apart.     *)

Pipeline == {"scheduled", "gemini", "fallback", "saveCache", "saveTerminal"}

\* The row of an operation follows its task.
RowOf(o) ==
  /\ table[o].status = "absent" => pc[o] \in {"idle", "saveRunning", "failed"}
  /\ table[o].status # "absent" => table[o].date = mem[o].date
  /\ pc[o] \in {"idle", "saveRunning"} => table[o].status = "absent" /\ o \notin replaced
                                            /\ mem[o] = [NoMemory EXCEPT !.date = mem[o].date]
  /\ pc[o] \in Pipeline => table[o].status = "RUNNING"
  /\ table[o].status \in {"SUCCEEDED", "FAILED"} => pc[o] = "ok"
  /\ pc[o] # "find"

\* What a task has in memory while its operation is RUNNING.
TaskOf(o) ==
  /\ pc[o] \in {"scheduled", "gemini", "fallback"} => mem[o].challenge = NoChallenge
  /\ pc[o] \in {"scheduled", "gemini", "fallback", "saveCache"} => o \notin replaced
  /\ pc[o] \in {"scheduled", "gemini"} => ~HasFallback(mem[o].events)
  /\ pc[o] = "fallback" => HasFallback(mem[o].events)
  /\ pc[o] \in {"saveCache", "saveTerminal"} /\ mem[o].challenge # NoChallenge =>
       mem[o].challenge.by = o /\ (mem[o].challenge.source = "fallback" <=> HasFallback(mem[o].events))
  /\ pc[o] = "saveCache" => mem[o].challenge # NoChallenge
  /\ pc[o] = "saveTerminal" =>
       IF mem[o].challenge = NoChallenge
         THEN o \notin replaced /\ EndsWith(mem[o].events, "FAILED")
         ELSE o \in replaced /\ EndsWith(mem[o].events, "CACHE_REPLACED")

\* What the row says once its operation has ended.
OutcomeOf(o) ==
  /\ table[o].status = "SUCCEEDED" =>
       /\ o \in replaced /\ table[o].challenge.by = o /\ EndsWith(table[o].events, "CACHE_REPLACED")
       /\ table[o].challenge.source = "fallback" <=> HasFallback(table[o].events)
  /\ table[o].status = "FAILED" =>
       o \notin replaced /\ table[o].challenge = NoChallenge /\ EndsWith(table[o].events, "FAILED")

OpInv(o) == RowOf(o) /\ TaskOf(o) /\ OutcomeOf(o)

RunningApart ==
  \A o, q \in Ops : table[o].status = "RUNNING" /\ table[q].status = "RUNNING"
                      /\ table[o].date = table[q].date => o = q

\* A reader that generates found nothing, and stores what it generated itself.
ReaderInv(p) ==
  /\ pc[p] \in {"gemini", "fallback", "saveCache"} => mem[p].sawEmpty
  /\ pc[p] = "saveCache" => mem[p].challenge \in Challenge /\ mem[p].challenge.by = p

IInv ==
  /\ TypeOK /\ RunningApart
  /\ \A o \in Ops : OpInv(o)
  /\ \A p \in Readers : ReaderInv(p)

LEMMA IInvInit == Init => IInv
<1> SUFFICES ASSUME Init PROVE IInv
  OBVIOUS
<1>1. 0 \in Days /\ NoOperation \in Operation /\ NoMemory \in Memory
  BY MaxDayAssumption DEF Days, NoOperation, Operation, NoMemory, Memory
<1>2. TypeOK
  BY <1>1 DEF Init, TypeOK
<1>3. \A o \in Ops : OpInv(o)
  BY DEF Init, OpInv, RowOf, TaskOf, OutcomeOf, Pipeline, NoOperation, NoMemory
<1>4. RunningApart /\ \A p \in Readers : ReaderInv(p)
  BY DEF Init, RunningApart, ReaderInv, NoOperation
<1> QED BY <1>2, <1>3, <1>4 DEF IInv

\* An actor that leaves the rows alone.  All others are as they were.
Alone(a, place, new) ==
  /\ place \in Waiting \cup {"idle", "ok", "failed"} /\ new \in Memory
  /\ pc' = [pc EXCEPT ![a] = place] /\ mem' = [mem EXCEPT ![a] = new]

LEMMA OthersKept ==
  ASSUME IInv, NEW a \in Actors, NEW place, NEW new, Alone(a, place, new),
         table' \in [Ops -> Operation], \A o \in Ops \ {a} : table'[o] = table[o],
         replaced' \in {replaced, replaced \cup ({a} \cap Ops)},
         today' = today, cache' \in [Days -> Challenge \cup {NoChallenge}],
         a \in Ops => OpInv(a)' /\ RunningApart',
         a \in Readers => ReaderInv(a)'
  PROVE  IInv'
<1>1. TypeOK'
  BY DEF IInv, TypeOK, Alone, Actors
<1>2. pc'[a] = place /\ mem'[a] = new /\ \A b \in Actors \ {a} : pc'[b] = pc[b] /\ mem'[b] = mem[b]
  BY DEF Alone, IInv, TypeOK, Actors
<1>3. ASSUME NEW o \in Ops, o # a
      PROVE  OpInv(o)'
  <2>1. table'[o] = table[o] /\ pc'[o] = pc[o] /\ mem'[o] = mem[o] /\ (o \in replaced' <=> o \in replaced)
    BY <1>2, <1>3 DEF Actors
  <2> QED BY <2>1 DEF IInv, OpInv, RowOf, TaskOf, OutcomeOf
<1>4. ASSUME NEW p \in Readers, p # a
      PROVE  ReaderInv(p)'
  BY <1>2, <1>4 DEF IInv, ReaderInv, Actors
<1>5. a \in Readers => RunningApart'
  <2>1. a \in Readers => \A o \in Ops : table'[o] = table[o]
    BY ActorsAssumption
  <2> QED BY <2>1 DEF IInv, RunningApart
<1> QED BY <1>1, <1>3, <1>4, <1>5 DEF IInv, Actors

-----------------------------------------------------------------------------
(* The three ways in which an actor changes its memory.                     *)

Places == Waiting \cup {"idle", "ok", "failed"}

LEMMA Moved ==
  ASSUME TypeOK, NEW a \in Actors, NEW place \in Places, Goto(a, place), UNCHANGED mem
  PROVE  Alone(a, place, mem[a]) /\ pc'[a] = place /\ mem'[a] = mem[a]
<1>1. mem[a] \in Memory /\ mem' = [mem EXCEPT ![a] = mem[a]] /\ pc'[a] = place
  BY DEF TypeOK, Actors, Goto
<1> QED BY <1>1 DEF Alone, Goto, Places

LEMMA Logged ==
  ASSUME TypeOK, NEW a \in Actors, NEW place \in Places, NEW events \in Seq(EventType),
         Goto(a, place), Log(a, events)
  PROVE  /\ Alone(a, place, mem'[a]) /\ pc'[a] = place
         /\ mem'[a].events = mem[a].events \o events /\ mem'[a].date = mem[a].date
         /\ mem'[a].challenge = mem[a].challenge /\ mem'[a].sawEmpty = mem[a].sawEmpty
<1> DEFINE new == [mem[a] EXCEPT !.events = mem[a].events \o events]
<1>1. mem[a] \in Memory /\ pc'[a] = place
  BY DEF TypeOK, Actors, Goto
<1>2. mem[a].events \o events \in Seq(EventType)
  BY <1>1, LoggedEvents DEF Memory
<1>3. new \in Memory /\ new.events = mem[a].events \o events /\ new.date = mem[a].date
      /\ new.challenge = mem[a].challenge /\ new.sawEmpty = mem[a].sawEmpty
  BY <1>1, <1>2 DEF Memory
<1>4. mem' = [mem EXCEPT ![a] = new] /\ mem'[a] = new
  BY DEF Log, TypeOK, Actors
<1> HIDE DEF new
<1> QED BY <1>1, <1>3, <1>4 DEF Alone, Goto, Places

LEMMA GeneratedBy ==
  ASSUME TypeOK, NEW a \in Actors, NEW place \in Places, NEW source \in {"gemini", "fallback"},
         Goto(a, place), Generated(a, source)
  PROVE  /\ Alone(a, place, mem'[a]) /\ pc'[a] = place
         /\ mem'[a].events = mem[a].events \o <<"VALIDATION_PASSED">>
         /\ mem'[a].date = mem[a].date /\ mem'[a].sawEmpty = mem[a].sawEmpty
         /\ mem'[a].challenge \in Challenge
         /\ mem'[a].challenge.by = a /\ mem'[a].challenge.source = source
<1> DEFINE made == [by |-> a, source |-> source]
           log == mem[a].events \o <<"VALIDATION_PASSED">>
           new == [mem[a] EXCEPT !.challenge = made, !.events = log]
<1>1. mem[a] \in Memory /\ pc'[a] = place
  BY DEF TypeOK, Actors, Goto
<1>2. <<"VALIDATION_PASSED">> \in Seq(EventType)
  BY DEF EventType
<1>3. log \in Seq(EventType)
  BY <1>1, <1>2, LoggedEvents DEF Memory
<1>4. made \in Challenge /\ made.by = a /\ made.source = source
  BY DEF Challenge, Actors
<1>5. mem' = [mem EXCEPT ![a] = new] /\ mem'[a] = new
  BY DEF Generated, TypeOK, Actors
<1> HIDE DEF made, log
<1>6. new \in Memory /\ new.events = log /\ new.date = mem[a].date
      /\ new.challenge = made /\ new.sawEmpty = mem[a].sawEmpty
  BY <1>1, <1>3, <1>4 DEF Memory
<1> HIDE DEF new
<1> QED BY <1>1, <1>4, <1>5, <1>6 DEF Alone, Goto, Places, log

\* An actor that leaves both tables alone as well keeps the invariant when its
\* own part of it holds.
LEMMA TablesKept ==
  ASSUME IInv, NEW a \in Actors, NEW place, NEW new, Alone(a, place, new),
         UNCHANGED <<today, cache, table, replaced>>,
         a \in Ops => OpInv(a)',
         a \in Readers => ReaderInv(a)'
  PROVE  IInv'
<1>1. table' \in [Ops -> Operation] /\ cache' \in [Days -> Challenge \cup {NoChallenge}]
      /\ today' = today /\ replaced' = replaced /\ table' = table
  BY DEF IInv, TypeOK
<1>2. RunningApart'
  BY <1>1 DEF IInv, RunningApart
<1> QED BY <1>1, <1>2, OthersKept

-----------------------------------------------------------------------------
(* The steps of an operation.                                               *)

\* What an operation's logs are made of.
LEMMA Entries ==
  /\ <<"REQUESTED">> \in Seq(EventType)
  /\ <<"GENERATION_STARTED", "GENERATOR_SELECTED">> \in Seq(EventType)
  /\ <<"CANDIDATE_REJECTED", "FALLBACK_USED", "GENERATOR_SELECTED">> \in Seq(EventType)
  /\ <<"CANDIDATE_REJECTED", "FAILED">> \in Seq(EventType)
  /\ <<"CACHE_REPLACED">> \in Seq(EventType) /\ <<"VALIDATION_PASSED">> \in Seq(EventType)
  /\ ~HasFallback(<<"REQUESTED">>) /\ ~HasFallback(<<"GENERATION_STARTED", "GENERATOR_SELECTED">>)
  /\ HasFallback(<<"CANDIDATE_REJECTED", "FALLBACK_USED", "GENERATOR_SELECTED">>)
  /\ ~HasFallback(<<"CANDIDATE_REJECTED", "FAILED">>)
  /\ ~HasFallback(<<"CACHE_REPLACED">>) /\ ~HasFallback(<<"VALIDATION_PASSED">>)
<1>1. /\ <<"REQUESTED">> \in Seq(EventType)
      /\ <<"GENERATION_STARTED", "GENERATOR_SELECTED">> \in Seq(EventType)
      /\ <<"CANDIDATE_REJECTED", "FALLBACK_USED", "GENERATOR_SELECTED">> \in Seq(EventType)
      /\ <<"CANDIDATE_REJECTED", "FAILED">> \in Seq(EventType)
      /\ <<"CACHE_REPLACED">> \in Seq(EventType) /\ <<"VALIDATION_PASSED">> \in Seq(EventType)
  BY DEF EventType
<1>2. ~HasFallback(<<"REQUESTED">>) /\ ~HasFallback(<<"CACHE_REPLACED">>)
      /\ ~HasFallback(<<"VALIDATION_PASSED">>)
  BY DEF HasFallback
<1>3. ~HasFallback(<<"GENERATION_STARTED", "GENERATOR_SELECTED">>)
  BY DEF HasFallback
<1>4. ~HasFallback(<<"CANDIDATE_REJECTED", "FAILED">>)
  BY DEF HasFallback
<1>5. HasFallback(<<"CANDIDATE_REJECTED", "FALLBACK_USED", "GENERATOR_SELECTED">>)
  <2> DEFINE t == <<"CANDIDATE_REJECTED", "FALLBACK_USED", "GENERATOR_SELECTED">>
  <2>1. 2 \in DOMAIN t /\ t[2] = "FALLBACK_USED"
    OBVIOUS
  <2> QED BY <2>1 DEF HasFallback
<1> QED BY <1>1, <1>2, <1>3, <1>4, <1>5

\* A step of an operation that leaves its row alone keeps what its row says.
LEMMA OutcomeKept ==
  ASSUME NEW o \in Ops, IInv, table' = table, replaced' = replaced
  PROVE  OutcomeOf(o)'
BY DEF IInv, OpInv, OutcomeOf

LEMMA StartStep ==
  ASSUME IInv, NEW o \in Ops, NEW d \in Days, Start(o, d)
  PROVE  IInv'
<1> DEFINE new == [mem[o] EXCEPT !.date = d]
<1>1. TypeOK /\ o \in Actors /\ "saveRunning" \in Places /\ OpInv(o)
  BY DEF IInv, Actors, Places, Waiting
<1>2. mem[o] \in Memory /\ new \in Memory /\ new.date = d
  BY <1>1 DEF TypeOK, Actors, Memory
<1>3. mem' = [mem EXCEPT ![o] = new] /\ mem'[o] = new /\ pc'[o] = "saveRunning"
  BY <1>1 DEF Start, Goto, TypeOK, Actors
<1>4. mem[o] = [NoMemory EXCEPT !.date = mem[o].date]
      /\ table[o].status = "absent" /\ o \notin replaced
  BY <1>1 DEF OpInv, RowOf, Start
<1>5. new = [NoMemory EXCEPT !.date = d]
  BY <1>4 DEF NoMemory
<1> HIDE DEF new
<1>6. Alone(o, "saveRunning", new)
  BY <1>1, <1>2, <1>3 DEF Alone, Start, Goto, Places
<1>7. OpInv(o)'
  <2>1. table'[o].status = "absent" /\ o \notin replaced'
    BY <1>4 DEF Start
  <2>2. RowOf(o)'
    BY <1>2, <1>3, <1>5, <2>1 DEF RowOf, Pipeline
  <2>3. TaskOf(o)' /\ OutcomeOf(o)'
    BY <1>3, <2>1 DEF TaskOf, OutcomeOf
  <2> QED BY <2>2, <2>3 DEF OpInv
<1> QED BY <1>1, <1>6, <1>7, TablesKept, ActorsAssumption DEF Start

LEMMA SaveRunningStep ==
  ASSUME IInv, NEW o \in Ops, SaveRunning(o)
  PROVE  IInv'
<1>1. TypeOK /\ o \in Actors /\ {"scheduled", "failed"} \subseteq Places /\ OpInv(o)
  BY DEF IInv, Actors, Places, Waiting
<1>2. pc[o] = "saveRunning" /\ table[o].status = "absent" /\ o \notin replaced
      /\ mem[o] \in Memory /\ mem[o] = [NoMemory EXCEPT !.date = mem[o].date]
  BY <1>1 DEF SaveRunning, OpInv, RowOf, TypeOK, Actors
<1>3. CASE Running(mem[o].date) # {}
  <2>1. Goto(o, "failed") /\ UNCHANGED mem /\ UNCHANGED <<today, cache, table, replaced>>
    BY <1>3 DEF SaveRunning
  <2>2. Alone(o, "failed", mem[o]) /\ pc'[o] = "failed" /\ mem'[o] = mem[o]
    BY <1>1, <2>1, Moved
  <2>3. OpInv(o)'
    <3>1. table'[o] = table[o] /\ replaced' = replaced
      BY <2>1
    <3>2. RowOf(o)' /\ TaskOf(o)' /\ OutcomeOf(o)'
      BY <1>2, <2>2, <3>1 DEF RowOf, TaskOf, OutcomeOf, Pipeline
    <3> QED BY <3>2 DEF OpInv
  <2> QED BY <1>1, <2>1, <2>2, <2>3, TablesKept, ActorsAssumption
<1>4. CASE Running(mem[o].date) = {}
  <2> DEFINE row == [NoOperation EXCEPT !.status = "RUNNING", !.date = mem[o].date,
                                        !.events = <<"REQUESTED">>]
  <2>1. table' = [table EXCEPT ![o] = row] /\ Log(o, <<"REQUESTED">>) /\ Goto(o, "scheduled")
        /\ UNCHANGED <<today, cache, replaced>>
    BY <1>4 DEF SaveRunning
  <2>2. row \in Operation /\ row.status = "RUNNING" /\ row.date = mem[o].date
    <3>1. mem[o].date \in Days /\ NoOperation \in Operation
      BY <1>2, MaxDayAssumption DEF Memory, NoOperation, Operation, Days
    <3> QED BY <3>1, Entries DEF NoOperation, Operation
  <2> HIDE DEF row
  <2>3. table' \in [Ops -> Operation] /\ table'[o] = row /\ \A q \in Ops \ {o} : table'[q] = table[q]
    BY <1>1, <2>1, <2>2 DEF TypeOK
  <2>4. /\ Alone(o, "scheduled", mem'[o]) /\ pc'[o] = "scheduled" /\ mem'[o].date = mem[o].date
        /\ mem'[o].events = mem[o].events \o <<"REQUESTED">> /\ mem'[o].challenge = mem[o].challenge
    BY <1>1, <2>1, Entries, Logged
  <2>5. mem[o].events = <<>> /\ mem[o].challenge = NoChallenge
    BY <1>2 DEF NoMemory
  <2>6. ~HasFallback(mem'[o].events)
    <3>1. <<>> \in Seq(EventType) /\ ~HasFallback(<<>>)
      BY DEF HasFallback
    <3> QED BY <2>4, <2>5, <3>1, Entries, LoggedEvents
  <2>7. OpInv(o)'
    <3>1. RowOf(o)' /\ OutcomeOf(o)'
      BY <2>2, <2>3, <2>4 DEF RowOf, OutcomeOf, Pipeline
    <3>2. TaskOf(o)'
      BY <1>2, <2>1, <2>4, <2>5, <2>6 DEF TaskOf
    <3> QED BY <3>1, <3>2 DEF OpInv
  <2>8. RunningApart'
    <3>1. ASSUME NEW q \in Ops, q # o, table[q].status = "RUNNING"
          PROVE  table[q].date # row.date
      BY <1>4, <2>2, <3>1 DEF Running
    <3> QED BY <2>3, <3>1 DEF IInv, RunningApart
  <2>9. replaced' = replaced /\ today' = today /\ cache' \in [Days -> Challenge \cup {NoChallenge}]
    BY <1>1, <2>1 DEF TypeOK
  <2> QED BY <1>1, <2>3, <2>4, <2>7, <2>8, <2>9, OthersKept, ActorsAssumption
<1> QED BY <1>3, <1>4

\* A task that goes on before its save of the challenge: only TaskOf is at stake.
LEMMA TaskGoesOn ==
  ASSUME IInv, NEW o \in Ops, NEW place \in Pipeline,
         pc[o] \in Pipeline, pc'[o] = place, mem'[o].date = mem[o].date,
         Alone(o, place, mem'[o]), UNCHANGED <<today, cache, table, replaced>>,
         TaskOf(o)'
  PROVE  IInv'
<1>1. OpInv(o) /\ o \in Actors /\ table' = table /\ replaced' = replaced
  BY DEF IInv, Actors
<1>2. RowOf(o)'
  BY <1>1 DEF OpInv, RowOf, Pipeline
<1>3. OutcomeOf(o)'
  BY <1>1, OutcomeKept
<1> QED BY <1>1, <1>2, <1>3, TablesKept, ActorsAssumption DEF OpInv

LEMMA PipelinePlaces == Pipeline \subseteq Places
BY DEF Pipeline, Places, Waiting

LEMMA RunPipelineStep ==
  ASSUME IInv, NEW o \in Ops, RunPipeline(o)
  PROVE  IInv'
<1> DEFINE more == <<"GENERATION_STARTED", "GENERATOR_SELECTED">>
<1>1. TypeOK /\ o \in Actors /\ "gemini" \in Pipeline /\ "gemini" \in Places /\ OpInv(o)
      /\ pc[o] = "scheduled" /\ pc[o] \in Pipeline
  BY PipelinePlaces DEF IInv, Actors, Pipeline, RunPipeline
<1>2. Goto(o, "gemini") /\ Log(o, more) /\ UNCHANGED <<today, cache, table, replaced>>
  BY DEF RunPipeline
<1>3. more \in Seq(EventType) /\ ~HasFallback(more) /\ mem[o].events \in Seq(EventType)
  BY <1>1, Entries DEF TypeOK, Actors, Memory
<1> HIDE DEF more
<1>4. /\ Alone(o, "gemini", mem'[o]) /\ pc'[o] = "gemini" /\ mem'[o].date = mem[o].date
      /\ mem'[o].events = mem[o].events \o more /\ mem'[o].challenge = mem[o].challenge
  BY <1>1, <1>2, <1>3, Logged
<1>5. ~HasFallback(mem'[o].events)
  BY <1>1, <1>3, <1>4, LoggedEvents DEF OpInv, TaskOf
<1>6. TaskOf(o)'
  BY <1>1, <1>2, <1>4, <1>5 DEF OpInv, TaskOf
<1> QED BY <1>1, <1>2, <1>4, <1>6, TaskGoesOn

\* Both generators: a challenge is made, by this operation and this generator.
LEMMA TaskGenerates ==
  ASSUME IInv, NEW o \in Ops, NEW source \in {"gemini", "fallback"}, pc[o] = source,
         Generated(o, source), Goto(o, "saveCache"), UNCHANGED <<today, cache, table, replaced>>
  PROVE  IInv'
<1>1. TypeOK /\ o \in Actors /\ "saveCache" \in Pipeline /\ "saveCache" \in Places /\ OpInv(o)
      /\ pc[o] \in Pipeline /\ mem[o].events \in Seq(EventType)
  BY PipelinePlaces DEF IInv, Actors, Pipeline, TypeOK, Memory
<1>2. /\ Alone(o, "saveCache", mem'[o]) /\ pc'[o] = "saveCache" /\ mem'[o].date = mem[o].date
      /\ mem'[o].events = mem[o].events \o <<"VALIDATION_PASSED">>
      /\ mem'[o].challenge \in Challenge
      /\ mem'[o].challenge.by = o /\ mem'[o].challenge.source = source
  BY <1>1, GeneratedBy
<1>3. HasFallback(mem'[o].events) <=> HasFallback(mem[o].events)
  BY <1>1, <1>2, Entries, LoggedEvents
<1>4. source = "fallback" <=> HasFallback(mem[o].events)
  BY <1>1 DEF OpInv, TaskOf
<1>5. mem'[o].challenge # NoChallenge
  BY <1>2, NoChallengeAssumption
<1>6. o \notin replaced'
  BY <1>1 DEF OpInv, TaskOf
<1>7. TaskOf(o)'
  BY <1>2, <1>3, <1>4, <1>5, <1>6 DEF TaskOf
<1> QED BY <1>1, <1>2, <1>7, TaskGoesOn

LEMMA IterationGeminiStep ==
  ASSUME IInv, NEW o \in Ops, IterationGemini(o)
  PROVE  IInv'
<1> DEFINE more == <<"CANDIDATE_REJECTED", "FALLBACK_USED", "GENERATOR_SELECTED">>
<1>1. CASE Generated(o, "gemini") /\ Goto(o, "saveCache")
  BY <1>1, TaskGenerates DEF IterationGemini
<1>2. CASE Log(o, more) /\ Goto(o, "fallback")
  <2>1. TypeOK /\ o \in Actors /\ "fallback" \in Pipeline /\ "fallback" \in Places /\ OpInv(o)
        /\ pc[o] = "gemini" /\ pc[o] \in Pipeline /\ UNCHANGED <<today, cache, table, replaced>>
    BY PipelinePlaces DEF IInv, Actors, Pipeline, IterationGemini
  <2>2. more \in Seq(EventType) /\ HasFallback(more) /\ mem[o].events \in Seq(EventType)
    BY <2>1, Entries DEF TypeOK, Actors, Memory
  <2> HIDE DEF more
  <2>3. /\ Alone(o, "fallback", mem'[o]) /\ pc'[o] = "fallback" /\ mem'[o].date = mem[o].date
        /\ mem'[o].events = mem[o].events \o more /\ mem'[o].challenge = mem[o].challenge
    BY <1>2, <2>1, <2>2, Logged
  <2>4. HasFallback(mem'[o].events)
    BY <2>2, <2>3, LoggedEvents
  <2>5. TaskOf(o)'
    BY <2>1, <2>3, <2>4 DEF OpInv, TaskOf
  <2> QED BY <2>1, <2>3, <2>5, TaskGoesOn
<1> QED BY <1>1, <1>2 DEF IterationGemini

LEMMA IterationFallbackStep ==
  ASSUME IInv, NEW o \in Ops, IterationFallback(o)
  PROVE  IInv'
<1> DEFINE more == <<"CANDIDATE_REJECTED", "FAILED">>
<1>1. CASE Generated(o, "fallback") /\ Goto(o, "saveCache")
  BY <1>1, TaskGenerates DEF IterationFallback
<1>2. CASE Log(o, more) /\ Goto(o, "saveTerminal")
  <2>1. TypeOK /\ o \in Actors /\ "saveTerminal" \in Pipeline /\ "saveTerminal" \in Places
        /\ OpInv(o) /\ pc[o] = "fallback" /\ pc[o] \in Pipeline
        /\ UNCHANGED <<today, cache, table, replaced>>
    BY PipelinePlaces DEF IInv, Actors, Pipeline, IterationFallback
  <2>2. more \in Seq(EventType) /\ mem[o].events \in Seq(EventType)
        /\ more # <<>> /\ more[Len(more)] = "FAILED"
    BY <2>1, Entries DEF TypeOK, Actors, Memory
  <2> HIDE DEF more
  <2>3. /\ Alone(o, "saveTerminal", mem'[o]) /\ pc'[o] = "saveTerminal"
        /\ mem'[o].date = mem[o].date
        /\ mem'[o].events = mem[o].events \o more /\ mem'[o].challenge = mem[o].challenge
    BY <1>2, <2>1, <2>2, Logged
  <2>4. EndsWith(mem'[o].events, "FAILED")
    BY <2>2, <2>3, LoggedEvents
  <2>5. TaskOf(o)'
    BY <2>1, <2>3, <2>4 DEF OpInv, TaskOf
  <2> QED BY <2>1, <2>3, <2>5, TaskGoesOn
<1> QED BY <1>1, <1>2 DEF IterationFallback

LEMMA IterationSaveCacheStep ==
  ASSUME IInv, NEW o \in Ops, IterationSaveCache(o)
  PROVE  IInv'
<1> DEFINE more == <<"CACHE_REPLACED">>
<1>1. TypeOK /\ o \in Actors /\ "saveTerminal" \in Pipeline /\ "saveTerminal" \in Places
      /\ OpInv(o) /\ pc[o] = "saveCache" /\ pc[o] \in Pipeline
  BY PipelinePlaces DEF IInv, Actors, Pipeline, IterationSaveCache
<1>2. /\ Goto(o, "saveTerminal") /\ Log(o, more) /\ table' = table /\ today' = today
      /\ replaced' = replaced \cup {o} /\ cache' = [cache EXCEPT ![mem[o].date] = mem[o].challenge]
  BY DEF IterationSaveCache
<1>3. more \in Seq(EventType) /\ ~HasFallback(more) /\ mem[o] \in Memory
      /\ more # <<>> /\ more[Len(more)] = "CACHE_REPLACED"
  BY <1>1, Entries DEF TypeOK, Actors
<1> HIDE DEF more
<1>4. mem[o].events \in Seq(EventType) /\ mem[o].date \in Days
      /\ mem[o].challenge \in Challenge \cup {NoChallenge}
  BY <1>3 DEF Memory
<1>5. /\ Alone(o, "saveTerminal", mem'[o]) /\ pc'[o] = "saveTerminal"
      /\ mem'[o].date = mem[o].date
      /\ mem'[o].events = mem[o].events \o more /\ mem'[o].challenge = mem[o].challenge
  BY <1>1, <1>2, <1>3, Logged
<1>6. EndsWith(mem'[o].events, "CACHE_REPLACED")
      /\ (HasFallback(mem'[o].events) <=> HasFallback(mem[o].events))
  BY <1>3, <1>4, <1>5, LoggedEvents
<1>7. OpInv(o)'
  <2>1. RowOf(o)'
    BY <1>1, <1>2, <1>5 DEF OpInv, RowOf, Pipeline
  <2>2. TaskOf(o)'
    BY <1>1, <1>2, <1>5, <1>6 DEF OpInv, TaskOf
  <2>3. OutcomeOf(o)'
    BY <1>1, <1>2 DEF OpInv, RowOf, OutcomeOf
  <2> QED BY <2>1, <2>2, <2>3 DEF OpInv
<1>8. cache' \in [Days -> Challenge \cup {NoChallenge}] /\ table' \in [Ops -> Operation]
      /\ replaced' \in {replaced, replaced \cup ({o} \cap Ops)} /\ RunningApart'
  BY <1>1, <1>2, <1>4 DEF TypeOK, IInv, RunningApart
<1> QED BY <1>1, <1>2, <1>5, <1>7, <1>8, OthersKept, ActorsAssumption

LEMMA PersistTerminalStep ==
  ASSUME IInv, NEW o \in Ops, PersistTerminal(o)
  PROVE  IInv'
<1> DEFINE status == IF mem[o].challenge = NoChallenge THEN "FAILED" ELSE "SUCCEEDED"
           row == [table[o] EXCEPT !.status = status, !.events = mem[o].events,
                                   !.challenge = mem[o].challenge]
<1>1. TypeOK /\ o \in Actors /\ "ok" \in Places /\ OpInv(o) /\ pc[o] = "saveTerminal"
      /\ mem[o] \in Memory /\ table[o] \in Operation
  BY DEF IInv, Actors, Places, PersistTerminal, TypeOK
<1>2. mem[o].events \in Seq(EventType) /\ mem[o].challenge \in Challenge \cup {NoChallenge}
      /\ status \in {"SUCCEEDED", "FAILED"}
      /\ (status = "FAILED" <=> mem[o].challenge = NoChallenge)
  BY <1>1 DEF Memory
<1>3. table' = [table EXCEPT ![o] = row] /\ Goto(o, "ok") /\ UNCHANGED mem
      /\ today' = today /\ cache' = cache /\ replaced' = replaced
  BY DEF PersistTerminal
<1> HIDE DEF status
<1>4. row \in Operation /\ row.status = status /\ row.events = mem[o].events
      /\ row.challenge = mem[o].challenge /\ row.date = table[o].date
  BY <1>1, <1>2 DEF Operation
<1> HIDE DEF row
<1>5. table' \in [Ops -> Operation] /\ table'[o] = row /\ \A q \in Ops \ {o} : table'[q] = table[q]
  BY <1>1, <1>3, <1>4 DEF TypeOK
<1>6. Alone(o, "ok", mem[o]) /\ pc'[o] = "ok" /\ mem'[o] = mem[o]
  BY <1>1, <1>3, Moved
<1>7. OpInv(o)'
  <2>1. RowOf(o)'
    BY <1>1, <1>2, <1>4, <1>5, <1>6 DEF OpInv, RowOf, Pipeline
  <2>2. TaskOf(o)'
    BY <1>6 DEF TaskOf
  <2>3. CASE mem[o].challenge = NoChallenge
    <3>1. o \notin replaced' /\ EndsWith(mem[o].events, "FAILED") /\ status = "FAILED"
      BY <1>1, <1>2, <1>3, <2>3 DEF OpInv, TaskOf
    <3>2. OutcomeOf(o)'
      BY <1>4, <1>5, <2>3, <3>1 DEF OutcomeOf
    <3> QED BY <2>1, <2>2, <3>2 DEF OpInv
  <2>4. CASE mem[o].challenge # NoChallenge
    <3>1. o \in replaced' /\ EndsWith(mem[o].events, "CACHE_REPLACED") /\ status = "SUCCEEDED"
      BY <1>1, <1>2, <1>3, <2>4 DEF OpInv, TaskOf
    <3>2. mem[o].challenge.by = o
          /\ (mem[o].challenge.source = "fallback" <=> HasFallback(mem[o].events))
      BY <1>1, <2>4 DEF OpInv, TaskOf
    <3>3. OutcomeOf(o)'
      BY <1>4, <1>5, <3>1, <3>2 DEF OutcomeOf
    <3> QED BY <2>1, <2>2, <3>3 DEF OpInv
  <2> QED BY <2>3, <2>4
<1>8. RunningApart'
  BY <1>2, <1>4, <1>5 DEF IInv, RunningApart
<1>9. cache' \in [Days -> Challenge \cup {NoChallenge}]
  BY <1>1, <1>3 DEF TypeOK
<1> QED BY <1>1, <1>3, <1>5, <1>6, <1>7, <1>8, <1>9, OthersKept, ActorsAssumption

-----------------------------------------------------------------------------
(* The steps of a reader, of the clock, and what fails.                     *)

\* A reader that leaves the cache alone: whether it looked in time is all that
\* is at stake.
LEMMA ReaderGoesOn ==
  ASSUME IInv, NEW p \in Readers, NEW place, NEW new, Alone(p, place, new),
         UNCHANGED <<today, cache, table, replaced>>, ReaderInv(p)'
  PROVE  IInv'
BY TablesKept, ActorsAssumption DEF Actors

LEMMA ReaderArriveStep ==
  ASSUME IInv, NEW p \in Readers, ReaderArrive(p)
  PROVE  IInv'
<1> DEFINE new == [mem[p] EXCEPT !.date = today]
<1>1. mem[p] \in Memory /\ today \in Days
  BY DEF IInv, TypeOK
<1>2. new \in Memory
  BY <1>1 DEF Memory
<1>3. mem' = [mem EXCEPT ![p] = new] /\ pc' = [pc EXCEPT ![p] = "find"] /\ pc'[p] = "find"
  BY DEF ReaderArrive, Goto, IInv, TypeOK
<1> HIDE DEF new
<1>4. Alone(p, "find", new)
  BY <1>2, <1>3 DEF Alone, Waiting
<1>5. ReaderInv(p)'
  BY <1>3 DEF ReaderInv
<1> QED BY <1>4, <1>5, ReaderGoesOn DEF ReaderArrive

LEMMA ReaderFindStep ==
  ASSUME IInv, NEW p \in Readers, ReaderFind(p)
  PROVE  IInv'
<1> DEFINE cached == cache[mem[p].date]
<1>1. mem[p] \in Memory /\ cached \in Challenge \cup {NoChallenge} /\ mem[p].date \in Days
  BY DEF IInv, TypeOK, Memory
<1>2. ExpiresAt(mem[p].date) > mem[p].date
  BY <1>1, MaxDayAssumption DEF ExpiresAt, Days
<1>3. CASE IsCurrentCache(cached, mem[p].date)
  <2> DEFINE new == [mem[p] EXCEPT !.challenge = cached]
  <2>1. new \in Memory
    BY <1>1 DEF Memory
  <2>2. mem' = [mem EXCEPT ![p] = new] /\ pc' = [pc EXCEPT ![p] = "ok"] /\ pc'[p] = "ok"
    BY <1>3 DEF ReaderFind, Goto, IInv, TypeOK
  <2> HIDE DEF new
  <2>3. Alone(p, "ok", new) /\ ReaderInv(p)'
    BY <2>1, <2>2 DEF Alone, ReaderInv
  <2> QED BY <2>3, ReaderGoesOn DEF ReaderFind
<1>4. CASE ~IsCurrentCache(cached, mem[p].date)
  <2> DEFINE new == [mem[p] EXCEPT !.sawEmpty = cached = NoChallenge]
  <2>1. cached = NoChallenge
    BY <1>2, <1>4 DEF IsCurrentCache
  <2>2. new \in Memory /\ new.sawEmpty
    BY <1>1, <2>1 DEF Memory
  <2>3. mem' = [mem EXCEPT ![p] = new] /\ mem'[p] = new
        /\ pc' = [pc EXCEPT ![p] = "gemini"] /\ pc'[p] = "gemini"
    BY <1>4 DEF ReaderFind, Goto, IInv, TypeOK
  <2> HIDE DEF new
  <2>4. Alone(p, "gemini", new) /\ ReaderInv(p)'
    BY <2>2, <2>3 DEF Alone, ReaderInv, Waiting
  <2> QED BY <2>4, ReaderGoesOn DEF ReaderFind
<1> QED BY <1>3, <1>4

\* Both generators of a reader.
LEMMA ReaderGenerates ==
  ASSUME IInv, NEW p \in Readers, ReaderGemini(p) \/ ReaderFallback(p)
  PROVE  IInv'
<1>1. TypeOK /\ p \in Actors /\ {"saveCache", "fallback", "failed"} \subseteq Places /\ mem[p].sawEmpty
      /\ UNCHANGED <<today, cache, table, replaced>>
  BY DEF IInv, Actors, Places, Waiting, ReaderInv, ReaderGemini, ReaderFallback
<1>2. ASSUME NEW source \in {"gemini", "fallback"}, Generated(p, source), Goto(p, "saveCache")
      PROVE  IInv'
  <2>1. /\ Alone(p, "saveCache", mem'[p]) /\ mem'[p].sawEmpty = mem[p].sawEmpty
        /\ mem'[p].challenge \in Challenge /\ mem'[p].challenge.by = p
    BY <1>1, <1>2, GeneratedBy
  <2> QED BY <1>1, <2>1, ReaderGoesOn DEF ReaderInv
<1>3. ASSUME NEW place \in {"fallback", "failed"}, Goto(p, place), UNCHANGED mem
      PROVE  IInv'
  <2>1. Alone(p, place, mem[p]) /\ pc'[p] = place /\ mem'[p] = mem[p]
    BY <1>1, <1>3, Moved
  <2>2. ReaderInv(p)'
    BY <1>1, <1>3, <2>1 DEF ReaderInv
  <2>3. mem[p] \in Memory
    BY <1>1 DEF TypeOK
  <2> QED BY <1>1, <1>3, <2>1, <2>2, ReaderGoesOn
<1> QED BY <1>2, <1>3 DEF ReaderGemini, ReaderFallback

LEMMA ReaderSaveCacheStep ==
  ASSUME IInv, NEW p \in Readers, ReaderSaveCache(p)
  PROVE  IInv'
<1>1. TypeOK /\ p \in Actors /\ "ok" \in Places /\ p \notin Ops /\ mem[p] \in Memory
  BY ActorsAssumption DEF IInv, Actors, Places, TypeOK
<1>2. Goto(p, "ok") /\ UNCHANGED mem /\ table' = table /\ replaced' = replaced /\ today' = today
      /\ cache' = [cache EXCEPT ![mem[p].date] = mem[p].challenge]
  BY DEF ReaderSaveCache
<1>3. Alone(p, "ok", mem[p]) /\ pc'[p] = "ok"
  BY <1>1, <1>2, Moved
<1>4. cache' \in [Days -> Challenge \cup {NoChallenge}] /\ table' \in [Ops -> Operation]
  BY <1>1, <1>2 DEF TypeOK, Memory
<1>5. ReaderInv(p)'
  BY <1>3 DEF ReaderInv
<1> QED BY <1>1, <1>2, <1>3, <1>4, <1>5, OthersKept

\* To fail is all that may happen to an operation without a step of its own.
LEMMA FailedOp ==
  ASSUME IInv, NEW o \in Ops, pc'[o] = "failed", mem'[o] = mem[o], pc[o] \in Waiting,
         table' = table, replaced' = replaced
  PROVE  OpInv(o)'
<1>1. OpInv(o)
  BY DEF IInv
<1>2. RowOf(o)'
  BY <1>1 DEF OpInv, RowOf, Pipeline, Waiting
<1>3. TaskOf(o)' /\ OutcomeOf(o)'
  BY <1>1 DEF OpInv, TaskOf, OutcomeOf
<1> QED BY <1>2, <1>3 DEF OpInv

LEMMA SaveFaultStep ==
  ASSUME IInv, NEW a \in Actors, SaveFault(a)
  PROVE  IInv'
<1>1. TypeOK /\ "failed" \in Places /\ UNCHANGED <<today, cache, table, replaced>>
  BY DEF IInv, Places, SaveFault
<1>2. Alone(a, "failed", mem[a]) /\ pc'[a] = "failed" /\ mem'[a] = mem[a]
  BY <1>1, Moved DEF SaveFault
<1>3. pc[a] \in Waiting
  <2>1. pc[a] \in Waiting \cup {"idle", "ok", "failed"}
    BY <1>1 DEF TypeOK, Actors
  <2> QED BY <2>1, FaultsAssumption DEF SaveFault, Waiting
<1>4. a \in Ops => OpInv(a)'
  BY <1>1, <1>2, <1>3, FailedOp
<1>5. a \in Readers => ReaderInv(a)'
  BY <1>2 DEF ReaderInv
<1> QED BY <1>1, <1>2, <1>4, <1>5, TablesKept

LEMMA CrashStep == ASSUME IInv, Crash PROVE IInv'
<1>1. UNCHANGED <<today, cache, table, mem, replaced>>
      /\ \A a \in Actors : pc'[a] = IF pc[a] \in Waiting THEN "failed" ELSE pc[a]
  BY DEF Crash, Actors
<1>2. TypeOK'
  <2>1. pc' \in [Ops \cup Readers -> Waiting \cup {"idle", "ok", "failed"}]
    BY DEF Crash, IInv, TypeOK
  <2> QED BY <1>1, <2>1 DEF IInv, TypeOK
<1>3. ASSUME NEW o \in Ops
      PROVE  OpInv(o)'
  <2>1. CASE pc[o] \in Waiting
    BY <1>1, <2>1, FailedOp DEF Actors
  <2>2. CASE pc[o] \notin Waiting
    <3>1. pc'[o] = pc[o] /\ mem' = mem /\ table' = table /\ replaced' = replaced
      BY <1>1, <2>2 DEF Actors
    <3> QED BY <3>1 DEF IInv, OpInv, RowOf, TaskOf, OutcomeOf
  <2> QED BY <2>1, <2>2
<1>4. ASSUME NEW p \in Readers
      PROVE  ReaderInv(p)'
  BY <1>1 DEF IInv, ReaderInv, Actors
<1>5. RunningApart'
  BY <1>1 DEF IInv, RunningApart
<1> QED BY <1>2, <1>3, <1>4, <1>5 DEF IInv

LEMMA NewDayStep == ASSUME IInv, NewDay PROVE IInv'
<1>1. UNCHANGED <<cache, table, pc, mem, replaced>> /\ today' \in Days
  BY MaxDayAssumption DEF NewDay, IInv, TypeOK, Days
<1>2. TypeOK' /\ RunningApart'
  BY <1>1 DEF IInv, TypeOK, RunningApart
<1>3. \A o \in Ops : OpInv(o)'
  BY <1>1 DEF IInv, OpInv, RowOf, TaskOf, OutcomeOf
<1>4. \A p \in Readers : ReaderInv(p)'
  BY <1>1 DEF IInv, ReaderInv
<1> QED BY <1>2, <1>3, <1>4 DEF IInv

LEMMA IInvStep == IInv /\ [Next]_vars => IInv'
<1> SUFFICES ASSUME IInv, [Next]_vars PROVE IInv'
  OBVIOUS
<1>1. CASE \E o \in Ops : Admin(o) \/ \E d \in Days : Start(o, d)
  BY <1>1, StartStep, SaveRunningStep, RunPipelineStep, IterationGeminiStep,
     IterationFallbackStep, IterationSaveCacheStep, PersistTerminalStep DEF Admin
<1>2. CASE \E p \in Readers : ReaderArrive(p) \/ Reader(p)
  BY <1>2, ReaderArriveStep, ReaderFindStep, ReaderGenerates, ReaderSaveCacheStep DEF Reader
<1>3. CASE \E a \in Ops \cup Readers : SaveFault(a)
  BY <1>3, SaveFaultStep DEF Actors
<1>4. CASE NewDay \/ Crash
  BY <1>4, NewDayStep, CrashStep
<1>5. CASE UNCHANGED vars
  <2>1. TypeOK' /\ RunningApart'
    BY <1>5 DEF vars, IInv, TypeOK, RunningApart
  <2>2. \A o \in Ops : OpInv(o)'
    BY <1>5 DEF vars, IInv, OpInv, RowOf, TaskOf, OutcomeOf
  <2>3. \A p \in Readers : ReaderInv(p)'
    BY <1>5 DEF vars, IInv, ReaderInv
  <2> QED BY <2>1, <2>2, <2>3 DEF IInv
<1> QED BY <1>1, <1>2, <1>3, <1>4, <1>5 DEF Next

-----------------------------------------------------------------------------
(* The theorems.                                                            *)

\* The invariant holds of every state of GetDailyChallengeUseCase and
\* StartDailyChallengeIterationUseCase.
THEOREM Invariance == Spec => []IInv
BY IInvInit, IInvStep, PTL DEF Spec

\* The caches, rows, logs and local variables of the daily challenge stay in
\* their domains.
THEOREM TypeCorrect == Spec => []TypeOK
<1>1. IInv => TypeOK
  BY DEF IInv
<1> QED BY <1>1, Invariance, PTL

\* However many admins start iterations of a date at the same time, the partial
\* unique index leaves one RUNNING operation and one pipeline.
THEOREM OneRunning == Spec => []OneRunningPerDate
<1>1. IInv => OneRunningPerDate
  <2> SUFFICES ASSUME IInv, NEW o \in Ops, NEW q \in Ops, o # q, mem[o].date = mem[q].date
               PROVE  /\ ~(o \in Running(mem[o].date) /\ q \in Running(mem[o].date))
                      /\ ~(/\ pc[o] \in Waiting \ {"saveRunning"}
                           /\ pc[q] \in Waiting \ {"saveRunning"})
    BY DEF OneRunningPerDate
  <2>1. RunningApart
    BY DEF IInv
  <2>2. ~(o \in Running(mem[o].date) /\ q \in Running(mem[o].date))
    BY <2>1 DEF Running, RunningApart
  <2>3. ASSUME NEW r \in Ops, pc[r] \in Waiting \ {"saveRunning"}
        PROVE  table[r].status = "RUNNING" /\ table[r].date = mem[r].date
    <3>1. RowOf(r) /\ pc[r] \in Pipeline
      BY <2>3 DEF IInv, OpInv, RowOf, Waiting, Pipeline
    <3> QED BY <3>1 DEF RowOf
  <2>4. ~(pc[o] \in Waiting \ {"saveRunning"} /\ pc[q] \in Waiting \ {"saveRunning"})
    BY <2>1, <2>3 DEF RunningApart
  <2> QED BY <2>2, <2>4
<1> QED BY <1>1, Invariance, PTL

\* Whatever fails in a pipeline, and whatever readers do to the cache meanwhile,
\* the stored log of an ended operation tells what the operation did.
THEOREM TrueOutcome == Spec => []OutcomeIsTrue
<1>1. IInv => OutcomeIsTrue
  BY DEF IInv, OpInv, OutcomeOf, OutcomeIsTrue, EndsWith, HasFallback
<1> QED BY <1>1, Invariance, PTL

\* Only two steps write the cache of a date.
LEMMA OnlySavesProvide ==
  Next => \/ UNCHANGED cache
          \/ \E o \in Ops : IterationSaveCache(o)
          \/ \E p \in Readers : ReaderSaveCache(p)
BY DEF Next, Admin, Start, SaveRunning, RunPipeline, IterationGemini, IterationFallback, PersistTerminal,
       Reader, ReaderArrive, ReaderFind, ReaderGemini, ReaderFallback, SaveFault, NewDay, Crash

\* No number of readers around midnight makes a reader that found the day's
\* challenge store another one, or any reader store it under another date.
THEOREM FirstReadersOnly == Spec => OnlyFirstReadersGenerate
<1> DEFINE A == \A d \in Days, p \in Readers :
                  cache'[d] # cache[d] /\ cache'[d] \in Challenge /\ cache'[d].by = p =>
                    mem[p].sawEmpty /\ mem[p].date = d
<1>1. ASSUME IInv, Next, NEW d \in Days, NEW p \in Readers,
             cache'[d] # cache[d], cache'[d].by = p
      PROVE  mem[p].sawEmpty /\ mem[p].date = d
  <2>1. cache \in [Days -> Challenge \cup {NoChallenge}]
    BY <1>1 DEF IInv, TypeOK
  <2>2. ASSUME NEW o \in Ops, IterationSaveCache(o) PROVE FALSE
    <3>1. mem[o].challenge.by = o
      BY <1>1, <2>2 DEF IInv, OpInv, TaskOf, IterationSaveCache
    <3>2. cache'[d] = mem[o].challenge
      BY <1>1, <2>1, <2>2 DEF IterationSaveCache
    <3> QED BY <1>1, <3>1, <3>2, ActorsAssumption
  <2>3. ASSUME NEW q \in Readers, ReaderSaveCache(q)
        PROVE  q = p /\ mem[p].sawEmpty /\ mem[p].date = d
    <3>1. mem[q].challenge.by = q /\ mem[q].sawEmpty
      BY <1>1, <2>3 DEF IInv, ReaderInv, ReaderSaveCache
    <3>2. mem[q].date = d /\ cache'[d] = mem[q].challenge
      BY <1>1, <2>1, <2>3 DEF ReaderSaveCache
    <3> QED BY <1>1, <3>1, <3>2
  <2> QED BY <1>1, <2>2, <2>3, OnlySavesProvide
<1>2. IInv /\ [Next]_vars => [A]_vars
  BY <1>1
<1>3. OnlyFirstReadersGenerate <=> [][A]_vars
  BY DEF OnlyFirstReadersGenerate
<1> HIDE DEF A
<1> QED BY <1>2, <1>3, Invariance, PTL DEF Spec

-----------------------------------------------------------------------------
(* The refinement.  An operation's task keeps the challenge it generated,   *)
(* so that what it made public and what its row ends with are the same.     *)

OperationOf(o) == [status |-> table[o].status, date |-> table[o].date, challenge |-> table[o].challenge]

PublishedBy(o) == IF o \in replaced THEN mem[o].challenge ELSE NoChallenge

Abstract == <<cache, [o \in Ops |-> OperationOf(o)], [o \in Ops |-> PublishedBy(o)]>>

\* A step that touches neither table, and no challenge that was published.
LEMMA AbstractKept ==
  ASSUME table' = table, cache' = cache, replaced' = replaced,
         \A o \in Ops : o \in replaced => mem'[o].challenge = mem[o].challenge
  PROVE  UNCHANGED Abstract
BY DEF Abstract, OperationOf, PublishedBy

\* The row is stored: the operation opens.
LEMMA SaveRunningOpens ==
  ASSUME IInv, NEW o \in Ops, SaveRunning(o)
  PROVE  (\E d \in Days : Iterations!Open(o, d)) \/ UNCHANGED Abstract
<1>1. TypeOK /\ OpInv(o) /\ mem[o] \in Memory /\ pc[o] = "saveRunning" /\ cache' = cache /\ replaced' = replaced
  BY DEF IInv, SaveRunning, TypeOK
<1>2. o \notin replaced /\ table[o].status = "absent" /\ mem[o].date \in Days
  BY <1>1 DEF OpInv, RowOf, Memory
<1>3. \A q \in Ops \ {o} : mem'[q] = mem[q]
  BY <1>1 DEF SaveRunning, Log, TypeOK
<1>4. \A q \in Ops : PublishedBy(q)' = PublishedBy(q)
  BY <1>1, <1>2, <1>3 DEF PublishedBy
<1>5. CASE Running(mem[o].date) = {}
  <2> DEFINE row == [NoOperation EXCEPT !.status = "RUNNING", !.date = mem[o].date, !.events = <<"REQUESTED">>]
  <2>1. table' = [table EXCEPT ![o] = row]
    BY <1>5 DEF SaveRunning
  <2>2. row.status = "RUNNING" /\ row.date = mem[o].date /\ row.challenge = NoChallenge
    BY DEF NoOperation
  <2> HIDE DEF row
  <2>3. table'[o] = row /\ \A q \in Ops \ {o} : table'[q] = table[q]
    BY <1>1, <2>1 DEF TypeOK
  <2>4. \A q \in Ops : OperationOf(q)' =
          IF q = o THEN [status |-> "RUNNING", date |-> mem[o].date, challenge |-> NoChallenge]
                   ELSE OperationOf(q)
    BY <2>2, <2>3 DEF OperationOf
  <2>5. \A q \in Ops : ~(table[q].status = "RUNNING" /\ table[q].date = mem[o].date)
    BY <1>5 DEF Running
  <2>6. Iterations!Open(o, mem[o].date)
    BY <1>1, <1>2, <1>4, <2>4, <2>5 DEF Iterations!Open, OperationOf, PublishedBy
  <2> QED BY <1>2, <2>6 DEF Iterations!Open
<1>6. CASE Running(mem[o].date) # {}
  <2>1. table' = table /\ mem' = mem
    BY <1>6 DEF SaveRunning
  <2> QED BY <1>1, <2>1, AbstractKept
<1> QED BY <1>5, <1>6

\* The challenge is stored: the operation publishes it, for its own date.
LEMMA SaveCachePublishes ==
  ASSUME IInv, NEW o \in Ops, IterationSaveCache(o)
  PROVE  \E challenge \in Challenge : Iterations!Publish(o, challenge)
<1>1. /\ TypeOK /\ OpInv(o) /\ mem[o] \in Memory /\ pc[o] = "saveCache"
      /\ table' = table /\ replaced' = replaced \cup {o}
      /\ cache' = [cache EXCEPT ![mem[o].date] = mem[o].challenge]
  BY DEF IInv, IterationSaveCache, TypeOK
<1>2. /\ o \notin replaced /\ table[o].status = "RUNNING" /\ table[o].date = mem[o].date
      /\ mem[o].challenge # NoChallenge /\ mem[o].challenge.by = o
  BY <1>1 DEF OpInv, RowOf, TaskOf, Pipeline
<1>3. mem[o].challenge \in Challenge
  BY <1>1, <1>2 DEF Memory
<1>4. mem'[o].challenge = mem[o].challenge /\ \A q \in Ops \ {o} : mem'[q] = mem[q]
  BY <1>1 DEF IterationSaveCache, Log, TypeOK, Memory
<1>5. \A q \in Ops : PublishedBy(q)' = IF q = o THEN mem[o].challenge ELSE PublishedBy(q)
  BY <1>1, <1>4 DEF PublishedBy
<1>6. \A q \in Ops : OperationOf(q)' = OperationOf(q)
  BY <1>1 DEF OperationOf
<1>7. PublishedBy(o) = NoChallenge
  BY <1>2 DEF PublishedBy
<1>8. Iterations!Publish(o, mem[o].challenge)
  BY <1>1, <1>2, <1>5, <1>6, <1>7 DEF Iterations!Publish, OperationOf, PublishedBy
<1> QED BY <1>3, <1>8 DEF Iterations!Publish

\* The outcome is stored: the operation closes.
LEMMA PersistTerminalCloses ==
  ASSUME IInv, NEW o \in Ops, PersistTerminal(o)
  PROVE  Iterations!Close(o)
<1>1. /\ TypeOK /\ OpInv(o) /\ pc[o] = "saveTerminal"
      /\ cache' = cache /\ replaced' = replaced /\ mem' = mem
  BY DEF IInv, PersistTerminal
<1>2. table[o].status = "RUNNING" /\ PublishedBy(o) = mem[o].challenge
  BY <1>1 DEF OpInv, RowOf, TaskOf, Pipeline, PublishedBy
<1>3. /\ table'[o].status = IF mem[o].challenge = NoChallenge THEN "FAILED" ELSE "SUCCEEDED"
      /\ table'[o].challenge = mem[o].challenge /\ table'[o].date = table[o].date
      /\ \A q \in Ops \ {o} : table'[q] = table[q]
  BY <1>1 DEF PersistTerminal, TypeOK, Operation
<1>4. \A q \in Ops : PublishedBy(q)' = PublishedBy(q)
  BY <1>1 DEF PublishedBy
<1>5. \A q \in Ops : OperationOf(q)' =
        IF q = o THEN [status |-> IF PublishedBy(o) = NoChallenge THEN "FAILED" ELSE "SUCCEEDED",
                       date |-> OperationOf(o).date, challenge |-> PublishedBy(o)]
                 ELSE OperationOf(q)
  BY <1>2, <1>3 DEF OperationOf
<1> QED BY <1>1, <1>2, <1>4, <1>5 DEF Iterations!Close, OperationOf, PublishedBy

\* A reader stores what it generated.
LEMMA ReaderProvides ==
  ASSUME IInv, NEW p \in Readers, ReaderSaveCache(p)
  PROVE  \E d \in Days, challenge \in Challenge : Iterations!Provide(d, challenge)
<1>1. /\ mem[p].date \in Days /\ mem[p].challenge \in Challenge /\ mem[p].challenge.by = p
      /\ p \notin Ops
  BY ActorsAssumption DEF IInv, TypeOK, Memory, ReaderInv, ReaderSaveCache
<1>2. /\ cache' = [cache EXCEPT ![mem[p].date] = mem[p].challenge]
      /\ table' = table /\ mem' = mem /\ replaced' = replaced
  BY DEF ReaderSaveCache
<1>3. Iterations!Provide(mem[p].date, mem[p].challenge)
  BY <1>1, <1>2 DEF Iterations!Provide
<1> QED BY <1>1, <1>3 DEF Iterations!Provide

\* Every other step is a stutter: what has been published stays in memory as
\* it is.
LEMMA OthersStutter ==
  ASSUME IInv,
         \/ \E o \in Ops : \/ RunPipeline(o) \/ IterationGemini(o) \/ IterationFallback(o)
                           \/ \E d \in Days : Start(o, d)
         \/ \E p \in Readers : \/ ReaderArrive(p) \/ ReaderFind(p) \/ ReaderGemini(p)
                               \/ ReaderFallback(p)
         \/ \E a \in Ops \cup Readers : SaveFault(a)
         \/ NewDay \/ Crash \/ UNCHANGED vars
  PROVE  UNCHANGED Abstract
<1>1. table' = table /\ cache' = cache /\ replaced' = replaced
  BY DEF RunPipeline, IterationGemini, IterationFallback, Start, ReaderArrive, ReaderFind,
         ReaderGemini, ReaderFallback, SaveFault, NewDay, Crash, vars
<1> SUFFICES ASSUME NEW q \in Ops, q \in replaced
             PROVE  mem'[q].challenge = mem[q].challenge
  BY <1>1, AbstractKept
<1>2. OpInv(q) /\ q \notin Readers /\ TypeOK /\ mem[q] \in Memory
  BY ActorsAssumption DEF IInv, TypeOK
<1>3. ASSUME NEW o \in Ops,
             \/ RunPipeline(o) \/ IterationGemini(o) \/ IterationFallback(o)
             \/ \E d \in Days : Start(o, d)
      PROVE  mem'[q] = mem[q]
  <2>1. o # q
    BY <1>2, <1>3 DEF OpInv, TaskOf, RowOf, RunPipeline, IterationGemini, IterationFallback, Start
  <2> QED BY <1>2, <1>3, <2>1 DEF RunPipeline, IterationGemini, IterationFallback, Start, Log,
                                   Generated, TypeOK
<1>4. ASSUME NEW p \in Readers,
             ReaderArrive(p) \/ ReaderFind(p) \/ ReaderGemini(p) \/ ReaderFallback(p)
      PROVE  mem'[q] = mem[q]
  BY <1>2, <1>4 DEF ReaderArrive, ReaderFind, ReaderGemini, ReaderFallback, Generated, TypeOK
<1>5. CASE (\E a \in Ops \cup Readers : SaveFault(a)) \/ NewDay \/ Crash \/ UNCHANGED vars
  BY <1>5 DEF SaveFault, NewDay, Crash, vars
<1> QED BY <1>3, <1>4, <1>5

\* The use cases implement IterationRegister, for any number of admins, readers
\* and days, whatever fails: every save of theirs is one of its steps, and every
\* other step, failure and crash changes nothing of what it shows.
THEOREM IterationsImplementRegister == Spec => ImplementsIterations
<1>1. Init => Iterations!Init
  BY DEF Init, NoOperation, Iterations!Init
<1>2. ASSUME IInv, [Next]_vars
      PROVE  [Iterations!Next]_Abstract
  <2>1. ASSUME NEW o \in Ops, SaveRunning(o) \/ IterationSaveCache(o) \/ PersistTerminal(o)
        PROVE  Iterations!Next \/ UNCHANGED Abstract
    <3>1. \/ \E d \in Days : Iterations!Open(o, d)
          \/ \E challenge \in Challenge : Iterations!Publish(o, challenge)
          \/ Iterations!Close(o)
          \/ UNCHANGED Abstract
      BY <1>2, <2>1, SaveRunningOpens, SaveCachePublishes, PersistTerminalCloses
    <3> QED BY <3>1 DEF Iterations!Next
  <2>2. ASSUME NEW p \in Readers, ReaderSaveCache(p)
        PROVE  Iterations!Next
    <3>1. \E d \in Days, challenge \in Challenge : Iterations!Provide(d, challenge)
      BY <1>2, <2>2, ReaderProvides
    <3> QED BY <3>1 DEF Iterations!Next
  <2>3. CASE \/ \E o \in Ops : \/ RunPipeline(o) \/ IterationGemini(o) \/ IterationFallback(o)
                                \/ \E d \in Days : Start(o, d)
             \/ \E p \in Readers : \/ ReaderArrive(p) \/ ReaderFind(p) \/ ReaderGemini(p)
                                    \/ ReaderFallback(p)
             \/ \E a \in Ops \cup Readers : SaveFault(a)
             \/ NewDay \/ Crash \/ UNCHANGED vars
    BY <1>2, <2>3, OthersStutter
  <2> QED BY <1>2, <2>1, <2>2, <2>3 DEF Next, Admin, Reader
<1> QED BY <1>1, <1>2, Invariance, PTL
        DEF Spec, ImplementsIterations, Iterations!Spec, Abstract, OperationOf, PublishedBy
=============================================================================
