--------------------------- MODULE ProgressProofs ---------------------------
(***************************************************************************)
(* Proofs about Progress, for any number of levels, devices and requests   *)
(* in flight and for payloads of any length.                               *)
(***************************************************************************)
EXTENDS Progress, FiniteSetTheorems, WellFoundedInduction, TLAPS

-----------------------------------------------------------------------------
(* The order of results.                                                    *)

Score == Results \cup {NoResult}

\* isBetterThan is a strict total order on valid results.
LEMMA BetterOrder ==
  ASSUME NEW a \in Results, NEW b \in Results, NEW c \in Results
  PROVE  /\ ~IsBetterThan(a, a)
         /\ IsBetterThan(a, b) /\ IsBetterThan(b, c) => IsBetterThan(a, c)
         /\ IsBetterThan(a, b) \/ IsBetterThan(b, a) \/ a = b
<1>1. /\ a = <<a[1], a[2]>> /\ a[1] \in Nat /\ a[2] \in Nat
      /\ b = <<b[1], b[2]>> /\ b[1] \in Nat /\ b[2] \in Nat
      /\ c = <<c[1], c[2]>> /\ c[1] \in Nat /\ c[2] \in Nat
  BY ResultsAssumption
<1>2. ~IsBetterThan(a, a) /\ (IsBetterThan(a, b) /\ IsBetterThan(b, c) => IsBetterThan(a, c))
  BY <1>1 DEF IsBetterThan
<1>3. a[1] = b[1] /\ a[2] = b[2] => a = b
  BY <1>1
<1>4. IsBetterThan(a, b) \/ IsBetterThan(b, a) \/ (a[1] = b[1] /\ a[2] = b[2])
  BY <1>1 DEF IsBetterThan
<1> QED BY <1>2, <1>3, <1>4

\* AtLeast is a preorder on results and "none", and keeping the better of two
\* results keeps at least each of them.
LEMMA AtLeastOrder ==
  ASSUME NEW a \in Score, NEW b \in Score, NEW c \in Score
  PROVE  /\ AtLeast(a, a) /\ AtLeast(a, NoResult)
         /\ AtLeast(a, b) /\ AtLeast(b, c) => AtLeast(a, c)
         /\ AtLeast(a, b) /\ AtLeast(b, a) => a = b
BY BetterOrder, ResultsAssumption DEF Score, AtLeast

LEMMA BetterKeeps ==
  ASSUME NEW a \in Results, NEW b \in Score, NEW c \in Score
  PROVE  /\ Better(a, b) \in Results
         /\ AtLeast(Better(a, b), a) /\ AtLeast(Better(a, b), b)
         /\ AtLeast(b, c) => AtLeast(Better(a, b), Better(a, c))
         /\ b # NoResult => Better(a, b) = Better(b, a)
<1>1. Better(a, b) \in Results
  BY ResultsAssumption DEF Better, Score
<1>2. AtLeast(Better(a, b), a) /\ AtLeast(Better(a, b), b)
  BY BetterOrder, ResultsAssumption DEF Score, AtLeast, Better
<1>3. AtLeast(b, c) => AtLeast(Better(a, b), Better(a, c))
  BY BetterOrder, ResultsAssumption DEF Score, AtLeast, Better
<1>4. b # NoResult => Better(a, b) = Better(b, a)
  BY BetterOrder, ResultsAssumption DEF Score, Better
<1> QED BY <1>1, <1>2, <1>3, <1>4

\* A level completed in a payload has a best completion: the order of results
\* makes no circle through the finitely many of them.
LEMMA BestExists ==
  ASSUME NEW dtos \in Seq(Dto), NEW l \in Levels
  PROVE  BestOf(dtos, l) \in Score
<1> DEFINE at == {j \in DOMAIN dtos : dtos[j].level = l}
           results == {dtos[i].result : i \in at}
           above(i) == {j \in at : IsBetterThan(dtos[j].result, dtos[i].result)}
           T == {above(i) : i \in at}
<1>1. at \subseteq 1 .. Len(dtos) /\ IsFiniteSet(1 .. Len(dtos)) /\ Len(dtos) \in Nat
  BY FS_Interval
<1>2. IsFiniteSet(at)
  BY <1>1, FS_Subset
<1>3. \A i \in at : dtos[i] \in Dto /\ dtos[i].result \in Results
  <2>1. \A i \in 1 .. Len(dtos) : dtos[i] \in Dto
    OBVIOUS
  <2>2. \A d \in Dto : d.result \in Results
    BY DEF Dto
  <2> HIDE DEF at
  <2> QED BY <1>1, <2>1, <2>2
<1>4. CASE at = {}
  <2>1. results = {}
    BY <1>4
  <2> QED BY <2>1 DEF BestOf, Score
<1>5. CASE at # {}
  <2>1. IsWellFoundedOn(StrictSubsetOrdering(at), SUBSET at)
    BY <1>2, FS_StrictSubsetOrderingWellFounded, FS_FiniteSubsetsOfFinite
  <2>2. T \subseteq SUBSET at /\ T # {}
    <3>1. \A i : above(i) \subseteq at
      OBVIOUS
    <3> HIDE DEF above, at
    <3> QED BY <1>5, <3>1
  <2>3. PICK x \in T : \A y \in T : <<y, x>> \notin StrictSubsetOrdering(at)
    <3> HIDE DEF T, at
    <3> QED BY <2>1, <2>2, WFMin
  <2>4. PICK m \in at : x = above(m)
    BY <2>3
  <2>5. \A j \in at : ~IsBetterThan(dtos[j].result, dtos[m].result)
    <3> SUFFICES ASSUME NEW j \in at, IsBetterThan(dtos[j].result, dtos[m].result)
                 PROVE  FALSE
      OBVIOUS
    <3>1. above(j) \subseteq above(m)
      <4> SUFFICES ASSUME NEW k \in at, IsBetterThan(dtos[k].result, dtos[j].result)
                   PROVE  IsBetterThan(dtos[k].result, dtos[m].result)
        OBVIOUS
      <4> HIDE DEF at
      <4> QED BY <1>3, BetterOrder
    <3>2. j \in above(m) /\ j \notin above(j)
      <4>1. ~IsBetterThan(dtos[j].result, dtos[j].result)
        BY <1>3, BetterOrder
      <4> QED BY <4>1
    <3>3. <<above(j), above(m)>> \in StrictSubsetOrdering(at)
      <4>1. above(j) \in SUBSET at /\ above(m) \in SUBSET at /\ above(j) # above(m)
        BY <3>2
      <4> HIDE DEF above, at
      <4> QED BY <3>1, <4>1 DEF StrictSubsetOrdering
    <3>4. above(j) \in T
      OBVIOUS
    <3> HIDE DEF above, T, at
    <3> QED BY <2>3, <2>4, <3>3, <3>4
  <2>6. dtos[m].result \in results /\ \A b \in results : ~IsBetterThan(b, dtos[m].result)
    BY <2>5
  <2>7. results \subseteq Results /\ results # {}
    BY <1>3, <1>5
  <2>8. BestOf(dtos, l) = CHOOSE a \in results : \A b \in results : ~IsBetterThan(b, a)
    BY <2>7 DEF BestOf
  <2> HIDE DEF results, at, above, T
  <2> QED BY <2>6, <2>7, <2>8 DEF Score
<1> QED BY <1>4, <1>5

LEMMA Elements ==
  ASSUME NEW dtos \in Seq(Dto)
  PROVE  DOMAIN dtos = 1 .. Len(dtos) /\ \A i \in 1 .. Len(dtos) : dtos[i] \in Dto
OBVIOUS

\* complete sends a payload of one.
LEMMA BestOfOne ==
  ASSUME NEW dtos \in Seq(Dto), Len(dtos) = 1, NEW l \in Levels
  PROVE  BestOf(dtos, l) = IF dtos[1].level = l THEN dtos[1].result ELSE NoResult
<1>1. DOMAIN dtos = {1} /\ dtos[1] \in Dto
  <2>1. DOMAIN dtos = 1 .. Len(dtos) /\ \A i \in 1 .. Len(dtos) : dtos[i] \in Dto
    BY Elements
  <2>2. 1 .. Len(dtos) = {1}
    OBVIOUS
  <2> QED BY <2>1, <2>2
<1> DEFINE results == {dtos[i].result : i \in {j \in DOMAIN dtos : dtos[j].level = l}}
<1>2. results = IF dtos[1].level = l THEN {dtos[1].result} ELSE {}
  BY <1>1
<1>3. ~IsBetterThan(dtos[1].result, dtos[1].result)
  BY <1>1, BetterOrder DEF Dto
<1>4. BestOf(dtos, l) = IF results = {} THEN NoResult
                        ELSE CHOOSE a \in results : \A b \in results : ~IsBetterThan(b, a)
  BY DEF BestOf
<1> HIDE DEF results
<1> QED BY <1>2, <1>3, <1>4

-----------------------------------------------------------------------------
(* What a request computes from what it read.                               *)

\* The levels c after the completions of a payload.
Applied(dtos, c) ==
  [l \in Levels |-> IF BestOf(dtos, l) = NoResult THEN c[l] ELSE Better(BestOf(dtos, l), c[l])]

Completed == [Levels -> Score]

NoWorse(c, d) == \A l \in Levels : AtLeast(c[l], d[l])

LEMMA AppliedKeeps ==
  ASSUME NEW dtos \in Seq(Dto), NEW c \in Completed, NEW d \in Completed
  PROVE  /\ Applied(dtos, c) \in Completed /\ NoWorse(Applied(dtos, c), c)
         /\ \A l \in Levels : AtLeast(Applied(dtos, c)[l], BestOf(dtos, l))
         /\ NoWorse(c, d) => NoWorse(Applied(dtos, c), Applied(dtos, d))
<1> SUFFICES ASSUME NEW l \in Levels
             PROVE  /\ Applied(dtos, c)[l] \in Score /\ AtLeast(Applied(dtos, c)[l], c[l])
                    /\ AtLeast(Applied(dtos, c)[l], BestOf(dtos, l))
                    /\ AtLeast(c[l], d[l]) => AtLeast(Applied(dtos, c)[l], Applied(dtos, d)[l])
  BY DEF Applied, Completed, NoWorse
<1>1. c[l] \in Score /\ d[l] \in Score /\ BestOf(dtos, l) \in Score
  BY BestExists DEF Completed
<1>2. CASE BestOf(dtos, l) = NoResult
  <2>1. Applied(dtos, c)[l] = c[l] /\ Applied(dtos, d)[l] = d[l]
    BY <1>2 DEF Applied
  <2> QED BY <1>1, <1>2, <2>1, AtLeastOrder
<1>3. CASE BestOf(dtos, l) # NoResult
  <2>1. BestOf(dtos, l) \in Results
    BY <1>1, <1>3 DEF Score
  <2>2. /\ Applied(dtos, c)[l] = Better(BestOf(dtos, l), c[l])
        /\ Applied(dtos, d)[l] = Better(BestOf(dtos, l), d[l])
    BY <1>3 DEF Applied
  <2> QED BY <1>1, <2>1, <2>2, BetterKeeps DEF Score
<1> QED BY <1>2, <1>3

\* Both recordCompletion and the merge policy apply the payload to what was
\* read, and count the version upwards.
LEMMA RecordCompletionApplies ==
  ASSUME NEW p \in PlayerProgress, NEW dtos \in Seq(Dto), Len(dtos) = 1
  PROVE  /\ RecordCompletion(p, dtos[1]) \in PlayerProgress
         /\ RecordCompletion(p, dtos[1]).completed = Applied(dtos, p.completed)
         /\ RecordCompletion(p, dtos[1]).version > p.version
<1>1. p.version \in Nat /\ p.completed \in Completed
  BY DEF PlayerProgress, Completed, Score
<1>2. dtos[1] \in Dto /\ dtos[1].level \in Levels /\ dtos[1].result \in Results
  <2>1. dtos[1] \in Dto
    OBVIOUS
  <2> QED BY <2>1 DEF Dto
<1>3. [p.completed EXCEPT ![dtos[1].level] = Better(dtos[1].result, @)] = Applied(dtos, p.completed)
  <2>1. ASSUME NEW l \in Levels
        PROVE  [p.completed EXCEPT ![dtos[1].level] = Better(dtos[1].result, @)][l]
                 = Applied(dtos, p.completed)[l]
    BY <1>1, <1>2, BestOfOne, ResultsAssumption DEF Applied, Completed
  <2> QED BY <1>1, <2>1 DEF Applied, Completed
<1>4. Applied(dtos, p.completed) \in Completed
  BY <1>1, AppliedKeeps
<1>5. RecordCompletion(p, dtos[1])
        = [version |-> p.version + 1, completed |-> Applied(dtos, p.completed)]
  BY <1>3 DEF RecordCompletion
<1> QED BY <1>1, <1>4, <1>5 DEF PlayerProgress, Completed, Score

LEMMA MergeApplies ==
  ASSUME NEW p \in PlayerProgress, NEW dtos \in Seq(Dto)
  PROVE  /\ Merge(Local(dtos), p) \in PlayerProgress
         /\ Merge(Local(dtos), p).completed = Applied(dtos, p.completed)
         /\ Merge(Local(dtos), p).version > p.version
<1>1. p.version \in Nat /\ p.completed \in Completed /\ Len(dtos) \in Nat
  BY DEF PlayerProgress, Completed, Score
<1> DEFINE merged == [l \in Levels |-> IF p.completed[l] = NoResult THEN BestOf(dtos, l)
                                        ELSE Better(p.completed[l], BestOf(dtos, l))]
           version == IF Len(dtos) > p.version THEN Len(dtos) + 1 ELSE p.version + 1
<1>2. Merge(Local(dtos), p) = [version |-> version, completed |-> merged]
  BY DEF Merge, Local
<1>3. merged = Applied(dtos, p.completed)
  <2>1. ASSUME NEW l \in Levels
        PROVE  merged[l] = Applied(dtos, p.completed)[l]
    <3>1. p.completed[l] \in Score /\ BestOf(dtos, l) \in Score
      BY <1>1, BestExists DEF Completed
    <3>2. CASE BestOf(dtos, l) = NoResult
      BY <3>1, <3>2 DEF Applied, Better
    <3>3. CASE BestOf(dtos, l) # NoResult
      <4>1. CASE p.completed[l] = NoResult
        BY <3>3, <4>1 DEF Applied, Better
      <4>2. CASE p.completed[l] # NoResult
        BY <3>1, <3>3, <4>2, BetterKeeps DEF Applied, Score
      <4> QED BY <4>1, <4>2
    <3> QED BY <3>2, <3>3
  <2> QED BY <2>1 DEF Applied
<1>4. version \in Nat /\ version > p.version
  BY <1>1
<1>5. Applied(dtos, p.completed) \in Completed
  BY <1>1, AppliedKeeps
<1> HIDE DEF version, merged
<1> QED BY <1>2, <1>3, <1>4, <1>5 DEF PlayerProgress, Completed, Score

-----------------------------------------------------------------------------
(* The invariant.  A request whose read is still current has in memory what *)
(* is stored, or what its payload makes of it; any other request has at     *)
(* most that of the best.                                                   *)

Fresh(r) == ~req[r].staleLevels /\ (req[r].sawRow \/ ~exists)

LevelsOf(r) ==
  /\ pc[r] = "findProgress" => req[r].mem = Empty
  /\ pc[r] = "record" =>
       /\ NoWorse(best, req[r].mem.completed)
       /\ Fresh(r) => req[r].mem.completed = progress.completed
  /\ pc[r] = "save" =>
       /\ NoWorse(Applied(req[r].dtos, best), req[r].mem.completed)
       /\ Fresh(r) => req[r].mem.completed = Applied(req[r].dtos, progress.completed)

VersionOf(r) ==
  ~req[r].staleRow =>
    /\ pc[r] \in {"findLevels", "record"} => req[r].mem.version = progress.version
    /\ pc[r] = "save" => req[r].mem.version > progress.version

RequestInv(r) ==
  /\ req[r].op = "complete" => Len(req[r].dtos) = 1
  /\ LevelsOf(r) /\ VersionOf(r)

IInv ==
  /\ TypeOK /\ BestUnlessRaced /\ NothingInvented
  /\ ~exists => progress = Empty
  /\ \A r \in Requests : RequestInv(r)

LEMMA Domains ==
  /\ TypeOK => progress.completed \in Completed /\ best \in Completed
  /\ \A q \in Request : q.mem.completed \in Completed /\ q.dtos \in Seq(Dto)
  /\ Empty \in PlayerProgress /\ NoRequest \in Request
  /\ \A c \in Completed : NoWorse(c, Empty.completed) /\ NoWorse(c, c)
<1>1. Empty \in PlayerProgress /\ NoRequest \in Request
  <2>1. Empty \in PlayerProgress
    BY DEF Empty, PlayerProgress
  <2> QED BY <2>1 DEF NoRequest, Request
<1>2. \A c \in Completed : NoWorse(c, Empty.completed) /\ NoWorse(c, c)
  BY AtLeastOrder DEF NoWorse, Completed, Empty
<1> QED BY <1>1, <1>2 DEF TypeOK, Completed, Score, PlayerProgress, Request

LEMMA IInvInit == Init => IInv
<1> SUFFICES ASSUME Init PROVE IInv
  OBVIOUS
<1>1. Empty \in PlayerProgress /\ NoRequest \in Request
  BY Domains
<1>2. TypeOK
  BY <1>1 DEF Init, TypeOK
<1>3. BestUnlessRaced /\ NothingInvented
  BY DEF Init, BestUnlessRaced, NothingInvented, AtLeast, Empty
<1>4. \A r \in Requests : RequestInv(r)
  BY DEF Init, RequestInv, LevelsOf, VersionOf, NoRequest
<1> QED BY <1>2, <1>3, <1>4 DEF Init, IInv

\* A request that leaves the tables alone.
Own(r, place, new) ==
  /\ place \in Serving \cup {"idle", "ok", "failed"} /\ new \in Request
  /\ pc' = [pc EXCEPT ![r] = place] /\ req' = [req EXCEPT ![r] = new]
  /\ UNCHANGED <<exists, progress, best, raced>>

LEMMA OthersKept ==
  ASSUME IInv, NEW r \in Requests, NEW place, NEW new, Own(r, place, new), RequestInv(r)'
  PROVE  IInv'
<1>1. TypeOK'
  BY DEF IInv, TypeOK, Own
<1>2. UNCHANGED <<exists, progress, best, raced>>
      /\ \A q \in Requests \ {r} : pc'[q] = pc[q] /\ req'[q] = req[q]
  BY DEF Own, IInv, TypeOK
<1>3. ASSUME NEW q \in Requests, q # r
      PROVE  RequestInv(q)'
  BY <1>2, <1>3 DEF IInv, RequestInv, LevelsOf, VersionOf, Fresh
<1>4. BestUnlessRaced' /\ NothingInvented' /\ (~exists' => progress' = Empty)
  BY <1>2 DEF IInv, BestUnlessRaced, NothingInvented
<1> QED BY <1>1, <1>3, <1>4 DEF IInv

\* Outside of the places between the first read and the save nothing is asked.
LEMMA Elsewhere ==
  ASSUME IInv, NEW r \in Requests, NEW place \in {"publish", "idle", "ok", "failed"},
         pc' = [pc EXCEPT ![r] = place], req' = req, UNCHANGED <<exists, progress, best, raced>>
  PROVE  IInv'
<1>1. req[r] \in Request /\ req' = [req EXCEPT ![r] = req[r]] /\ pc'[r] = place /\ req'[r] = req[r]
  BY DEF IInv, TypeOK
<1>2. Own(r, place, req[r])
  BY <1>1 DEF Own, Serving
<1>3. RequestInv(r)'
  BY <1>1 DEF IInv, RequestInv, LevelsOf, VersionOf
<1> QED BY <1>2, <1>3, OthersKept

LEMMA ArriveStep ==
  ASSUME IInv, NEW r \in Requests, NEW op \in {"complete", "sync", "load"}, NEW dtos \in Seq(Dto),
         NEW fault \in {"none", "invalid", "unknownLevel"}, op = "complete" => Len(dtos) = 1,
         Arrive(r, op, dtos, fault)
  PROVE  IInv'
<1> DEFINE new == [NoRequest EXCEPT !.op = op, !.dtos = dtos, !.fault = fault]
<1>1. new \in Request /\ new.op = op /\ new.dtos = dtos /\ new.mem = Empty
  BY Domains DEF NoRequest, Request
<1>2. req' = [req EXCEPT ![r] = new] /\ req'[r] = new /\ pc'[r] = "findProgress"
  BY DEF Arrive, Goto, IInv, TypeOK
<1> HIDE DEF new
<1>3. Own(r, "findProgress", new)
  BY <1>1, <1>2 DEF Own, Arrive, Goto, Serving
<1>4. RequestInv(r)'
  BY <1>1, <1>2 DEF RequestInv, LevelsOf, VersionOf
<1> QED BY <1>3, <1>4, OthersKept

LEMMA FindProgressStep ==
  ASSUME IInv, NEW r \in Requests, FindProgress(r)
  PROVE  IInv'
<1> DEFINE mem == [req[r].mem EXCEPT !.version = progress.version]
           new == [req[r] EXCEPT !.sawRow = exists, !.mem = mem]
           place == IF exists THEN "findLevels" ELSE "record"
<1>1. req[r] \in Request /\ req[r].mem = Empty /\ progress \in PlayerProgress
      /\ exists \in BOOLEAN /\ best \in Completed
  BY Domains DEF IInv, TypeOK, RequestInv, LevelsOf, FindProgress
<1>2. mem \in PlayerProgress /\ mem.version = progress.version /\ mem.completed = Empty.completed
  BY <1>1, Domains DEF PlayerProgress
<1>3. req' = [req EXCEPT ![r] = new]
  BY DEF FindProgress, IInv, TypeOK
<1> HIDE DEF mem
<1>4. new \in Request /\ new.sawRow = exists /\ new.mem = mem
      /\ new.op = req[r].op /\ new.dtos = req[r].dtos
  BY <1>1, <1>2 DEF Request
<1> HIDE DEF new
<1>5. req'[r] = new /\ pc'[r] = place /\ Own(r, place, new)
  BY <1>3, <1>4 DEF FindProgress, Goto, IInv, TypeOK, Own, Serving
<1>6. RequestInv(r)'
  <2>1. UNCHANGED <<exists, progress, best>>
    BY DEF FindProgress
  <2>2. VersionOf(r)' /\ (req'[r].op = "complete" => Len(req'[r].dtos) = 1)
    BY <1>2, <1>4, <1>5 , <2>1 DEF VersionOf, IInv, RequestInv
  <2>3. LevelsOf(r)'
    <3>1. place = "record" => ~exists /\ progress = Empty
      BY DEF IInv
    <3>2. NoWorse(best, Empty.completed)
      BY <1>1, Domains
    <3> QED BY <1>2, <1>4, <1>5, <2>1, <3>1, <3>2 DEF LevelsOf, NoWorse
  <2> QED BY <2>2, <2>3 DEF RequestInv
<1> QED BY <1>5, <1>6, OthersKept

LEMMA FindLevelsStep ==
  ASSUME IInv, NEW r \in Requests, FindLevels(r)
  PROVE  IInv'
<1> DEFINE mem == [req[r].mem EXCEPT !.completed = progress.completed]
           new == [req[r] EXCEPT !.mem = mem]
<1>1. req[r] \in Request /\ req[r].mem \in PlayerProgress /\ progress \in PlayerProgress
  BY DEF IInv, TypeOK, Request
<1>2. mem \in PlayerProgress /\ mem.version = req[r].mem.version /\ mem.completed = progress.completed
  BY <1>1 DEF PlayerProgress
<1>3. req' = [req EXCEPT ![r] = new]
  BY DEF FindLevels, IInv, TypeOK
<1> HIDE DEF mem
<1>4. new \in Request /\ new.mem = mem /\ new.op = req[r].op /\ new.dtos = req[r].dtos
      /\ new.staleRow = req[r].staleRow
  BY <1>1, <1>2 DEF Request
<1> HIDE DEF new
<1>5. req'[r] = new /\ pc'[r] = "record" /\ Own(r, "record", new)
  BY <1>3, <1>4 DEF FindLevels, Goto, IInv, TypeOK, Own, Serving
<1>6. RequestInv(r)'
  <2>1. UNCHANGED <<exists, progress, best>> /\ pc[r] = "findLevels"
    BY DEF FindLevels
  <2>2. VersionOf(r) /\ (req[r].op = "complete" => Len(req[r].dtos) = 1)
    BY DEF IInv, RequestInv
  <2>3. VersionOf(r)' /\ (req'[r].op = "complete" => Len(req'[r].dtos) = 1)
    BY <1>2, <1>4, <1>5, <2>1, <2>2 DEF VersionOf
  <2>4. LevelsOf(r)'
    BY <1>2, <1>4, <1>5, <2>1 DEF LevelsOf, NoWorse, IInv, NothingInvented
  <2> QED BY <2>3, <2>4 DEF RequestInv
<1> QED BY <1>5, <1>6, OthersKept

LEMMA RecordStep ==
  ASSUME IInv, NEW r \in Requests, Record(r)
  PROVE  IInv'
<1>1. req[r] \in Request /\ req[r].mem \in PlayerProgress /\ req[r].dtos \in Seq(Dto)
      /\ best \in Completed /\ progress.completed \in Completed /\ progress.version \in Nat
      /\ req[r].mem.completed \in Completed /\ req[r].mem.version \in Nat /\ pc[r] = "record"
  BY Domains DEF IInv, TypeOK, Request, PlayerProgress, Record
<1>2. RequestInv(r)
  BY DEF IInv
<1>3. PICK mem \in PlayerProgress :
        /\ mem.completed = Applied(req[r].dtos, req[r].mem.completed)
        /\ mem.version > req[r].mem.version
        /\ req' = [req EXCEPT ![r] = [req[r] EXCEPT !.mem = mem]]
  <2>1. CASE /\ req[r].op = "complete"
             /\ req' = [req EXCEPT ![r].mem = RecordCompletion(@, req[r].dtos[1])]
    <3>1. req' = [req EXCEPT ![r] =
                    [req[r] EXCEPT !.mem = RecordCompletion(req[r].mem, req[r].dtos[1])]]
      BY <2>1 DEF IInv, TypeOK
    <3>2. Len(req[r].dtos) = 1
      BY <1>2, <2>1 DEF RequestInv
    <3> QED BY <1>1, <3>1, <3>2, RecordCompletionApplies
  <2>2. CASE req' = [req EXCEPT ![r].mem = Merge(Local(req[r].dtos), @)]
    <3>1. req' = [req EXCEPT ![r] =
                    [req[r] EXCEPT !.mem = Merge(Local(req[r].dtos), req[r].mem)]]
      BY <2>2 DEF IInv, TypeOK
    <3> QED BY <1>1, <3>1, MergeApplies
  <2> QED BY <2>1, <2>2 DEF Record
<1> DEFINE new == [req[r] EXCEPT !.mem = mem]
<1>4. new \in Request /\ new.mem = mem /\ new.op = req[r].op /\ new.dtos = req[r].dtos
      /\ new.staleRow = req[r].staleRow /\ new.staleLevels = req[r].staleLevels
      /\ new.sawRow = req[r].sawRow
  BY <1>1, <1>3 DEF Request
<1>5. req' = [req EXCEPT ![r] = new]
  BY <1>3
<1> HIDE DEF new
<1>6. req'[r] = new /\ pc'[r] = "save" /\ Own(r, "save", new)
  BY <1>4, <1>5 DEF Record, Goto, IInv, TypeOK, Own, Serving
<1>7. UNCHANGED <<exists, progress, best>>
  BY DEF Record
<1>8. VersionOf(r)' /\ (req'[r].op = "complete" => Len(req'[r].dtos) = 1)
  BY <1>1, <1>2, <1>3, <1>4, <1>6, <1>7 DEF VersionOf, RequestInv, PlayerProgress
<1>9. LevelsOf(r)'
  <2>1. NoWorse(best, req[r].mem.completed)
        /\ (Fresh(r) => req[r].mem.completed = progress.completed)
    BY <1>1, <1>2 DEF RequestInv, LevelsOf
  <2>2. NoWorse(Applied(req[r].dtos, best), mem.completed)
    BY <1>1, <1>3, <2>1, AppliedKeeps
  <2>3. Fresh(r)' => mem.completed = Applied(req[r].dtos, progress.completed)
    BY <1>3, <1>4, <1>6, <1>7, <2>1 DEF Fresh
  <2> QED BY <1>4, <1>6, <1>7, <2>2, <2>3 DEF LevelsOf, NoWorse
<1> QED BY <1>6, <1>8, <1>9, OthersKept DEF RequestInv

-----------------------------------------------------------------------------
(* The save replaces everything.                                            *)

LEMMA SaveWrites ==
  ASSUME IInv, NEW r \in Requests, SaveProgress(r)
  PROVE  /\ exists' = TRUE /\ progress' = req[r].mem /\ progress' \in PlayerProgress
         /\ best' = Applied(req[r].dtos, best) /\ best' \in Completed
         /\ raced' = (raced \/ req[r].staleLevels)
         /\ NoWorse(best', best) /\ NoWorse(best', progress'.completed)
         /\ ~req[r].staleLevels =>
              progress'.completed = Applied(req[r].dtos, progress.completed)
<1>1. best \in Completed /\ req[r].dtos \in Seq(Dto) /\ req[r].mem \in PlayerProgress
  BY Domains DEF IInv, TypeOK, Request
<1>2. exists' = TRUE /\ progress' = req[r].mem /\ raced' = (raced \/ req[r].staleLevels)
      /\ pc[r] = "save" /\ (req[r].sawRow \/ ~exists)
  BY DEF SaveProgress
<1>3. best' = Applied(req[r].dtos, best)
  BY DEF SaveProgress, Applied
<1>4. best' \in Completed /\ NoWorse(best', best)
  BY <1>1, <1>3, AppliedKeeps
<1>5. NoWorse(best', progress'.completed)
      /\ (~req[r].staleLevels => progress'.completed = Applied(req[r].dtos, progress.completed))
  BY <1>2, <1>3 DEF IInv, RequestInv, LevelsOf, Fresh
<1> QED BY <1>1, <1>2, <1>3, <1>4, <1>5

\* What a save does to the request in flight q beside it.
LEMMA SaveMarks ==
  ASSUME IInv, NEW r \in Requests, SaveProgress(r), NEW q \in Requests, q # r
  PROVE  /\ req'[q] \in Request /\ pc'[q] = pc[q]
         /\ req'[q].op = req[q].op /\ req'[q].dtos = req[q].dtos /\ req'[q].mem = req[q].mem
         /\ pc[q] \in {"findLevels", "record", "save"} => req'[q].staleRow
         /\ pc[q] \in {"record", "save"} => req'[q].staleLevels
<1> DEFINE row == req[q].staleRow \/ pc[q] \in {"findLevels", "record", "save"}
           levels == req[q].staleLevels \/ pc[q] \in {"record", "save"}
           new == [req[q] EXCEPT !.staleRow = row, !.staleLevels = levels]
<1>1. req'[q] = new /\ pc'[q] = pc[q] /\ req[q] \in Request
  BY DEF SaveProgress, Goto, IInv, TypeOK
<1>2. row \in BOOLEAN /\ levels \in BOOLEAN
      /\ (pc[q] \in {"findLevels", "record", "save"} => row)
      /\ (pc[q] \in {"record", "save"} => levels)
  BY <1>1 DEF Request
<1> HIDE DEF row, levels
<1>3. new \in Request /\ new.op = req[q].op /\ new.dtos = req[q].dtos /\ new.mem = req[q].mem
      /\ new.staleRow = row /\ new.staleLevels = levels
  BY <1>1, <1>2 DEF Request
<1> HIDE DEF new
<1> QED BY <1>1, <1>2, <1>3

LEMMA SaveProgressStep ==
  ASSUME IInv, NEW r \in Requests, SaveProgress(r)
  PROVE  IInv'
<1>1. /\ exists' = TRUE /\ progress' = req[r].mem /\ progress' \in PlayerProgress
      /\ best' = Applied(req[r].dtos, best) /\ best' \in Completed
      /\ raced' = (raced \/ req[r].staleLevels)
      /\ NoWorse(best', best) /\ NoWorse(best', progress'.completed)
      /\ ~req[r].staleLevels =>
           progress'.completed = Applied(req[r].dtos, progress.completed)
  BY SaveWrites
<1>2. req'[r] = req[r] /\ pc'[r] = "publish" /\ req[r] \in Request
  BY DEF SaveProgress, Goto, IInv, TypeOK
<1>3. \A q \in Requests \ {r} :
        /\ req'[q] \in Request /\ pc'[q] = pc[q]
        /\ req'[q].op = req[q].op /\ req'[q].dtos = req[q].dtos /\ req'[q].mem = req[q].mem
        /\ pc[q] \in {"findLevels", "record", "save"} => req'[q].staleRow
        /\ pc[q] \in {"record", "save"} => req'[q].staleLevels
  BY SaveMarks
<1>4. TypeOK'
  <2>1. req' \in [Requests -> Request]
    <3>1. \A q \in Requests : req'[q] \in Request
      BY <1>2, <1>3
    <3>2. req' = [q \in Requests |-> req'[q]]
      BY DEF SaveProgress
    <3> QED BY <3>1, <3>2
  <2>2. pc' \in [Requests -> Serving \cup {"idle", "ok", "failed"}]
    BY DEF SaveProgress, Goto, IInv, TypeOK, Serving
  <2>3. raced' \in BOOLEAN
    BY <1>1, <1>2 DEF IInv, TypeOK, Request
  <2> QED BY <1>1, <2>1, <2>2, <2>3 DEF TypeOK, Completed, Score
<1>5. BestUnlessRaced'
  BY <1>1 DEF IInv, BestUnlessRaced
<1>6. NothingInvented'
  BY <1>1 DEF NothingInvented, NoWorse
<1>7. RequestInv(r)'
  BY <1>2 DEF IInv, RequestInv, LevelsOf, VersionOf
<1>8. ASSUME NEW q \in Requests, q # r
      PROVE  RequestInv(q)'
  <2>1. RequestInv(q) /\ req[q] \in Request /\ best \in Completed
    BY Domains DEF IInv, TypeOK
  <2>2. req[q].mem.completed \in Completed /\ req[q].dtos \in Seq(Dto)
    BY <2>1, Domains
  <2>3. VersionOf(q)' /\ (req'[q].op = "complete" => Len(req'[q].dtos) = 1)
    BY <1>3, <1>8, <2>1 DEF VersionOf, RequestInv
  <2>4. pc[q] = "record" => NoWorse(best', req[q].mem.completed)
    BY <1>1, <2>1, <2>2, AtLeastOrder DEF RequestInv, LevelsOf, NoWorse, Completed
  <2>5. pc[q] = "save" => NoWorse(Applied(req[q].dtos, best'), req[q].mem.completed)
    <3> SUFFICES ASSUME pc[q] = "save"
                 PROVE  NoWorse(Applied(req[q].dtos, best'), req[q].mem.completed)
      OBVIOUS
    <3>1. NoWorse(Applied(req[q].dtos, best), req[q].mem.completed)
      BY <2>1 DEF RequestInv, LevelsOf
    <3>2. NoWorse(Applied(req[q].dtos, best'), Applied(req[q].dtos, best))
          /\ Applied(req[q].dtos, best') \in Completed /\ Applied(req[q].dtos, best) \in Completed
      BY <1>1, <2>1, <2>2, AppliedKeeps
    <3> QED BY <2>2, <3>1, <3>2, AtLeastOrder DEF NoWorse, Completed
  <2>6. LevelsOf(q)'
    <3>1. pc[q] \in {"record", "save"} => ~Fresh(q)'
      BY <1>3, <1>8 DEF Fresh
    <3>2. pc'[q] = pc[q] /\ req'[q].dtos = req[q].dtos /\ req'[q].mem = req[q].mem
      BY <1>3, <1>8
    <3>3. pc[q] = "findProgress" => req[q].mem = Empty
      BY <2>1 DEF RequestInv, LevelsOf
    <3>4. pc[q] = "record" => NoWorse(best', req'[q].mem.completed)
      BY <2>4, <3>2
    <3>5. pc[q] = "save" => NoWorse(Applied(req'[q].dtos, best'), req'[q].mem.completed)
      BY <2>5, <3>2
    <3> QED BY <3>1, <3>2, <3>3, <3>4, <3>5 DEF LevelsOf, NoWorse
  <2> QED BY <2>3, <2>6 DEF RequestInv
<1> QED BY <1>1, <1>4, <1>5, <1>6, <1>7, <1>8 DEF IInv

LEMMA FinishStep ==
  ASSUME IInv, NEW r \in Requests, Finish(r)
  PROVE  IInv'
<1>1. req'[r] = NoRequest /\ pc'[r] = "idle"
  BY DEF Finish, Goto, IInv, TypeOK
<1>2. Own(r, "idle", NoRequest)
  BY Domains DEF Own, Finish, Goto
<1>3. RequestInv(r)'
  BY <1>1 DEF RequestInv, LevelsOf, VersionOf, NoRequest
<1> QED BY <1>2, <1>3, OthersKept

LEMMA OtherSteps ==
  ASSUME IInv, NEW r \in Requests,
         Load(r) \/ Reject(r) \/ SaveConflict(r) \/ Publish(r) \/ Fault(r)
  PROVE  IInv'
BY Elsewhere DEF Load, Reject, SaveConflict, Publish, Fault, Goto

LEMMA PayloadsAreSequences == Payloads \subseteq Seq(Dto)
<1> SUFFICES ASSUME NEW n \in 0 .. MaxDtos, NEW dtos \in [1 .. n -> Dto]
             PROVE  dtos \in Seq(Dto)
  BY DEF Payloads
<1> QED BY BoundsAssumption

LEMMA IInvStep == IInv /\ [Next]_vars => IInv'
<1> SUFFICES ASSUME IInv, [Next]_vars PROVE IInv'
  OBVIOUS
<1>1. ASSUME NEW r \in Requests, NEW dtos \in Payloads,
             NEW fault \in {"none", "invalid", "unknownLevel"},
             Arrive(r, "sync", dtos, fault) \/ (Len(dtos) = 1 /\ Arrive(r, "complete", dtos, fault))
      PROVE  IInv'
  <2>1. dtos \in Seq(Dto)
    BY PayloadsAreSequences
  <2> QED BY <1>1, <2>1, ArriveStep
<1>2. ASSUME NEW r \in Requests, Arrive(r, "load", <<>>, "none")
      PROVE  IInv'
  <2>1. <<>> \in Seq(Dto)
    OBVIOUS
  <2>2. "load" \in {"complete", "sync", "load"} /\ "none" \in {"none", "invalid", "unknownLevel"}
        /\ "load" # "complete"
    OBVIOUS
  <2> QED BY <1>2, <2>1, <2>2, ArriveStep
<1>3. ASSUME NEW r \in Requests,
             FindProgress(r) \/ FindLevels(r) \/ Record(r) \/ SaveProgress(r) \/ Finish(r)
      PROVE  IInv'
  BY <1>3, FindProgressStep, FindLevelsStep, RecordStep, SaveProgressStep, FinishStep
<1>4. CASE UNCHANGED vars
  <2>1. TypeOK' /\ BestUnlessRaced' /\ NothingInvented' /\ (~exists' => progress' = Empty)
    BY <1>4 DEF vars, IInv, TypeOK, BestUnlessRaced, NothingInvented
  <2>2. \A r \in Requests : RequestInv(r)'
    BY <1>4 DEF vars, IInv, RequestInv, LevelsOf, VersionOf, Fresh
  <2> QED BY <2>1, <2>2 DEF IInv
<1> QED BY <1>1, <1>2, <1>3, <1>4, OtherSteps DEF Next

-----------------------------------------------------------------------------
(* The theorems.                                                            *)

\* The invariant holds of every state of CompleteLevelService,
\* SyncProgressService and LoadProgressService.
THEOREM Invariance == Spec => []IInv
BY IInvInit, IInvStep, PTL DEF Spec

\* The stored progress and every aggregate in memory stay in their domains: the
\* better of two valid results is a valid result.
THEOREM TypeCorrect == Spec => []TypeOK
<1>1. IInv => TypeOK
  BY DEF IInv
<1> QED BY <1>1, Invariance, PTL

\* For any number of devices the stored progress is exactly the best of all that
\* was saved, until a save replaces levels it had not read: recordCompletion and
\* the merge policy compute the same, so their order does not matter.
THEOREM BestIsKept == Spec => []BestUnlessRaced
<1>1. IInv => BestUnlessRaced
  BY DEF IInv
<1> QED BY <1>1, Invariance, PTL

\* Lost updates included, no device is ever credited with more than was saved.
THEOREM NoInvention == Spec => []NothingInvented
<1>1. IInv => NothingInvented
  BY DEF IInv
<1> QED BY <1>1, Invariance, PTL

\* A save whose read is current takes no completion away, stores its own, and
\* counts the version upwards.
THEOREM LossIsARace == Spec => LossNeedsRace
<1> DEFINE Kept(r) ==
             \A l \in Levels :
               /\ AtLeast(progress'.completed[l], progress.completed[l])
               /\ AtLeast(progress'.completed[l], BestOf(req[r].dtos, l))
           Safe(r) ==
             SaveProgress(r) =>
               /\ ~req[r].staleLevels => Kept(r)
               /\ ~req[r].staleRow => progress'.version > progress.version
<1>1. ASSUME IInv, NEW r \in Requests, SaveProgress(r), ~req[r].staleLevels
      PROVE  Kept(r)
  <2> SUFFICES ASSUME NEW l \in Levels
               PROVE  /\ AtLeast(progress'.completed[l], progress.completed[l])
                      /\ AtLeast(progress'.completed[l], BestOf(req[r].dtos, l))
    OBVIOUS
  <2>1. progress'.completed = Applied(req[r].dtos, progress.completed)
    BY <1>1, SaveWrites
  <2>2. progress.completed \in Completed /\ req[r].dtos \in Seq(Dto)
    BY <1>1, Domains DEF IInv, TypeOK
  <2> QED BY <2>1, <2>2, AppliedKeeps DEF NoWorse
<1>2. ASSUME IInv, NEW r \in Requests, SaveProgress(r), ~req[r].staleRow
      PROVE  progress'.version > progress.version
  BY <1>2 DEF IInv, RequestInv, VersionOf, SaveProgress
<1>3. IInv => [\A r \in Requests : Safe(r)]_vars
  <2> HIDE DEF Kept
  <2> QED BY <1>1, <1>2
<1> QED BY <1>3, Invariance, PTL DEF LossNeedsRace
=============================================================================
