------------------------- MODULE SolvabilityProofs -------------------------
(***************************************************************************)
(* Proofs about levels and their makers, for boards, arrows and candidates *)
(* of any size: Kahn's algorithm decides acyclicity, and acyclicity is     *)
(* what lets a player clear the level.                                     *)
(***************************************************************************)
EXTENDS LevelGeneration, FiniteSetTheorems, TLAPS

(* Geometry *)

\* What lies on the ray of an arrow is what the policy calls strictly ahead ...
LEMMA RayIsAhead ==
  ASSUME NEW head \in Position, NEW cell \in Position, NEW direction \in Directions,
         OnRay(head, direction, cell)
  PROVE  IsStrictlyAhead(head, direction, cell)
<1> DEFINE k == Distance(head, cell)
<1>1. /\ head[1] \in Int /\ head[2] \in Int /\ head[3] \in Int
      /\ cell[1] \in Int /\ cell[2] \in Int /\ cell[3] \in Int
      /\ head = <<head[1], head[2], head[3]>> /\ cell = <<cell[1], cell[2], cell[3]>>
  BY DEF Position
<1>2. k \in Int /\ k > 0
  <2>1. head # cell
    BY DEF OnRay
  <2>2. head[1] # cell[1] \/ head[2] # cell[2] \/ head[3] # cell[3]
    BY <1>1, <2>1
  <2>3. /\ Abs(head[1] - cell[1]) \in Nat /\ Abs(head[2] - cell[2]) \in Nat
        /\ Abs(head[3] - cell[3]) \in Nat
        /\ head[1] # cell[1] => Abs(head[1] - cell[1]) > 0
        /\ head[2] # cell[2] => Abs(head[2] - cell[2]) > 0
        /\ head[3] # cell[3] => Abs(head[3] - cell[3]) > 0
    BY <1>1 DEF Abs
  <2> QED BY <2>2, <2>3 DEF Distance
<1>3. /\ cell[1] = head[1] + k * Delta[direction][1]
      /\ cell[2] = head[2] + k * Delta[direction][2]
      /\ cell[3] = head[3] + k * Delta[direction][3]
  BY DEF OnRay, Translate
<1> HIDE DEF k
<1>a. CASE direction = "UP"
  BY <1>a, <1>1, <1>2, <1>3 DEF IsStrictlyAhead, Delta
<1>b. CASE direction = "DOWN"
  BY <1>b, <1>1, <1>2, <1>3 DEF IsStrictlyAhead, Delta
<1>c. CASE direction = "LEFT"
  BY <1>c, <1>1, <1>2, <1>3 DEF IsStrictlyAhead, Delta
<1>d. CASE direction = "RIGHT"
  BY <1>d, <1>1, <1>2, <1>3 DEF IsStrictlyAhead, Delta
<1>e. CASE direction = "FORWARD"
  BY <1>e, <1>1, <1>2, <1>3 DEF IsStrictlyAhead, Delta
<1>f. CASE direction = "BACK"
  BY <1>f, <1>1, <1>2, <1>3 DEF IsStrictlyAhead, Delta
<1> QED BY <1>a, <1>b, <1>c, <1>d, <1>e, <1>f DEF Directions

\* ... and in one layer it is nothing else.
LEMMA AheadIsRay ==
  ASSUME NEW head \in Position, NEW cell \in Position, NEW direction \in Directions,
         head[3] = cell[3], IsStrictlyAhead(head, direction, cell)
  PROVE  OnRay(head, direction, cell)
<1>1. /\ head[1] \in Int /\ head[2] \in Int /\ head[3] \in Int
      /\ cell[1] \in Int /\ cell[2] \in Int /\ cell[3] \in Int
      /\ head = <<head[1], head[2], head[3]>> /\ cell = <<cell[1], cell[2], cell[3]>>
  BY DEF Position
<1>a. CASE direction = "UP"
  <2>1. cell[2] = head[2] /\ cell[1] < head[1]
    BY <1>a DEF IsStrictlyAhead
  <2>2. Distance(head, cell) = head[1] - cell[1]
    BY <1>1, <2>1 DEF Distance, Abs
  <2> QED BY <1>1, <1>a, <2>1, <2>2 DEF OnRay, Translate, Delta
<1>b. CASE direction = "DOWN"
  <2>1. cell[2] = head[2] /\ cell[1] > head[1]
    BY <1>b DEF IsStrictlyAhead
  <2>2. Distance(head, cell) = cell[1] - head[1]
    BY <1>1, <2>1 DEF Distance, Abs
  <2> QED BY <1>1, <1>b, <2>1, <2>2 DEF OnRay, Translate, Delta
<1>c. CASE direction = "LEFT"
  <2>1. cell[1] = head[1] /\ cell[2] < head[2]
    BY <1>c DEF IsStrictlyAhead
  <2>2. Distance(head, cell) = head[2] - cell[2]
    BY <1>1, <2>1 DEF Distance, Abs
  <2> QED BY <1>1, <1>c, <2>1, <2>2 DEF OnRay, Translate, Delta
<1>d. CASE direction = "RIGHT"
  <2>1. cell[1] = head[1] /\ cell[2] > head[2]
    BY <1>d DEF IsStrictlyAhead
  <2>2. Distance(head, cell) = cell[2] - head[2]
    BY <1>1, <2>1 DEF Distance, Abs
  <2> QED BY <1>1, <1>d, <2>1, <2>2 DEF OnRay, Translate, Delta
<1>e. CASE direction = "FORWARD"
  <2>1. cell[3] > head[3]
    BY <1>e DEF IsStrictlyAhead
  <2> QED BY <1>1, <2>1
<1>f. CASE direction = "BACK"
  <2>1. cell[3] < head[3]
    BY <1>f DEF IsStrictlyAhead
  <2> QED BY <1>1, <2>1
<1> QED BY <1>a, <1>b, <1>c, <1>d, <1>e, <1>f DEF Directions

\* The cells of an arrow and its head are positions.
LEMMA CellsArePositions ==
  ASSUME NEW arrow \in Arrow, arrow.path # <<>>
  PROVE  /\ HeadOf(arrow) \in Position /\ HeadOf(arrow) \in Cells(arrow)
         /\ Cells(arrow) \subseteq Position
         /\ arrow.direction \in Directions
<1>1. arrow.path \in Seq(Position) /\ arrow.direction \in Directions
  BY DEF Arrow
<1>2. Len(arrow.path) \in DOMAIN arrow.path
  BY <1>1
<1> QED BY <1>1, <1>2 DEF HeadOf, Cells

\* An arrow that none of the remaining ones blocks can leave.
LEMMA UnblockedLeaves ==
  ASSUME NEW arrows \in Seq(Arrow), \A n \in DOMAIN arrows : arrows[n].path # <<>>,
         NEW group \in SUBSET DOMAIN arrows, NEW n \in group,
         Blockers(arrows, n) \cap group = {}
  PROVE  CanLeave(arrows, group, n)
<1> SUFFICES ASSUME NEW m \in group \ {n}, NEW cell \in Cells(arrows[m]),
                    OnRay(HeadOf(arrows[n]), arrows[n].direction, cell)
             PROVE  FALSE
  BY DEF CanLeave
<1>1. arrows[n] \in Arrow /\ arrows[m] \in Arrow /\ m \in DOMAIN arrows
  OBVIOUS
<1>2. IsStrictlyAhead(HeadOf(arrows[n]), arrows[n].direction, cell)
  BY <1>1, CellsArePositions, RayIsAhead
<1>3. m \in Blockers(arrows, n)
  BY <1>1, <1>2 DEF Blockers, Blocks
<1> QED BY <1>3

\* In one layer, an arrow that a remaining one blocks cannot leave.
LEMMA BlockedStays ==
  ASSUME NEW arrows \in Seq(Arrow), \A n \in DOMAIN arrows : arrows[n].path # <<>>,
         IsFlat(arrows), NEW group, NEW n \in DOMAIN arrows,
         NEW m \in Blockers(arrows, n), m \in group
  PROVE  ~CanLeave(arrows, group, n)
<1>1. m \in DOMAIN arrows /\ m # n /\ Blocks(arrows[n], arrows[m])
  BY DEF Blockers
<1>2. PICK cell \in Cells(arrows[m]) :
         IsStrictlyAhead(HeadOf(arrows[n]), arrows[n].direction, cell)
  BY <1>1 DEF Blocks
<1>3. arrows[n] \in Arrow /\ arrows[m] \in Arrow
  BY <1>1
<1>4. HeadOf(arrows[n]) \in AllCells(arrows) /\ cell \in AllCells(arrows)
  BY <1>1, <1>3, CellsArePositions DEF AllCells
<1>5. HeadOf(arrows[n])[3] = cell[3]
  BY <1>4 DEF IsFlat
<1>6. OnRay(HeadOf(arrows[n]), arrows[n].direction, cell)
  BY <1>1, <1>2, <1>3, <1>5, CellsArePositions, AheadIsRay
<1> QED BY <1>1, <1>6 DEF CanLeave

-----------------------------------------------------------------------------
(* Kahn's algorithm.  What it relies on besides its counts: no arrow was    *)
(* visited before one that blocks it, so that every group of visited arrows *)
(* has one that none of the group blocks, the first of them visited.        *)

Counts ==
  /\ indegree \in [Nodes -> Nat]
  /\ KahnCounts

Peeled ==
  /\ done \subseteq Nodes
  /\ \A n \in done : Blockers(level, n) \subseteq done
  /\ \A group \in SUBSET done :
       group # {} => \E n \in group : Blockers(level, n) \cap group = {}

Judged ==
  /\ verdict \in {"none", "running", "accepted", "refused"}
  /\ verdict \in {"accepted", "refused"} => queue = {}
  /\ verdict = "accepted" => done = Nodes
  /\ verdict = "refused" => done # Nodes

\* Nobody has taken an arrow that lies on a cycle, or behind one.
Played ==
  /\ remaining \subseteq Nodes
  /\ verdict = "running" => remaining = Nodes
  /\ verdict = "refused" /\ IsFlat(level) => Nodes \ done \subseteq remaining

Examinable(arrows) == arrows \in Seq(Arrow) /\ \A n \in DOMAIN arrows : ValidArrow(arrows[n])

KahnInv == Examinable(level) /\ Counts /\ Peeled /\ Judged /\ Played

\* The blockers of an arrow are finitely many others.
LEMMA BlockersAreFinite ==
  ASSUME NEW arrows, arrows \in Seq(Arrow), NEW n
  PROVE  /\ IsFiniteSet(Blockers(arrows, n)) /\ Cardinality(Blockers(arrows, n)) \in Nat
         /\ Blockers(arrows, n) \subseteq DOMAIN arrows /\ n \notin Blockers(arrows, n)
         /\ \A S : /\ IsFiniteSet(Blockers(arrows, n) \ S)
                   /\ Cardinality(Blockers(arrows, n) \ S) \in Nat
         /\ IsFiniteSet(DOMAIN arrows) /\ Cardinality(DOMAIN arrows) = Len(arrows)
<1>1. Blockers(arrows, n) \subseteq DOMAIN arrows /\ n \notin Blockers(arrows, n)
  BY DEF Blockers
<1>2. DOMAIN arrows = 1 .. Len(arrows) /\ Len(arrows) \in Nat
  OBVIOUS
<1>3. IsFiniteSet(DOMAIN arrows) /\ Cardinality(DOMAIN arrows) = Len(arrows)
  BY <1>2, FS_Interval
<1>4. IsFiniteSet(Blockers(arrows, n)) /\ Cardinality(Blockers(arrows, n)) \in Nat
  BY <1>1, <1>3, FS_Subset, FS_CardinalityType
<1>5. ASSUME NEW S
      PROVE  IsFiniteSet(Blockers(arrows, n) \ S) /\ Cardinality(Blockers(arrows, n) \ S) \in Nat
  BY <1>4, FS_Difference, FS_CardinalityType
<1> QED BY <1>1, <1>3, <1>4, <1>5

\* Before anything was examined, nothing is counted.
LEMMA KahnInvEmpty == KahnInit => KahnInv
<1> SUFFICES ASSUME KahnInit PROVE KahnInv
  OBVIOUS
<1> USE DEF KahnInit
<1>1. Nodes = {} /\ level \in Seq(Arrow)
  BY DEF Nodes
<1>2. Cardinality(done) = 0
  BY FS_EmptySet
<1>3. indegree \in [Nodes -> Nat]
  BY <1>1
<1> QED BY <1>1, <1>2, <1>3 DEF KahnInv, Examinable, Counts, KahnCounts, Peeled, Judged, Played

\* The graph, the indegrees and the first queue start out right.
LEMMA ExamineKeeps ==
  ASSUME NEW arrows, Examinable(arrows), Examine(arrows)
  PROVE  KahnInv'
<1>1. level' = arrows /\ arrows \in Seq(Arrow)
  BY DEF Examine, Examinable
<1>2. Counts'
  <2>1. indegree' = [n \in DOMAIN arrows |-> Cardinality(Blockers(arrows, n))]
    BY DEF Examine
  <2>2. indegree' \in [Nodes' -> Nat]
    BY <1>1, <2>1, BlockersAreFinite DEF Nodes
  <2>3. \A n \in Nodes' : indegree'[n] = Cardinality(Blockers(level', n) \ done')
    <3> SUFFICES ASSUME NEW n \in DOMAIN arrows
                 PROVE  indegree'[n] = Cardinality(Blockers(arrows, n) \ done')
      BY <1>1 DEF Nodes
    <3>1. done' = {} /\ Blockers(arrows, n) \ {} = Blockers(arrows, n)
      BY DEF Examine
    <3> QED BY <2>1, <3>1
  <2>4. queue' = {n \in Nodes' \ done' : Blockers(level', n) \subseteq done'}
    BY <1>1 DEF Examine, Nodes
  <2>5. visited' = Cardinality(done')
    BY FS_EmptySet DEF Examine
  <2> QED BY <2>2, <2>3, <2>4, <2>5 DEF Counts, KahnCounts
<1>3. Peeled' /\ Judged' /\ Played'
  BY <1>1 DEF Examine, Peeled, Judged, Played, Nodes
<1> QED BY <1>1, <1>2, <1>3 DEF KahnInv, Examinable

\* A round keeps the counts: exactly the arrows behind the visited one have a
\* blocker less, and those with none left are queued.
LEMMA VisitCounts ==
  ASSUME KahnInv, Visit
  PROVE  Counts'
<1> PICK n \in queue :
      /\ indegree' = [m \in Nodes |-> IF m \in {x \in Nodes : n \in Blockers(level, x)}
                                        THEN indegree[m] - 1 ELSE indegree[m]]
      /\ queue' = (queue \ {n}) \cup {m \in {x \in Nodes : n \in Blockers(level, x)} : indegree'[m] = 0}
      /\ done' = done \cup {n}
  BY DEF Visit
<1>1. level' = level /\ Nodes' = Nodes /\ level \in Seq(Arrow)
  BY DEF Visit, Nodes, KahnInv, Examinable
<1>2. n \in Nodes \ done /\ Blockers(level, n) \subseteq done /\ n \notin Blockers(level, n)
  BY <1>1, BlockersAreFinite DEF KahnInv, Counts, KahnCounts
<1>3. ASSUME NEW m \in Nodes
      PROVE  /\ indegree'[m] \in Nat
             /\ indegree'[m] = Cardinality(Blockers(level, m) \ done')
  <2>1. indegree[m] = Cardinality(Blockers(level, m) \ done)
    BY <1>3 DEF KahnInv, Counts, KahnCounts
  <2>2. Blockers(level, m) \ done' = (Blockers(level, m) \ done) \ {n}
    OBVIOUS
  <2>3. n \in Blockers(level, m) \ done <=> n \in Blockers(level, m)
    BY <1>2
  <2>4. IsFiniteSet(Blockers(level, m) \ done)
    BY <1>1, BlockersAreFinite
  <2>5. Cardinality(Blockers(level, m) \ done') = IF n \in Blockers(level, m) THEN indegree[m] - 1 ELSE indegree[m]
    BY <2>1, <2>2, <2>3, <2>4, FS_RemoveElement
  <2>6. Cardinality(Blockers(level, m) \ done') \in Nat
    BY <1>1, BlockersAreFinite
  <2> QED BY <1>3, <2>5, <2>6
<1>4. indegree' \in [Nodes' -> Nat]
  BY <1>1, <1>3
<1>5. \A m \in Nodes : indegree'[m] = 0 <=> Blockers(level, m) \subseteq done'
  <2> TAKE m \in Nodes
  <2>1. IsFiniteSet(Blockers(level, m) \ done')
    BY <1>1, BlockersAreFinite
  <2>2. indegree'[m] = 0 <=> Blockers(level, m) \ done' = {}
    BY <1>3, <2>1, FS_EmptySet
  <2> QED BY <2>2
<1>6. queue' = {m \in Nodes' \ done' : Blockers(level', m) \subseteq done'}
  <2>1. ASSUME NEW m \in queue'
        PROVE  m \in Nodes \ done' /\ Blockers(level, m) \subseteq done'
    <3>1. CASE m \in queue \ {n}
      BY <3>1 DEF KahnInv, Counts, KahnCounts
    <3>2. CASE m \in Nodes /\ n \in Blockers(level, m) /\ indegree'[m] = 0
      <4>1. m \notin done
        BY <1>2, <3>2 DEF KahnInv, Peeled
      <4> QED BY <1>2, <1>5, <3>2, <4>1
    <3> QED BY <2>1, <3>1, <3>2
  <2>2. ASSUME NEW m \in Nodes \ done', Blockers(level, m) \subseteq done'
        PROVE  m \in queue'
    <3>1. CASE n \in Blockers(level, m)
      BY <1>5, <2>2, <3>1
    <3>2. CASE n \notin Blockers(level, m)
      <4>1. m \in queue
        BY <2>2, <3>2 DEF KahnInv, Counts, KahnCounts
      <4> QED BY <2>2, <4>1
    <3> QED BY <3>1, <3>2
  <2> QED BY <1>1, <2>1, <2>2
<1>7. visited' = Cardinality(done')
  <2>1. IsFiniteSet(done) /\ visited = Cardinality(done)
    BY <1>1, BlockersAreFinite, FS_Subset DEF KahnInv, Counts, KahnCounts, Peeled, Nodes
  <2>2. Cardinality(done \cup {n}) = Cardinality(done) + 1
    BY <1>2, <2>1, FS_AddElement
  <2> QED BY <2>1, <2>2 DEF Visit
<1> QED BY <1>1, <1>3, <1>4, <1>6, <1>7 DEF Counts, KahnCounts

\* A round visits an arrow that no arrow visited later, or itself, blocks.
LEMMA VisitPeels ==
  ASSUME KahnInv, Visit
  PROVE  Peeled'
<1> PICK n \in queue : done' = done \cup {n}
  BY DEF Visit
<1>1. level' = level /\ Nodes' = Nodes /\ level \in Seq(Arrow)
  BY DEF Visit, Nodes, KahnInv, Examinable
<1>2. n \in Nodes \ done /\ Blockers(level, n) \subseteq done /\ n \notin Blockers(level, n)
  BY <1>1, BlockersAreFinite DEF KahnInv, Counts, KahnCounts
<1>3. done' \subseteq Nodes' /\ \A m \in done' : Blockers(level', m) \subseteq done'
  BY <1>1, <1>2 DEF KahnInv, Peeled
<1>4. ASSUME NEW group \in SUBSET done', group # {}
      PROVE  \E m \in group : Blockers(level, m) \cap group = {}
  <2>1. CASE group = {n}
    BY <1>2, <2>1
  <2>2. CASE group # {n}
    <3>1. group \ {n} \in SUBSET done /\ group \ {n} # {}
      BY <1>4, <2>2
    <3>2. PICK m \in group \ {n} : Blockers(level, m) \cap (group \ {n}) = {}
      BY <3>1 DEF KahnInv, Peeled
    <3>3. n \notin Blockers(level, m)
      BY <1>2, <3>1 DEF KahnInv, Peeled
    <3> QED BY <3>2, <3>3
  <2> QED BY <2>1, <2>2
<1> QED BY <1>1, <1>3, <1>4 DEF Peeled

LEMMA VisitKeeps ==
  ASSUME KahnInv, Visit
  PROVE  KahnInv'
<1>1. Examinable(level)' /\ Nodes' = Nodes
  BY DEF KahnInv, Examinable, Visit, Nodes
<1>2. Judged' /\ Played'
  BY <1>1 DEF KahnInv, Judged, Played, Visit
<1> QED BY <1>1, <1>2, VisitCounts, VisitPeels DEF KahnInv

\* The loop's end: as many arrows were visited as there are if and only if all
\* of them were.
LEMMA ConcludeKeeps ==
  ASSUME KahnInv, Conclude
  PROVE  KahnInv'
<1>1. level' = level /\ Nodes' = Nodes /\ done' = done /\ queue' = queue /\ queue = {}
  BY DEF Conclude, Nodes
<1>2. visited = Len(level) <=> done = Nodes
  <2>1. IsFiniteSet(Nodes) /\ Cardinality(Nodes) = Len(level)
    BY BlockersAreFinite DEF Nodes, KahnInv, Examinable
  <2>2. visited = Cardinality(done) /\ done \in SUBSET Nodes
    BY DEF KahnInv, Counts, KahnCounts, Peeled
  <2> QED BY <2>1, <2>2, FS_Subset
<1>3. Counts' /\ Peeled' /\ Examinable(level)'
  BY <1>1 DEF Conclude, KahnInv, Counts, KahnCounts, Peeled, Examinable
<1>4. Judged'
  BY <1>1, <1>2 DEF Conclude, Judged
<1>5. Played'
  BY <1>1 DEF Conclude, Played, KahnInv
<1> QED BY <1>3, <1>4, <1>5 DEF KahnInv

\* A move: in one layer it never takes an arrow that was not visited, because
\* the arrows that block it were not visited either, and are still there.
LEMMA ExtractKeeps ==
  ASSUME KahnInv, NEW n, Extract(n)
  PROVE  KahnInv'
<1>1. level' = level /\ Nodes' = Nodes /\ done' = done /\ queue' = queue /\ verdict' = verdict
  BY DEF Extract, Nodes
<1>2. Counts' /\ Peeled' /\ Judged' /\ Examinable(level)'
  BY <1>1 DEF Extract, KahnInv, Counts, KahnCounts, Peeled, Judged, Examinable
<1>3. ASSUME verdict = "refused", IsFlat(level)
      PROVE  n \in done
  <2>1. SUFFICES ASSUME n \notin done PROVE FALSE
    OBVIOUS
  <2>2. n \in Nodes /\ n \in remaining /\ CanLeave(level, remaining, n)
    BY DEF Extract, KahnInv, Played
  <2>3. ~(Blockers(level, n) \subseteq done)
    BY <1>3, <2>1, <2>2 DEF KahnInv, Counts, KahnCounts, Judged
  <2>4. PICK m \in Blockers(level, n) : m \notin done
    BY <2>3
  <2>5. m \in remaining
    BY <1>3, <2>4 DEF KahnInv, Played, Blockers, Nodes
  <2>6. level \in Seq(Arrow) /\ \A x \in DOMAIN level : level[x].path # <<>>
    BY DEF KahnInv, Examinable, ValidArrow
  <2> QED BY <1>3, <2>2, <2>4, <2>5, <2>6, BlockedStays DEF Nodes
<1>4. Played'
  BY <1>1, <1>3 DEF Extract, Played, KahnInv
<1> QED BY <1>2, <1>4 DEF KahnInv

LEMMA KahnStutters ==
  ASSUME KahnInv, UNCHANGED kahnVars
  PROVE  KahnInv'
BY DEF KahnInv, kahnVars, Examinable, Counts, KahnCounts, Peeled, Judged, Played, Nodes

-----------------------------------------------------------------------------
(* The makers.  What they build, and what is offered, are arrows; an        *)
(* attempt is begun only if another one is left.                            *)

JobTyped ==
  /\ job.maker = "random" => job.options \in Options
  /\ job.maker = "script" => job.meta \in Metas

Attempts ==
  /\ stage \in {"idle", "build", "test", "offered", "knocked"} \cup Ended
  /\ attempt \in 0 .. MaxGenerations /\ tries \in 0 .. PlacementTries - 1
  /\ stage = "idle" => attempt = 0
  /\ stage \in {"build", "test"} => attempt < MaxGenerations

Drawn ==
  /\ built \in Seq(Arrow)
  /\ stage = "offered" => offer.arrows \in Seq(Arrow)

MakerInv == JobTyped /\ Attempts /\ Drawn

\* A position moves to a position.
LEMMA TranslateIsPosition ==
  ASSUME NEW p \in Position, NEW direction \in Directions, NEW k \in Int
  PROVE  Translate(p, direction, k) \in Position
<1>1. p[1] \in Int /\ p[2] \in Int /\ p[3] \in Int
  BY DEF Position
<1>2. /\ Delta[direction][1] \in Int /\ Delta[direction][2] \in Int /\ Delta[direction][3] \in Int
  BY DEF Directions, Delta
<1>3. /\ k * Delta[direction][1] \in Int /\ k * Delta[direction][2] \in Int
      /\ k * Delta[direction][3] \in Int
  BY <1>2
<1> QED BY <1>1, <1>3 DEF Translate, Position

\* An arrow of either maker is one, and one more leaves a list of arrows.
LEMMA PlacedIsTyped ==
  ASSUME built \in Seq(Arrow), NEW path \in Seq(Position), NEW direction \in Directions
  PROVE  Append(built, NewArrow(path, direction)) \in Seq(Arrow)
<1>1. NewArrow(path, direction) \in Arrow
  BY DEF NewArrow, Arrow
<1> QED BY <1>1

LEMMA RegionIsPositions ==
  ASSUME NEW cells \in Seq(Position)
  PROVE  CellsOf(cells) \subseteq Position
BY DEF CellsOf

\* A request's arrows, without their third coordinate, are arrows.
LEMMA FlatIsTyped ==
  ASSUME NEW arrows \in Seq(Arrow)
  PROVE  Flat(arrows) \in Seq(Arrow)
<1>1. ASSUME NEW i \in DOMAIN arrows
      PROVE  Flat(arrows)[i] \in Arrow
  <2> DEFINE path == arrows[i].path
             flat == [k \in DOMAIN path |-> <<path[k][1], path[k][2], 0>>]
  <2>1. arrows[i] \in Arrow /\ path \in Seq(Position)
    <3>1. arrows[i] \in Arrow
      OBVIOUS
    <3> QED BY <3>1 DEF Arrow
  <2> HIDE DEF path
  <2>2. ASSUME NEW k \in DOMAIN path
        PROVE  <<path[k][1], path[k][2], 0>> \in Position
    <3>1. path[k] \in Position
      BY <2>1
    <3> QED BY <3>1 DEF Position
  <2>3. flat \in [1 .. Len(path) -> Position] /\ Len(path) \in Nat
    BY <2>1, <2>2
  <2>4. flat \in Seq(Position)
    BY <2>3
  <2>5. Flat(arrows)[i] = [arrows[i] EXCEPT !.path = flat]
    BY DEF Flat, path
  <2> HIDE DEF flat
  <2> QED BY <2>1, <2>4, <2>5 DEF Arrow, path
<1>2. Flat(arrows) \in [1 .. Len(arrows) -> Arrow]
  BY <1>1 DEF Flat
<1> QED BY <1>2

LEMMA PlaceRandomKeeps ==
  ASSUME MakerInv, PlaceRandom
  PROVE  MakerInv'
<1>1. job' = job /\ stage = "build" /\ job.options \in Options /\ built \in Seq(Arrow)
  BY DEF PlaceRandom, MakerInv, JobTyped, Drawn
<1>2. job.options.cells \in Seq(Position) /\ job.options.maxLength \in Nat
  BY <1>1, OptionsAssumption DEF RandomLevelOptions, Region
<1> PICK start \in CellsOf(job.options.cells), direction \in Planar,
         length \in 1 .. job.options.maxLength :
      \/ /\ built' = Append(built, NewArrow(StraightPath(start, direction, length), direction))
         /\ tries' = 0
         /\ UNCHANGED <<attempt, stage>>
      \/ tries + 1 < PlacementTries /\ tries' = tries + 1 /\ UNCHANGED <<attempt, stage, built>>
      \/ Retry
  BY DEF PlaceRandom
<1>3. StraightPath(start, direction, length) \in Seq(Position) /\ direction \in Directions
  <2>1. start \in Position /\ direction \in Directions
    BY <1>2, RegionIsPositions DEF Planar, Directions
  <2>2. \A k \in 1 .. length : Translate(start, direction, k - 1) \in Position
    BY <1>2, <2>1, TranslateIsPosition
  <2>3. length \in Nat
    BY <1>2
  <2> QED BY <2>1, <2>2, <2>3 DEF StraightPath
<1>4. Drawn'
  <2>1. stage' # "offered"
    BY <1>1 DEF Retry
  <2>2. Append(built, NewArrow(StraightPath(start, direction, length), direction)) \in Seq(Arrow)
    BY <1>1, <1>3, PlacedIsTyped
  <2>3. \/ built' = Append(built, NewArrow(StraightPath(start, direction, length), direction))
        \/ built' = built \/ built' = <<>>
    BY DEF Retry
  <2>4. <<>> \in Seq(Arrow)
    OBVIOUS
  <2> QED BY <1>1, <2>1, <2>2, <2>3, <2>4 DEF Drawn
<1>5. Attempts'
  BY <1>1, BoundsAssumption DEF MakerInv, Attempts, Retry, Ended
<1>6. JobTyped'
  BY <1>1 DEF MakerInv, JobTyped
<1> QED BY <1>4, <1>5, <1>6 DEF MakerInv

LEMMA PlaceScriptKeeps ==
  ASSUME MakerInv, PlaceScript
  PROVE  MakerInv'
<1>1. job' = job /\ stage = "build" /\ stage' = stage /\ job.meta \in Metas /\ built \in Seq(Arrow)
  BY DEF PlaceScript, MakerInv, JobTyped, Drawn
<1>2. /\ job.meta.cells \in Seq(Position) /\ job.meta.minBody \in Nat /\ job.meta.maxBody \in Nat
      /\ job.meta.family \in {"UP_RIGHT", "RIGHT_DOWN", "DOWN_LEFT", "LEFT_UP"}
  BY <1>1, OptionsAssumption DEF LevelMeta, Region
<1> PICK length \in 1 + job.meta.minBody .. 1 + job.meta.maxBody :
      \E path \in MonotonePaths(job.meta, length), direction \in Family[job.meta.family] :
        built' = Append(built, NewArrow(path, direction))
  BY DEF PlaceScript
<1> PICK path \in MonotonePaths(job.meta, length), direction \in Family[job.meta.family] :
      built' = Append(built, NewArrow(path, direction))
  OBVIOUS
<1>3. path \in Seq(Position)
  <2>1. path \in [1 .. length -> CellsOf(job.meta.cells)] /\ length \in Nat
    BY <1>2 DEF MonotonePaths
  <2>2. CellsOf(job.meta.cells) \subseteq Position
    BY <1>2, RegionIsPositions
  <2> QED BY <2>1, <2>2
<1>4. direction \in Directions
  BY <1>2 DEF Family, Directions
<1>5. Drawn'
  BY <1>1, <1>3, <1>4, PlacedIsTyped DEF Drawn
<1>6. Attempts' /\ JobTyped'
  BY <1>1 DEF PlaceScript, MakerInv, Attempts, JobTyped
<1> QED BY <1>5, <1>6 DEF MakerInv

\* Another attempt is one of those left, and starts with no arrows.
LEMMA RetryKeeps ==
  ASSUME MakerInv, stage \in {"build", "test"}, Retry, job' = job
  PROVE  MakerInv'
<1>1. Attempts'
  BY BoundsAssumption DEF MakerInv, Attempts, Retry, Ended
<1>2. Drawn'
  BY DEF Drawn, Retry
<1> QED BY <1>1, <1>2 DEF MakerInv, JobTyped

\* A step to another stage, with the arrows as they are.
LEMMA StageKeeps ==
  ASSUME MakerInv, job' = job, attempt' = attempt, tries' = tries, built' = built,
         \/ stage' \in Ended \cup {"knocked"}
         \/ stage' = "test" /\ stage = "build"
         \/ stage' = "offered" /\ offer'.arrows = built
  PROVE  MakerInv'
BY DEF MakerInv, JobTyped, Attempts, Drawn, Ended

-----------------------------------------------------------------------------
(* The specification.                                                       *)

IInv == KahnInv /\ MakerInv

LEMMA IInvInit == Init => IInv
<1> SUFFICES ASSUME Init PROVE IInv
  OBVIOUS
<1>1. KahnInv
  BY KahnInvEmpty DEF Init
<1>2. MakerInv
  BY BoundsAssumption DEF Init, MakerInv, JobTyped, Attempts, Drawn, NoJob
<1> QED BY <1>1, <1>2 DEF IInv

LEMMA BeginKeeps ==
  ASSUME IInv, Begin
  PROVE  IInv'
<1>1. KahnInv'
  BY KahnStutters DEF IInv, Begin, BeginRandom, BeginScript, OfferExternal
<1>2. ASSUME NEW options \in Options, BeginRandom(options)
      PROVE  MakerInv'
  <2>1. JobTyped' /\ Drawn'
    BY <1>2 DEF BeginRandom, IInv, MakerInv, JobTyped, Drawn
  <2>2. Attempts'
    BY <1>2, BoundsAssumption DEF BeginRandom, IInv, MakerInv, Attempts, Ended
  <2> QED BY <2>1, <2>2 DEF MakerInv
<1>3. ASSUME NEW meta \in Metas, BeginScript(meta)
      PROVE  MakerInv'
  <2>1. JobTyped' /\ Drawn'
    BY <1>3 DEF BeginScript, IInv, MakerInv, JobTyped, Drawn
  <2>2. Attempts'
    BY <1>3, BoundsAssumption DEF BeginScript, IInv, MakerInv, Attempts, Ended
  <2> QED BY <2>1, <2>2 DEF MakerInv
<1>4. ASSUME NEW maker \in {"gemini", "author", "admin"}, NEW candidate \in Offers,
             OfferExternal(maker, candidate)
      PROVE  MakerInv'
  <2>1. JobTyped' /\ Drawn'
    BY <1>4, OptionsAssumption DEF OfferExternal, IInv, MakerInv, JobTyped, Drawn
  <2>2. Attempts'
    BY <1>4 DEF OfferExternal, IInv, MakerInv, Attempts, Ended
  <2> QED BY <2>1, <2>2 DEF MakerInv
<1> QED BY <1>1, <1>2, <1>3, <1>4 DEF Begin, IInv

\* What is examined is a list of valid arrows wherever it comes from: the
\* generator and the script build their value objects, a door demands them.
LEMMA ExaminedIsValid ==
  ASSUME IInv
  PROVE  /\ built \in Seq(Arrow)
         /\ stage = "offered" => Presented \in Seq(Arrow)
<1>1. built \in Seq(Arrow) /\ (stage = "offered" => offer.arrows \in Seq(Arrow))
  BY DEF IInv, MakerInv, Drawn
<1> QED BY <1>1, FlatIsTyped DEF Presented

LEMMA WorkKeeps ==
  ASSUME IInv, Work
  PROVE  IInv'
<1> USE DEF IInv
<1>1. CASE PlaceRandom
  BY <1>1, PlaceRandomKeeps, KahnStutters DEF PlaceRandom
<1>2. CASE TestRandom
  <2>0. stage = "build" /\ job' = job
    BY <1>2 DEF TestRandom
  <2>1. CASE stage' = "thrown" /\ UNCHANGED <<kahnVars, job, attempt, tries, built, offer>>
    BY <2>1, KahnStutters, StageKeeps DEF Ended
  <2>2. CASE /\ \A i \in DOMAIN built : ValidArrow(built[i])
             /\ Examine(built) /\ stage' = "test"
             /\ UNCHANGED <<job, attempt, tries, built, offer>>
    <3>1. Examinable(built)
      BY <2>2, ExaminedIsValid DEF Examinable
    <3> QED BY <2>0, <2>2, <3>1, ExamineKeeps, StageKeeps
  <2>3. CASE Retry /\ UNCHANGED <<kahnVars, job, offer>>
    BY <2>0, <2>3, RetryKeeps, KahnStutters
  <2> QED BY <1>2, <2>1, <2>2, <2>3 DEF TestRandom
<1>3. CASE JudgeRandom
  <2>0. stage = "test" /\ job' = job /\ UNCHANGED kahnVars
    BY <1>3 DEF JudgeRandom
  <2>1. CASE stage' = "offered" /\ offer'.arrows = built /\ UNCHANGED <<attempt, tries, built>>
    BY <2>0, <2>1, StageKeeps, KahnStutters
  <2>2. CASE Retry
    BY <2>0, <2>2, RetryKeeps, KahnStutters
  <2> QED BY <1>3, <2>1, <2>2 DEF JudgeRandom
<1>4. CASE PlaceScript
  BY <1>4, PlaceScriptKeeps, KahnStutters DEF PlaceScript
<1>5. CASE AbandonScript
  BY <1>5, RetryKeeps, KahnStutters DEF AbandonScript
<1>6. CASE TestScript
  <2>0. stage = "build" /\ job' = job
    BY <1>6 DEF TestScript
  <2>1. CASE Retry /\ UNCHANGED <<kahnVars, job, offer>>
    BY <2>0, <2>1, RetryKeeps, KahnStutters
  <2>2. CASE /\ QualityAsserted(job.meta, built) /\ Examine(built) /\ stage' = "test"
             /\ UNCHANGED <<job, attempt, tries, built, offer>>
    <3>1. Examinable(built)
      BY <2>2, ExaminedIsValid DEF Examinable, QualityAsserted
    <3> QED BY <2>0, <2>2, <3>1, ExamineKeeps, StageKeeps
  <2>3. CASE stage' = "thrown" /\ UNCHANGED kahnVars /\ UNCHANGED <<job, attempt, tries, built, offer>>
    BY <2>3, KahnStutters, StageKeeps DEF Ended
  <2> QED BY <1>6, <2>1, <2>2, <2>3 DEF TestScript
<1>7. CASE JudgeScript
  <2>0. job' = job /\ UNCHANGED <<kahnVars, attempt, tries, built>>
    BY <1>7 DEF JudgeScript
  <2>1. \/ stage' = "offered" /\ offer'.arrows = built
        \/ stage' = "thrown"
    BY <1>7 DEF JudgeScript
  <2> QED BY <2>0, <2>1, StageKeeps, KahnStutters DEF Ended
<1>8. CASE Knock
  <2>0. stage = "offered" /\ UNCHANGED <<job, attempt, tries, built, offer>>
    BY <1>8 DEF Knock
  <2>1. CASE /\ \A i \in DOMAIN Presented : ValidArrow(Presented[i])
             /\ Examine(Presented) /\ stage' = "knocked"
    <3>1. Examinable(Presented)
      BY <2>0, <2>1, ExaminedIsValid DEF Examinable
    <3> QED BY <2>0, <2>1, <3>1, ExamineKeeps, StageKeeps
  <2>2. CASE stage' = "refused" /\ UNCHANGED kahnVars
    BY <2>0, <2>2, StageKeeps, KahnStutters DEF Ended
  <2> QED BY <1>8, <2>1, <2>2 DEF Knock, Constructible
<1>9. CASE Admit
  BY <1>9, StageKeeps, KahnStutters DEF Admit, Ended
<1>10. CASE (Visit \/ Conclude) /\ UNCHANGED makerVars
  BY <1>10, VisitKeeps, ConcludeKeeps DEF makerVars, MakerInv, JobTyped, Attempts, Drawn
<1> QED BY <1>1, <1>2, <1>3, <1>4, <1>5, <1>6, <1>7, <1>8, <1>9, <1>10 DEF Work

LEMMA IInvStep == IInv /\ [Next]_vars => IInv'
<1> SUFFICES ASSUME IInv, [Next]_vars PROVE IInv'
  OBVIOUS
<1>1. CASE Begin
  BY <1>1, BeginKeeps
<1>2. CASE Work
  BY <1>2, WorkKeeps
<1>3. CASE Play
  <2>1. PICK n \in remaining : Extract(n)
    BY <1>3 DEF Play
  <2>2. KahnInv'
    BY <2>1, ExtractKeeps DEF IInv
  <2>3. MakerInv'
    BY <1>3 DEF Play, makerVars, IInv, MakerInv, JobTyped, Attempts, Drawn
  <2> QED BY <2>2, <2>3 DEF IInv
<1>4. CASE Finish
  <2>1. KahnInit' => KahnInv'
    BY KahnInvEmpty, PTL
  <2>2. KahnInit'
    BY <1>4 DEF Finish, KahnInit
  <2>3. MakerInv'
    BY <1>4, BoundsAssumption DEF Finish, MakerInv, JobTyped, Attempts, Drawn, NoJob
  <2> QED BY <2>1, <2>2, <2>3 DEF IInv
<1>5. CASE UNCHANGED vars
  <2>1. KahnInv'
    BY <1>5, KahnStutters DEF vars, IInv
  <2>2. MakerInv'
    BY <1>5 DEF vars, makerVars, IInv, MakerInv, JobTyped, Attempts, Drawn
  <2> QED BY <2>1, <2>2 DEF IInv
<1> QED BY <1>1, <1>2, <1>3, <1>4, <1>5 DEF Next

\* The invariant holds in every state a job or a player can reach.
THEOREM Invariance == Spec => []IInv
<1>1. Init => IInv
  BY IInvInit
<1>2. IInv /\ [Next]_vars => IInv'
  BY IInvStep
<1> QED BY <1>1, <1>2, PTL DEF Spec

\* Whatever is examined is a list of arrows that the geometry is defined on.
THEOREM TypeCorrect == Spec => []TypeOK
<1>1. IInv => TypeOK
  <2> SUFFICES ASSUME IInv PROVE TypeOK
    OBVIOUS
  <2>1. queue \subseteq Nodes /\ visited \in Nat
    <3>1. IsFiniteSet(Nodes) /\ done \in SUBSET Nodes
      BY BlockersAreFinite DEF IInv, KahnInv, Examinable, Peeled, Nodes
    <3>2. IsFiniteSet(done)
      BY <3>1, FS_Subset
    <3>3. Cardinality(done) \in Nat
      BY <3>2, FS_CardinalityType
    <3> QED BY <3>3 DEF IInv, KahnInv, Counts, KahnCounts
  <2> QED BY <2>1 DEF IInv, KahnInv, MakerInv, Examinable, Counts, Peeled, Judged, Played,
                      Attempts, Drawn, TypeOK, KahnTypeOK, Nodes
<1> QED BY <1>1, Invariance, PTL

\* The counts by which the algorithm works are right between any two rounds.
THEOREM CountsCorrect == Spec => []KahnCounts
<1>1. IInv => KahnCounts
  BY DEF IInv, KahnInv, Counts
<1> QED BY <1>1, Invariance, PTL

\* What the verdict of an examination says of the level.
LEMMA VerdictSays ==
  ASSUME IInv
  PROVE  /\ verdict = "accepted" => IsSolvable(level)
         /\ verdict = "refused" => ~IsSolvable(level)
<1>1. ASSUME verdict = "accepted"
      PROVE  IsSolvable(level)
  <2>1. done = DOMAIN level
    BY <1>1 DEF IInv, KahnInv, Judged, Nodes
  <2> QED BY <2>1 DEF IInv, KahnInv, Peeled, IsSolvable
<1>2. ASSUME verdict = "refused"
      PROVE  ~IsSolvable(level)
  <2> DEFINE group == DOMAIN level \ done
  <2>1. group # {} /\ group \in SUBSET DOMAIN level
    BY <1>2 DEF IInv, KahnInv, Judged, Peeled, Nodes
  <2>2. \A n \in group : Blockers(level, n) \cap group # {}
    <3> TAKE n \in group
    <3>1. ~(Blockers(level, n) \subseteq done)
      BY <1>2 DEF IInv, KahnInv, Judged, Counts, KahnCounts, Nodes
    <3> QED BY <3>1 DEF Blockers
  <2> QED BY <2>1, <2>2 DEF IsSolvable
<1> QED BY <1>1, <1>2

\* isAcyclic answers yes exactly for the levels without a cycle of blockers.
THEOREM VerdictCorrect == Spec => []VerdictIsSolvable
<1>1. IInv => VerdictIsSolvable
  BY VerdictSays DEF VerdictIsSolvable
<1> QED BY <1>1, Invariance, PTL

\* No order of play leads into a dead end of an accepted level.
THEOREM NeverStuck == Spec => []AcceptedNeverStuck
<1>1. IInv => AcceptedNeverStuck
  <2> SUFFICES ASSUME IInv, verdict = "accepted", remaining # {}
               PROVE  \E n \in remaining : CanLeave(level, remaining, n)
    BY DEF AcceptedNeverStuck
  <2>1. remaining \in SUBSET done /\ done = Nodes
    BY DEF IInv, KahnInv, Judged, Played
  <2>2. PICK n \in remaining : Blockers(level, n) \cap remaining = {}
    BY <2>1 DEF IInv, KahnInv, Peeled
  <2>3. level \in Seq(Arrow) /\ \A m \in DOMAIN level : level[m].path # <<>>
    BY DEF IInv, KahnInv, Examinable, ValidArrow
  <2> QED BY <2>1, <2>2, <2>3, UnblockedLeaves DEF Nodes
<1> QED BY <1>1, Invariance, PTL

\* No player clears a refused level that has one layer.
THEOREM NeverCleared == Spec => []RefusedNeverCleared
<1>1. IInv => RefusedNeverCleared
  BY DEF IInv, KahnInv, Judged, Played, Peeled, RefusedNeverCleared
<1> QED BY <1>1, Invariance, PTL

-----------------------------------------------------------------------------
(* Arrows of one family.  Both steps of a family climb the same slope, so   *)
(* the cells of an arrow rise from tail to head, and what blocks an arrow   *)
(* has its head higher up.  The highest arrow of any group is therefore     *)
(* blocked by none of the group: a level of one family is solvable.         *)

Families == {"UP_RIGHT", "RIGHT_DOWN", "DOWN_LEFT", "LEFT_UP"}

Height(family, p) ==
  CASE family = "UP_RIGHT"   -> p[2] - p[1]
    [] family = "RIGHT_DOWN" -> p[1] + p[2]
    [] family = "DOWN_LEFT"  -> p[1] - p[2]
    [] family = "LEFT_UP"    -> -(p[1] + p[2])

Climbs(family, arrow) ==
  /\ Len(arrow.path) >= 2 /\ arrow.direction \in Family[family]
  /\ \A i \in 2 .. Len(arrow.path) :
       Height(family, arrow.path[i]) = Height(family, arrow.path[i - 1]) + 1

\* The heights are integers, a step of the family gains one, and whatever lies
\* ahead in a direction of the family lies higher.
LEMMA HeightGains ==
  ASSUME NEW family \in Families, NEW p \in Position, NEW step \in Family[family]
  PROVE  /\ Height(family, p) \in Int
         /\ Height(family, Translate(p, step, 1)) = Height(family, p) + 1
         /\ \A cell \in Position : IsStrictlyAhead(p, step, cell) => Height(family, cell) > Height(family, p)
<1>1. p[1] \in Int /\ p[2] \in Int /\ \A cell \in Position : cell[1] \in Int /\ cell[2] \in Int
  BY DEF Position
<1>2. step \in Directions
  BY DEF Families, Family, Directions
<1>3. /\ Translate(p, step, 1)[1] = p[1] + Delta[step][1]
      /\ Translate(p, step, 1)[2] = p[2] + Delta[step][2]
  <2>1. Delta[step][1] \in Int /\ Delta[step][2] \in Int
    BY <1>2 DEF Directions, Delta
  <2>2. 1 * Delta[step][1] = Delta[step][1] /\ 1 * Delta[step][2] = Delta[step][2]
    BY <2>1
  <2> QED BY <2>2 DEF Translate
<1>a. CASE family = "UP_RIGHT"
  <2>1. CASE step = "UP"
    BY <1>a, <1>1, <1>3, <2>1 DEF Height, Delta, IsStrictlyAhead
  <2>2. CASE step = "RIGHT"
    BY <1>a, <1>1, <1>3, <2>2 DEF Height, Delta, IsStrictlyAhead
  <2> QED BY <1>a, <2>1, <2>2 DEF Family
<1>b. CASE family = "RIGHT_DOWN"
  <2>1. CASE step = "RIGHT"
    BY <1>b, <1>1, <1>3, <2>1 DEF Height, Delta, IsStrictlyAhead
  <2>2. CASE step = "DOWN"
    BY <1>b, <1>1, <1>3, <2>2 DEF Height, Delta, IsStrictlyAhead
  <2> QED BY <1>b, <2>1, <2>2 DEF Family
<1>c. CASE family = "DOWN_LEFT"
  <2>1. CASE step = "DOWN"
    BY <1>c, <1>1, <1>3, <2>1 DEF Height, Delta, IsStrictlyAhead
  <2>2. CASE step = "LEFT"
    BY <1>c, <1>1, <1>3, <2>2 DEF Height, Delta, IsStrictlyAhead
  <2> QED BY <1>c, <2>1, <2>2 DEF Family
<1>d. CASE family = "LEFT_UP"
  <2>1. CASE step = "LEFT"
    BY <1>d, <1>1, <1>3, <2>1 DEF Height, Delta, IsStrictlyAhead
  <2>2. CASE step = "UP"
    BY <1>d, <1>1, <1>3, <2>2 DEF Height, Delta, IsStrictlyAhead
  <2> QED BY <1>d, <2>1, <2>2 DEF Family
<1> QED BY <1>a, <1>b, <1>c, <1>d DEF Families

\* Among finitely many numbers there is a largest one.
LEMMA HighestExists ==
  ASSUME NEW n \in Nat, NEW group \in SUBSET (1 .. n), group # {}, NEW height \in [1 .. n -> Int]
  PROVE  \E m \in group : \A k \in group : height[k] <= height[m]
<1> DEFINE above(i) == {j \in group : height[j] > height[i]}
           T == {above(i) : i \in group}
<1>1. IsFiniteSet(group)
  <2>1. IsFiniteSet(1 .. n)
    BY FS_Interval
  <2> QED BY <2>1, FS_Subset
<1>2. IsWellFoundedOn(StrictSubsetOrdering(group), SUBSET group)
  BY <1>1, FS_StrictSubsetOrderingWellFounded, FS_FiniteSubsetsOfFinite
<1>3. T \subseteq SUBSET group /\ T # {}
  <2>1. \A i : above(i) \subseteq group
    OBVIOUS
  <2> HIDE DEF above
  <2> QED BY <2>1
<1>4. PICK x \in T : \A y \in T : <<y, x>> \notin StrictSubsetOrdering(group)
  <2> HIDE DEF T
  <2> QED BY <1>2, <1>3, WFMin
<1>5. PICK m \in group : x = above(m)
  BY <1>4
<1>6. ASSUME NEW k \in group, height[k] > height[m]
      PROVE  FALSE
  <2>1. above(k) \subseteq above(m)
    <3> SUFFICES ASSUME NEW j \in group, height[j] > height[k]
                 PROVE  height[j] > height[m]
      OBVIOUS
    <3>1. height[j] \in Int /\ height[k] \in Int /\ height[m] \in Int
      OBVIOUS
    <3> QED BY <1>6, <3>1
  <2>2. k \in above(m) /\ k \notin above(k)
    <3>1. height[k] \in Int
      OBVIOUS
    <3> QED BY <1>6, <3>1
  <2>3. <<above(k), above(m)>> \in StrictSubsetOrdering(group)
    <3>1. above(k) \in SUBSET group /\ above(m) \in SUBSET group
      OBVIOUS
    <3> HIDE DEF above
    <3> QED BY <2>1, <2>2, <3>1 DEF StrictSubsetOrdering
  <2>4. above(k) \in T
    OBVIOUS
  <2> HIDE DEF T, above
  <2> QED BY <1>4, <1>5, <2>3, <2>4
<1>7. \A k \in group : height[k] \in Int /\ height[m] \in Int
  OBVIOUS
<1> QED BY <1>6, <1>7

\* Along a climbing path the heights differ as the indices do.
LEMMA PathRises ==
  ASSUME NEW family \in Families, NEW arrow \in Arrow, Climbs(family, arrow),
         NEW i \in DOMAIN arrow.path
  PROVE  /\ Height(family, arrow.path[i]) = Height(family, arrow.path[1]) + i - 1
         /\ Height(family, arrow.path[1]) \in Int
<1> DEFINE path == arrow.path
           n == Len(path)
           h(k) == Height(family, path[k])
           wrong == {k \in 1 .. n : h(k) # h(1) + k - 1}
<1>1. path \in Seq(Position) /\ n \in Nat /\ DOMAIN path = 1 .. n /\ n >= 2
  BY DEF Arrow, Climbs
<1>2. \A k \in 1 .. n : h(k) \in Int
  <2> TAKE k \in 1 .. n
  <2>1. path[k] \in Position
    BY <1>1
  <2>2. PICK step : step \in Family[family]
    BY DEF Climbs
  <2> QED BY <2>1, <2>2, HeightGains
<1>3. \A k \in 2 .. n : h(k) = h(k - 1) + 1
  BY DEF Climbs
<1>4. wrong = {}
  <2> SUFFICES ASSUME wrong # {} PROVE FALSE
    OBVIOUS
  <2> HIDE DEF path, n, h
  <2> DEFINE height == [k \in 1 .. n |-> -k]
  <2>1. height \in [1 .. n -> Int] /\ wrong \in SUBSET (1 .. n)
    OBVIOUS
  <2>2. PICK m \in wrong : \A k \in wrong : height[k] <= height[m]
    <3> HIDE DEF height, wrong
    <3> QED BY <1>1, <2>1, HighestExists
  <2>3. m # 1
    BY <1>1, <1>2
  <2>4. m \in 2 .. n /\ m - 1 \in 1 .. n /\ m \in Int
    BY <1>1, <2>3
  <2>5. m - 1 \notin wrong
    <3> SUFFICES ASSUME m - 1 \in wrong PROVE FALSE
      OBVIOUS
    <3>1. height[m - 1] <= height[m]
      BY <2>2
    <3>2. height[m - 1] = -(m - 1) /\ height[m] = -m
      BY <2>4
    <3> QED BY <2>4, <3>1, <3>2
  <2>6. h(m - 1) = h(1) + (m - 1) - 1 /\ h(m) = h(m - 1) + 1
    BY <1>3, <2>4, <2>5
  <2>7. h(1) \in Int /\ h(m) \in Int
    BY <1>1, <1>2, <2>4
  <2> QED BY <2>4, <2>6, <2>7
<1> QED BY <1>1, <1>2, <1>4

\* A step is to a neighbour.
LEMMA StepIsOne ==
  ASSUME NEW p \in Position, NEW step \in Directions
  PROVE  Distance(p, Translate(p, step, 1)) = 1
<1>1. p[1] \in Int /\ p[2] \in Int /\ p[3] \in Int
  BY DEF Position
<1>2. /\ Delta[step][1] \in Int /\ Delta[step][2] \in Int /\ Delta[step][3] \in Int
      /\ Abs(-Delta[step][1]) + Abs(-Delta[step][2]) + Abs(-Delta[step][3]) = 1
  BY DEF Directions, Delta, Abs
<1>3. Translate(p, step, 1) = <<p[1] + Delta[step][1], p[2] + Delta[step][2], p[3] + Delta[step][3]>>
  <2>1. /\ 1 * Delta[step][1] = Delta[step][1] /\ 1 * Delta[step][2] = Delta[step][2]
        /\ 1 * Delta[step][3] = Delta[step][3]
    BY <1>2
  <2> QED BY <2>1 DEF Translate
<1>4. /\ p[1] - (p[1] + Delta[step][1]) = -Delta[step][1]
      /\ p[2] - (p[2] + Delta[step][2]) = -Delta[step][2]
      /\ p[3] - (p[3] + Delta[step][3]) = -Delta[step][3]
  BY <1>1, <1>2
<1> QED BY <1>2, <1>3, <1>4 DEF Distance

\* What the script draws is an arrow: it cannot meet itself or look back.
LEMMA ClimbingIsValid ==
  ASSUME NEW family \in Families, NEW arrow \in Arrow, Climbs(family, arrow),
         \A i \in 2 .. Len(arrow.path) : \E step \in Family[family] :
           arrow.path[i] = Translate(arrow.path[i - 1], step, 1)
  PROVE  ValidArrow(arrow)
<1> DEFINE path == arrow.path
           n == Len(path)
<1>1. path \in Seq(Position) /\ n \in Nat /\ DOMAIN path = 1 .. n /\ n >= 2
  BY DEF Arrow, Climbs
<1>2. ASSUME NEW i \in DOMAIN path, NEW j \in DOMAIN path, path[i] = path[j]
      PROVE  i = j
  <2>1. Height(family, path[i]) = Height(family, path[1]) + i - 1
    BY PathRises
  <2>2. Height(family, path[j]) = Height(family, path[1]) + j - 1
    BY PathRises
  <2>3. Height(family, path[1]) \in Int
    BY PathRises
  <2> HIDE DEF path
  <2> QED BY <1>1, <1>2, <2>1, <2>2, <2>3
<1>3. ASSUME NEW i \in DOMAIN path, i > 1
      PROVE  Distance(path[i - 1], path[i]) = 1
  <2>1. i \in 2 .. n /\ i - 1 \in 1 .. n
    BY <1>1, <1>3
  <2>2. PICK step \in Family[family] : path[i] = Translate(path[i - 1], step, 1)
    BY <2>1
  <2>3. step \in Directions
    BY DEF Families, Family, Directions
  <2>4. path[i - 1] \in Position
    BY <1>1, <2>1
  <2>5. \A p \in Position : Distance(p, Translate(p, step, 1)) = 1
    BY <2>3, StepIsOne
  <2> QED BY <2>2, <2>4, <2>5
<1>4. Translate(HeadOf(arrow), arrow.direction, 1) # path[n - 1]
  <2>1. n - 1 \in DOMAIN path /\ n \in DOMAIN path /\ n \in 2 .. n
    BY <1>1
  <2>2. path[n] \in Position /\ path[n - 1] \in Position /\ HeadOf(arrow) = path[n]
    BY <1>1, <2>1 DEF HeadOf
  <2>3. Height(family, path[n]) = Height(family, path[n - 1]) + 1
    BY <2>1 DEF Climbs
  <2>4. arrow.direction \in Family[family]
    BY DEF Climbs
  <2>5. /\ Height(family, Translate(path[n], arrow.direction, 1)) = Height(family, path[n]) + 1
        /\ Height(family, path[n]) \in Int
    BY <2>2, <2>4, HeightGains
  <2>6. Height(family, path[n - 1]) \in Int
    BY <2>2, <2>4, HeightGains
  <2> QED BY <2>2, <2>3, <2>5, <2>6
<1>5. arrow.direction \in Directions
  BY DEF Arrow
<1> QED BY <1>1, <1>2, <1>3, <1>4, <1>5 DEF ValidArrow

\* An arrow that another one blocks has its head lower down than that one.
LEMMA BlockerIsHigher ==
  ASSUME NEW family \in Families, NEW low \in Arrow, NEW high \in Arrow,
         Climbs(family, low), Climbs(family, high), Blocks(low, high)
  PROVE  Height(family, HeadOf(low)) < Height(family, HeadOf(high))
<1>1. PICK cell \in Cells(high) : IsStrictlyAhead(HeadOf(low), low.direction, cell)
  BY DEF Blocks
<1>2. PICK i \in DOMAIN high.path : cell = high.path[i]
  BY <1>1 DEF Cells
<1>3. low.path # <<>> /\ high.path # <<>> /\ low.direction \in Family[family]
  BY DEF Climbs
<1>4. HeadOf(low) \in Position /\ cell \in Position
  BY <1>1, <1>3, CellsArePositions
<1>5. Height(family, cell) > Height(family, HeadOf(low)) /\ Height(family, HeadOf(low)) \in Int
  BY <1>1, <1>3, <1>4, HeightGains
<1>6. high.path \in Seq(Position) /\ Len(high.path) >= 2
  BY DEF Arrow, Climbs
<1>7. Len(high.path) \in DOMAIN high.path /\ i \in 1 .. Len(high.path)
  BY <1>6
<1>8. /\ Height(family, cell) = Height(family, high.path[1]) + i - 1
      /\ Height(family, HeadOf(high)) = Height(family, high.path[1]) + Len(high.path) - 1
      /\ Height(family, high.path[1]) \in Int
  BY <1>2, <1>7, PathRises DEF HeadOf
<1> QED BY <1>5, <1>7, <1>8

\* A level of one family is solvable, however its arrows lie.
LEMMA OneFamilyIsSolvable ==
  ASSUME NEW family \in Families, NEW arrows \in Seq(Arrow),
         \A i \in DOMAIN arrows : Climbs(family, arrows[i])
  PROVE  IsSolvable(arrows)
<1> SUFFICES ASSUME NEW group \in SUBSET DOMAIN arrows, group # {}
             PROVE  \E n \in group : Blockers(arrows, n) \cap group = {}
  BY DEF IsSolvable
<1> DEFINE height == [i \in 1 .. Len(arrows) |-> Height(family, HeadOf(arrows[i]))]
<1>1. DOMAIN arrows = 1 .. Len(arrows) /\ Len(arrows) \in Nat
  OBVIOUS
<1>2. \A i \in DOMAIN arrows : arrows[i] \in Arrow /\ Height(family, HeadOf(arrows[i])) \in Int
  <2> TAKE i \in DOMAIN arrows
  <2>1. arrows[i] \in Arrow
    OBVIOUS
  <2>2. arrows[i].path # <<>> /\ arrows[i].direction \in Family[family]
    BY DEF Climbs
  <2>3. HeadOf(arrows[i]) \in Position
    BY <2>1, <2>2, CellsArePositions
  <2> QED BY <2>1, <2>2, <2>3, HeightGains
<1>3. height \in [1 .. Len(arrows) -> Int]
  BY <1>1, <1>2
<1>4. PICK m \in group : \A k \in group : height[k] <= height[m]
  <2> HIDE DEF height
  <2> QED BY <1>1, <1>3, HighestExists
<1>5. ASSUME NEW k \in Blockers(arrows, m) \cap group
      PROVE  FALSE
  <2>1. k \in DOMAIN arrows /\ m \in DOMAIN arrows /\ Blocks(arrows[m], arrows[k])
    BY DEF Blockers
  <2>2. Height(family, HeadOf(arrows[m])) < Height(family, HeadOf(arrows[k]))
    BY <1>2, <2>1, BlockerIsHigher
  <2>3. height[k] <= height[m]
    BY <1>4
  <2>4. height[k] = Height(family, HeadOf(arrows[k])) /\ height[m] = Height(family, HeadOf(arrows[m]))
    BY <1>1, <2>1
  <2> QED BY <1>2, <2>1, <2>2, <2>3, <2>4
<1> QED BY <1>5

-----------------------------------------------------------------------------
(* Arrows of the random strategy, and what the doors make of ours.          *)

\* Along a line, each position is reached once, and by one step from the last.
LEMMA LineSteps ==
  ASSUME NEW p \in Position, NEW direction \in Directions, NEW k \in Int, NEW l \in Int
  PROVE  /\ Translate(p, direction, k) = Translate(p, direction, l) => k = l
         /\ Translate(Translate(p, direction, k), direction, 1) = Translate(p, direction, k + 1)
<1>1. p[1] \in Int /\ p[2] \in Int /\ p[3] \in Int
  BY DEF Position
<1>a. CASE direction = "UP"
  BY <1>a, <1>1 DEF Translate, Delta
<1>b. CASE direction = "DOWN"
  BY <1>b, <1>1 DEF Translate, Delta
<1>c. CASE direction = "LEFT"
  BY <1>c, <1>1 DEF Translate, Delta
<1>d. CASE direction = "RIGHT"
  BY <1>d, <1>1 DEF Translate, Delta
<1>e. CASE direction = "FORWARD"
  BY <1>e, <1>1 DEF Translate, Delta
<1>f. CASE direction = "BACK"
  BY <1>f, <1>1 DEF Translate, Delta
<1> QED BY <1>a, <1>b, <1>c, <1>d, <1>e, <1>f DEF Directions

\* A straight arrow that leaves the way it points is one.
LEMMA StraightIsValid ==
  ASSUME NEW start \in Position, NEW direction \in Directions, NEW length \in Nat \ {0},
         NEW arrow \in Arrow, arrow.direction = direction,
         arrow.path = StraightPath(start, direction, length)
  PROVE  ValidArrow(arrow)
<1> DEFINE path == arrow.path
           at(k) == Translate(start, direction, k)
<1>1. path \in Seq(Position) /\ DOMAIN path = 1 .. length /\ Len(path) = length
  <2>1. path \in Seq(Position)
    BY DEF Arrow
  <2>2. DOMAIN path = 1 .. length
    BY DEF StraightPath
  <2> QED BY <2>1, <2>2
<1>2. \A k \in 1 .. length : path[k] = at(k - 1) /\ k - 1 \in Int
  BY DEF StraightPath
<1>3. \A k \in Int : at(k) \in Position
  BY TranslateIsPosition
<1>4. \A k, l \in Int : at(k) = at(l) => k = l
  BY LineSteps
<1>5. \A k \in Int : Translate(at(k), direction, 1) = at(k + 1)
  BY LineSteps
<1> HIDE DEF at, path
<1>6. ASSUME NEW i \in DOMAIN path, NEW j \in DOMAIN path, path[i] = path[j]
      PROVE  i = j
  <2>1. i \in 1 .. length /\ j \in 1 .. length
    BY <1>1
  <2>2. at(i - 1) = at(j - 1) /\ i - 1 \in Int /\ j - 1 \in Int
    BY <1>2, <1>6, <2>1
  <2>3. i - 1 = j - 1
    BY <1>4, <2>2
  <2> QED BY <2>1, <2>3
<1>7. ASSUME NEW i \in DOMAIN path, i > 1
      PROVE  Distance(path[i - 1], path[i]) = 1
  <2>1. i \in 1 .. length /\ i - 1 \in 1 .. length /\ i - 1 \in Int /\ i - 2 \in Int
    BY <1>1, <1>7
  <2>2. (i - 1) - 1 = i - 2 /\ (i - 2) + 1 = i - 1
    BY <2>1
  <2>3. path[i - 1] = at(i - 2) /\ path[i] = at(i - 1)
    BY <1>2, <2>1, <2>2
  <2>4. path[i] = Translate(path[i - 1], direction, 1)
    BY <1>5, <2>1, <2>2, <2>3
  <2>5. path[i - 1] \in Position
    BY <1>3, <2>1, <2>3
  <2> QED BY <2>4, <2>5, StepIsOne
<1>8. ASSUME length >= 2
      PROVE  Translate(path[length], direction, 1) # path[length - 1]
  <2>1. length \in 1 .. length /\ length - 1 \in 1 .. length /\ length \in Int
    BY <1>8
  <2>2. (length - 1) - 1 = length - 2 /\ (length - 1) + 1 = length /\ length - 2 # length
    BY <2>1
  <2>3. path[length] = at(length - 1) /\ path[length - 1] = at(length - 2)
    BY <1>2, <2>1, <2>2
  <2>4. Translate(path[length], direction, 1) = at(length)
    <3>1. length - 1 \in Int
      BY <2>1
    <3> QED BY <1>5, <2>2, <2>3, <3>1
  <2>5. length - 2 \in Int
    BY <2>1
  <2> QED BY <1>4, <2>1, <2>2, <2>3, <2>4, <2>5
<1>9. path # <<>>
  BY <1>1
<1> QED BY <1>1, <1>6, <1>7, <1>8, <1>9 DEF ValidArrow, HeadOf, path

\* A door that reads rows and columns only loses nothing of a level in one layer.
LEMMA FlatIsSame ==
  ASSUME NEW arrows \in Seq(Arrow),
         \A i \in DOMAIN arrows : \A cell \in Cells(arrows[i]) : cell[3] = 0
  PROVE  Flat(arrows) = arrows
<1>1. ASSUME NEW i \in DOMAIN arrows
      PROVE  Flat(arrows)[i] = arrows[i]
  <2> DEFINE path == arrows[i].path
             flat == [k \in DOMAIN path |-> <<path[k][1], path[k][2], 0>>]
  <2>1. arrows[i] \in Arrow
    OBVIOUS
  <2>2. path \in Seq(Position)
    BY <2>1 DEF Arrow
  <2>3. \A k \in DOMAIN path : path[k] \in Position /\ path[k][3] = 0
    BY <2>2 DEF Cells
  <2>4. Flat(arrows)[i] = [arrows[i] EXCEPT !.path = flat]
    BY DEF Flat
  <2> HIDE DEF path
  <2>5. \A k \in DOMAIN path : flat[k] = path[k]
    BY <2>3 DEF Position
  <2>6. flat = path
    BY <2>2, <2>5
  <2> HIDE DEF flat
  <2> QED BY <2>1, <2>4, <2>6 DEF Arrow, path
<1>2. Flat(arrows) = [i \in DOMAIN arrows |-> Flat(arrows)[i]]
  BY DEF Flat
<1>3. arrows = [i \in DOMAIN arrows |-> arrows[i]]
  OBVIOUS
<1> QED BY <1>1, <1>2, <1>3

-----------------------------------------------------------------------------
(* Levels of our own.  Their arrows are numbered, valid, inside the region  *)
(* and apart from each other; those of the script climb; and once a level   *)
(* passed its maker's test, it is solvable and offered as it was built.     *)

OurMakers == {"random", "script"}

Playground == CellsOf(IF job.maker = "random" THEN job.options.cells ELSE job.meta.cells)

Tidy ==
  /\ \A i \in DOMAIN built :
       /\ built[i].id = i - 1
       /\ ValidArrow(built[i]) /\ Cells(built[i]) \subseteq Playground
  /\ Disjoint(built)

Uphill == job.maker = "script" => \A i \in DOMAIN built : Climbs(job.meta.family, built[i])

OfferMade ==
  IF job.maker = "random"
    THEN [arrows |-> built, attempts |-> job.options.attempts,
          frame |-> Framed(job.options.cells), matches |-> TRUE]
    ELSE [arrows |-> built, attempts |-> job.meta.attempts, matches |-> TRUE,
          frame |-> Framed(IF job.meta.masked THEN job.meta.cells ELSE Absent)]

Tested ==
  /\ stage \notin {"refused", "thrown"}
  /\ stage \in {"build", "test"} /\ job.maker = "random" => job.options.arrowCount >= 1
  /\ stage \in {"test", "offered", "knocked"} => Len(built) \in 1 .. MaxArrows
  /\ stage \in {"test", "knocked", "accepted"} => level = built
  /\ stage \in {"offered", "knocked"} => IsSolvable(built)
  /\ stage = "offered" => offer = OfferMade

MadeInv ==
  /\ stage = "idle" => built = <<>>
  /\ job.maker \in OurMakers => Tidy /\ Uphill /\ Tested

\* The options of a job of ours, and what they are.
LEMMA OptionsTyped ==
  ASSUME IInv
  PROVE  /\ job.maker = "random" => job.options \in RandomLevelOptions
         /\ job.maker = "script" => job.meta \in LevelMeta
BY OptionsAssumption DEF IInv, MakerInv, JobTyped

\* The region is a list of different cells in one layer.
LEMMA PlaygroundIsRegion ==
  ASSUME NEW cells \in Region
  PROVE  /\ cells \in Seq(Position) /\ ValidMask(cells) /\ CellsOf(cells) \subseteq Position
         /\ \A cell \in CellsOf(cells) : cell[3] = 0
BY DEF Region, CellsOf

\* With no arrows, there is nothing to object to.
LEMMA EmptyIsTidy == built = <<>> => Tidy /\ Uphill
<1> SUFFICES ASSUME built = <<>> PROVE Tidy /\ Uphill
  OBVIOUS
<1>1. DOMAIN built = {}
  OBVIOUS
<1> QED BY <1>1 DEF Tidy, Uphill, Disjoint

\* An attempt that begins anew starts with no arrows.
LEMMA RetryMakes ==
  ASSUME MadeInv, stage \in {"build", "test"}, job' = job, Retry
  PROVE  MadeInv'
<1>1. built' = <<>> /\ stage' \in {"build", "gaveUp"}
  BY DEF Retry
<1>2. (Tidy /\ Uphill)'
  <2>1. (built = <<>>)' => (Tidy /\ Uphill)'
    BY EmptyIsTidy, PTL
  <2> QED BY <1>1, <2>1
<1>3. job.maker \in OurMakers => Tested'
  BY <1>1 DEF MadeInv, Tested
<1> QED BY <1>1, <1>2, <1>3 DEF MadeInv, OurMakers

\* The arrows stay as they are.
LEMMA SameArrows ==
  ASSUME Tidy, Uphill, job' = job, built' = built
  PROVE  (Tidy /\ Uphill)'
BY DEF Tidy, Uphill, Playground, Disjoint

\* One more arrow, valid and on free cells of the region, leaves them tidy.
LEMMA AppendIsTidy ==
  ASSUME Tidy, built \in Seq(Arrow), job' = job,
         NEW path \in Seq(Position), NEW direction \in Directions,
         Free(path, Playground), ValidArrow(NewArrow(path, direction)),
         built' = Append(built, NewArrow(path, direction))
  PROVE  Tidy'
<1> DEFINE arrow == NewArrow(path, direction)
           n == Len(built)
<1>1. /\ n \in Nat /\ DOMAIN built = 1 .. n /\ DOMAIN built' = 1 .. n + 1
      /\ built'[n + 1] = arrow /\ \A i \in 1 .. n : built'[i] = built[i]
  <2>1. arrow \in Arrow
    BY DEF NewArrow, Arrow
  <2> QED BY <2>1
<1>2. arrow.id = n /\ Cells(arrow) = CellsOf(path)
  BY DEF NewArrow, Cells, CellsOf
<1>3. Cells(arrow) \subseteq Playground /\ \A i \in 1 .. n : Cells(built[i]) \cap Cells(arrow) = {}
  BY <1>1, <1>2 DEF Free, Occupied, AllCells
<1>4. Playground' = Playground
  BY DEF Playground
<1> HIDE DEF arrow, n
<1>5. ASSUME NEW i \in DOMAIN built'
      PROVE  /\ built'[i].id = i - 1
             /\ ValidArrow(built'[i]) /\ Cells(built'[i]) \subseteq Playground
  <2>1. CASE i \in 1 .. n
    BY <1>1, <2>1 DEF Tidy
  <2>2. CASE i = n + 1
    BY <1>1, <1>2, <1>3, <2>2 DEF arrow
  <2> QED BY <1>1, <2>1, <2>2
<1>6. Disjoint(built')
  <2> SUFFICES ASSUME NEW i \in 1 .. n + 1, NEW j \in 1 .. n + 1, i # j
               PROVE  Cells(built'[i]) \cap Cells(built'[j]) = {}
    BY <1>1 DEF Disjoint
  <2>1. CASE i \in 1 .. n /\ j \in 1 .. n
    BY <1>1, <2>1 DEF Tidy, Disjoint
  <2>2. CASE i = n + 1 /\ j \in 1 .. n
    BY <1>1, <1>3, <2>2
  <2>3. CASE i \in 1 .. n /\ j = n + 1
    BY <1>1, <1>3, <2>3
  <2>4. (i \in 1 .. n \/ i = n + 1) /\ (j \in 1 .. n \/ j = n + 1)
    BY <1>1
  <2> QED BY <2>1, <2>2, <2>3, <2>4
<1> QED BY <1>4, <1>5, <1>6 DEF Tidy

\* Each try of the strategy places a straight arrow, tries again or retries.
LEMMA PlaceRandomMakes ==
  ASSUME IInv, MadeInv, PlaceRandom
  PROVE  MadeInv'
<1>1. job' = job /\ stage = "build" /\ job.maker = "random" /\ UNCHANGED offer
  BY DEF PlaceRandom
<1>2. /\ Tidy /\ Uphill /\ Tested /\ built \in Seq(Arrow)
      /\ job.options \in RandomLevelOptions /\ Playground = CellsOf(job.options.cells)
  BY <1>1, OptionsTyped DEF MadeInv, OurMakers, IInv, MakerInv, Drawn, Playground
<1> PICK start \in CellsOf(job.options.cells), direction \in Planar,
         length \in 1 .. job.options.maxLength :
      \/ /\ Free(StraightPath(start, direction, length), CellsOf(job.options.cells))
         /\ built' = Append(built, NewArrow(StraightPath(start, direction, length), direction))
         /\ UNCHANGED <<attempt, stage>>
      \/ UNCHANGED <<attempt, stage, built>>
      \/ Retry
  BY DEF PlaceRandom
<1> DEFINE path == StraightPath(start, direction, length)
<1>3. CASE /\ Free(path, CellsOf(job.options.cells))
           /\ built' = Append(built, NewArrow(path, direction)) /\ stage' = stage
  <2>1. job.options.maxLength \in Nat /\ job.options.cells \in Region
    BY <1>2 DEF RandomLevelOptions
  <2>2. start \in Position /\ direction \in Directions /\ length \in Nat \ {0}
    BY <2>1, PlaygroundIsRegion DEF Planar, Directions
  <2>3. path \in Seq(Position)
    <3>1. \A k \in 1 .. length : Translate(start, direction, k - 1) \in Position
      BY <2>2, TranslateIsPosition
    <3> QED BY <2>2, <3>1 DEF StraightPath
  <2> HIDE DEF path
  <2>4. /\ NewArrow(path, direction) \in Arrow
        /\ NewArrow(path, direction).path = path /\ NewArrow(path, direction).direction = direction
    BY <1>2, <2>2, <2>3 DEF NewArrow, Arrow
  <2>5. ValidArrow(NewArrow(path, direction))
    BY <2>2, <2>4, StraightIsValid DEF path
  <2>6. Tidy'
    BY <1>1, <1>2, <1>3, <2>2, <2>3, <2>5, AppendIsTidy
  <2>7. Uphill' /\ Tested'
    BY <1>1, <1>2, <1>3 DEF Uphill, Tested
  <2> QED BY <1>1, <1>3, <2>6, <2>7 DEF MadeInv
<1>4. CASE UNCHANGED <<attempt, stage, built>>
  <2>1. (Tidy /\ Uphill)'
    BY <1>1, <1>2, <1>4, SameArrows
  <2>2. Tested'
    BY <1>1, <1>2, <1>4 DEF Tested
  <2> QED BY <1>1, <1>4, <2>1, <2>2 DEF MadeInv
<1>5. CASE Retry
  BY <1>1, <1>5, RetryMakes
<1> QED BY <1>3, <1>4, <1>5

\* The script places an arrow that climbs.
LEMMA PlaceScriptMakes ==
  ASSUME IInv, MadeInv, PlaceScript
  PROVE  MadeInv'
<1>1. job' = job /\ stage = "build" /\ stage' = stage /\ job.maker = "script" /\ UNCHANGED offer
  BY DEF PlaceScript
<1>2. /\ Tidy /\ Uphill /\ Tested /\ built \in Seq(Arrow)
      /\ job.meta \in LevelMeta /\ Playground = CellsOf(job.meta.cells)
  BY <1>1, OptionsTyped DEF MadeInv, OurMakers, IInv, MakerInv, Drawn, Playground
<1>3. /\ job.meta.minBody \in Nat \ {0} /\ job.meta.maxBody \in Nat
      /\ job.meta.cells \in Region /\ job.meta.family \in Families
  BY <1>2 DEF LevelMeta, Families
<1> PICK length \in 1 + job.meta.minBody .. 1 + job.meta.maxBody :
      \E path \in MonotonePaths(job.meta, length), direction \in Family[job.meta.family] :
        /\ Free(path, CellsOf(job.meta.cells))
        /\ built' = Append(built, NewArrow(path, direction))
  BY DEF PlaceScript
<1> PICK path \in MonotonePaths(job.meta, length), direction \in Family[job.meta.family] :
      /\ Free(path, CellsOf(job.meta.cells))
      /\ built' = Append(built, NewArrow(path, direction))
  OBVIOUS
<1>4. /\ path \in Seq(Position) /\ Len(path) = length /\ length \in Nat /\ length >= 2
      /\ \A i \in 2 .. length : \E step \in Family[job.meta.family] :
           path[i] = Translate(path[i - 1], step, 1)
  <2>1. path \in [1 .. length -> CellsOf(job.meta.cells)]
    BY DEF MonotonePaths
  <2>2. length \in Nat /\ length >= 2
    BY <1>3
  <2>3. CellsOf(job.meta.cells) \subseteq Position
    BY <1>3, PlaygroundIsRegion
  <2>4. path \in Seq(Position) /\ Len(path) = length
    BY <2>1, <2>2, <2>3
  <2> QED BY <2>2, <2>4 DEF MonotonePaths
<1>5. direction \in Directions
  BY <1>3 DEF Families, Family, Directions
<1> DEFINE arrow == NewArrow(path, direction)
<1>6. arrow \in Arrow /\ arrow.path = path /\ arrow.direction = direction
  BY <1>2, <1>4, <1>5 DEF NewArrow, Arrow
<1> HIDE DEF arrow
<1>7. Climbs(job.meta.family, arrow)
  <2>1. ASSUME NEW i \in 2 .. length
        PROVE  Height(job.meta.family, path[i]) = Height(job.meta.family, path[i - 1]) + 1
    <3>1. PICK step \in Family[job.meta.family] : path[i] = Translate(path[i - 1], step, 1)
      BY <1>4
    <3>2. i - 1 \in 1 .. length
      BY <1>4
    <3>3. path[i - 1] \in Position
      BY <1>4, <3>2
    <3> QED BY <1>3, <3>1, <3>3, HeightGains
  <2> QED BY <1>4, <1>6, <2>1 DEF Climbs
<1>8. ValidArrow(arrow)
  BY <1>3, <1>4, <1>6, <1>7, ClimbingIsValid
<1>9. Tidy'
  BY <1>1, <1>2, <1>4, <1>5, <1>8, AppendIsTidy DEF arrow
<1>10. Uphill'
  <2>1. built' = Append(built, arrow)
    BY DEF arrow
  <2>2. ASSUME NEW i \in DOMAIN built'
        PROVE  Climbs(job.meta.family, built'[i])
    <3>1. (i \in DOMAIN built /\ built'[i] = built[i]) \/ built'[i] = arrow
      BY <1>2, <1>6, <2>1
    <3> QED BY <1>1, <1>2, <1>7, <3>1 DEF Uphill
  <2> QED BY <1>1, <2>2 DEF Uphill
<1>11. Tested'
  BY <1>1, <1>2 DEF Tested
<1> QED BY <1>1, <1>9, <1>10, <1>11 DEF MadeInv

\* What is tidy and of the right number is a definition.
LEMMA TidyIsDefinition ==
  ASSUME Tidy, Len(built) \in 1 .. MaxArrows, built \in Seq(Arrow), NEW attempts \in Nat \ {0}
  PROVE  ValidDefinition(built, attempts)
<1>1. AttemptsOf(attempts) >= 1
  BY DEF AttemptsOf, DefaultAttempts
<1>2. ASSUME NEW i \in DOMAIN built, NEW j \in DOMAIN built, built[i].id = built[j].id
      PROVE  i = j
  <2>1. i - 1 = j - 1 /\ i \in Int /\ j \in Int
    BY <1>2 DEF Tidy
  <2> QED BY <2>1
<1> QED BY <1>1, <1>2 DEF ValidDefinition

\* The strategy's own checks never object; only the policy may.
LEMMA TestRandomMakes ==
  ASSUME IInv, MadeInv, TestRandom
  PROVE  MadeInv'
<1>1. job' = job /\ stage = "build" /\ job.maker = "random" /\ Len(built) = job.options.arrowCount
  BY DEF TestRandom
<1>2. /\ Tidy /\ Uphill /\ Tested /\ built \in Seq(Arrow) /\ job.options \in RandomLevelOptions
  BY <1>1, OptionsTyped DEF MadeInv, OurMakers, IInv, MakerInv, Drawn
<1>3. Len(built) \in 1 .. MaxArrows /\ job.options.attempts \in Nat \ {0}
  <2>1. job.options.arrowCount \in 0 .. MaxArrows /\ job.options.arrowCount >= 1
    BY <1>1, <1>2 DEF Tested, RandomLevelOptions
  <2> QED BY <1>1, <1>2, <2>1, LimitsAssumption DEF RandomLevelOptions
<1>4. ValidDefinition(built, job.options.attempts) /\ \A i \in DOMAIN built : ValidArrow(built[i])
  BY <1>2, <1>3, TidyIsDefinition DEF Tidy
<1>5. CASE Examine(built) /\ stage' = "test" /\ UNCHANGED <<job, built, offer>>
  <2>1. (Tidy /\ Uphill)'
    BY <1>2, <1>5, SameArrows
  <2>2. Tested'
    BY <1>1, <1>2, <1>3, <1>5 DEF Tested, Examine
  <2> QED BY <1>5, <2>1, <2>2 DEF MadeInv
<1>6. CASE Retry
  BY <1>1, <1>6, RetryMakes
<1> QED BY <1>4, <1>5, <1>6 DEF TestRandom

LEMMA JudgeRandomMakes ==
  ASSUME IInv, MadeInv, JudgeRandom
  PROVE  MadeInv'
<1>1. job' = job /\ stage = "test" /\ job.maker = "random" /\ UNCHANGED kahnVars
  BY DEF JudgeRandom
<1>2. Tidy /\ Uphill /\ Tested
  BY <1>1 DEF MadeInv, OurMakers
<1>3. CASE /\ verdict = "accepted" /\ stage' = "offered" /\ UNCHANGED <<attempt, tries, built>>
           /\ offer' = [arrows |-> built, attempts |-> job.options.attempts,
                        frame |-> Framed(job.options.cells), matches |-> TRUE]
  <2>1. (Tidy /\ Uphill)'
    BY <1>1, <1>2, <1>3, SameArrows
  <2>2. IsSolvable(built) /\ Len(built) \in 1 .. MaxArrows
    BY <1>1, <1>2, <1>3, VerdictSays DEF Tested
  <2>3. OfferMade' = offer'
    BY <1>1, <1>3 DEF OfferMade
  <2>4. Tested'
    BY <1>1, <1>3, <2>2, <2>3 DEF Tested
  <2> QED BY <1>3, <2>1, <2>4 DEF MadeInv
<1>4. CASE Retry
  BY <1>1, <1>4, RetryMakes
<1> QED BY <1>3, <1>4 DEF JudgeRandom

\* The script's assertions hold of whatever it built.
LEMMA TestScriptMakes ==
  ASSUME IInv, MadeInv, TestScript
  PROVE  MadeInv'
<1>1. job' = job /\ stage = "build" /\ job.maker = "script" /\ Len(built) = job.meta.arrowCount
  BY DEF TestScript
<1>2. /\ Tidy /\ Uphill /\ Tested /\ built \in Seq(Arrow) /\ job.meta \in LevelMeta
  BY <1>1, OptionsTyped DEF MadeInv, OurMakers, IInv, MakerInv, Drawn
<1>3. Len(built) \in 1 .. MaxArrows /\ job.meta.attempts \in Nat \ {0}
  BY <1>1, <1>2, LimitsAssumption DEF LevelMeta
<1>4. DenseEnough(job.meta, built) => QualityAsserted(job.meta, built)
  <2>1. ValidDefinition(built, job.meta.attempts)
    BY <1>2, <1>3, TidyIsDefinition
  <2>2. \A i \in DOMAIN built : Len(built[i].path) >= 2 /\ ValidArrow(built[i])
    BY <1>1, <1>2 DEF Tidy, Uphill, Climbs
  <2> QED BY <1>1, <1>2, <2>1, <2>2 DEF QualityAsserted, Tidy
<1>5. CASE Examine(built) /\ stage' = "test" /\ UNCHANGED <<job, built, offer>>
  <2>1. (Tidy /\ Uphill)'
    BY <1>2, <1>5, SameArrows
  <2>2. Tested'
    BY <1>1, <1>2, <1>3, <1>5 DEF Tested, Examine
  <2> QED BY <1>5, <2>1, <2>2 DEF MadeInv
<1>6. CASE Retry
  BY <1>1, <1>6, RetryMakes
<1> QED BY <1>4, <1>5, <1>6 DEF TestScript

\* Nor does the policy ever refuse it.
LEMMA JudgeScriptMakes ==
  ASSUME IInv, MadeInv, JudgeScript
  PROVE  MadeInv'
<1>1. /\ job' = job /\ stage = "test" /\ job.maker = "script"
      /\ built' = built /\ UNCHANGED kahnVars /\ verdict \in {"accepted", "refused"}
  BY DEF JudgeScript
<1>2. Tidy /\ Uphill /\ Tested /\ built \in Seq(Arrow) /\ job.meta \in LevelMeta
  BY <1>1, OptionsTyped DEF MadeInv, OurMakers, IInv, MakerInv, Drawn
<1>3. IsSolvable(built)
  <2>1. job.meta.family \in Families
    BY <1>2 DEF LevelMeta, Families
  <2> QED BY <1>1, <1>2, <2>1, OneFamilyIsSolvable DEF Uphill
<1>4. verdict = "accepted"
  BY <1>1, <1>2, <1>3, VerdictSays DEF Tested
<1>5. /\ stage' = "offered"
      /\ offer' = [arrows |-> built, attempts |-> job.meta.attempts, matches |-> TRUE,
                   frame |-> Framed(IF job.meta.masked THEN job.meta.cells ELSE Absent)]
  BY <1>4 DEF JudgeScript
<1>6. (Tidy /\ Uphill)'
  BY <1>1, <1>2, SameArrows
<1>7. OfferMade' = offer'
  BY <1>1, <1>5 DEF OfferMade
<1>8. Tested'
  BY <1>1, <1>2, <1>3, <1>5, <1>7 DEF Tested
<1> QED BY <1>5, <1>6, <1>8 DEF MadeInv

\* The doors demand nothing that our offers lack.
LEMMA OfferIsConstructible ==
  ASSUME IInv, MadeInv, stage = "offered", job.maker \in OurMakers
  PROVE  AboutTheDay /\ Presented = built /\ Constructible(Presented, offer.attempts, FrameRead)
<1>1. Tidy /\ Tested /\ built \in Seq(Arrow)
  BY DEF MadeInv, IInv, MakerInv, Drawn
<1>2. offer = OfferMade /\ Len(built) \in 1 .. MaxArrows
  BY <1>1 DEF Tested
<1>3. CASE job.maker = "random"
  <2>1. job.options \in RandomLevelOptions /\ Playground = CellsOf(job.options.cells)
    BY <1>3, OptionsTyped DEF Playground
  <2>2. job.options.cells \in Region /\ job.options.attempts \in Nat \ {0}
    BY <2>1 DEF RandomLevelOptions
  <2>3. /\ offer.arrows = built /\ offer.attempts = job.options.attempts /\ offer.matches = TRUE
        /\ offer.frame = [size |-> Absent, mask |-> job.options.cells]
    BY <1>2, <1>3 DEF OfferMade, Framed
  <2>4. Presented = built
    <3>1. \A i \in DOMAIN built : \A cell \in Cells(built[i]) : cell[3] = 0
      BY <1>1, <2>1, <2>2, PlaygroundIsRegion DEF Tidy
    <3> QED BY <1>1, <1>3, <2>3, <3>1, FlatIsSame DEF Presented
  <2>5. FrameRead = [size |-> Absent, mask |-> job.options.cells]
    BY <1>3, <2>3 DEF FrameRead
  <2>6. ValidFrame(FrameRead)
    BY <2>2, <2>5, PlaygroundIsRegion DEF ValidFrame
  <2>7. Within(built, ShapeOf(FrameRead))
    BY <1>1, <2>1, <2>5 DEF Tidy, Within, ShapeOf, AllCells, CellsOf
  <2>8. ValidDefinition(built, offer.attempts)
    BY <1>1, <1>2, <2>2, <2>3, TidyIsDefinition
  <2> QED BY <1>1, <2>3, <2>4, <2>6, <2>7, <2>8 DEF AboutTheDay, Constructible, Tidy
<1>4. CASE job.maker = "script"
  <2>1. job.meta \in LevelMeta /\ Playground = CellsOf(job.meta.cells)
    BY <1>4, OptionsTyped DEF Playground
  <2>2. job.meta.cells \in Region /\ job.meta.attempts \in Nat \ {0}
    BY <2>1 DEF LevelMeta
  <2>3. /\ offer.arrows = built /\ offer.attempts = job.meta.attempts
        /\ offer.frame = [size |-> Absent, mask |-> IF job.meta.masked THEN job.meta.cells ELSE Absent]
    BY <1>2, <1>4 DEF OfferMade, Framed
  <2>4. Presented = built
    BY <1>4, <2>3 DEF Presented
  <2>5. /\ FrameRead.size = Absent
        /\ FrameRead.mask = IF job.meta.masked THEN job.meta.cells ELSE Absent
    BY <1>4, <2>3 DEF FrameRead
  <2>6. ValidFrame(FrameRead)
    BY <2>2, <2>5, PlaygroundIsRegion DEF ValidFrame
  <2>7. Within(built, ShapeOf(FrameRead))
    BY <1>1, <2>1, <2>5 DEF Tidy, Within, ShapeOf, AllCells, CellsOf
  <2>8. ValidDefinition(built, offer.attempts)
    BY <1>1, <1>2, <2>2, <2>3, TidyIsDefinition
  <2> QED BY <1>1, <1>4, <2>4, <2>6, <2>7, <2>8 DEF AboutTheDay, Constructible, Tidy
<1> QED BY <1>3, <1>4 DEF OurMakers

LEMMA DoorMakes ==
  ASSUME IInv, MadeInv, Knock \/ Admit
  PROVE  MadeInv'
<1>1. UNCHANGED <<job, built, offer>> /\ stage' # "idle"
  BY DEF Knock, Admit
<1> SUFFICES ASSUME job.maker \in OurMakers PROVE (Tidy /\ Uphill /\ Tested)'
  BY <1>1 DEF MadeInv
<1>2. Tidy /\ Uphill /\ Tested
  BY DEF MadeInv
<1>3. (Tidy /\ Uphill)'
  BY <1>1, <1>2, SameArrows
<1>4. CASE Knock
  <2>1. stage = "offered" /\ Examine(built) /\ stage' = "knocked"
    BY <1>4, OfferIsConstructible DEF Knock
  <2> QED BY <1>1, <1>2, <1>3, <2>1 DEF Tested, Examine
<1>5. CASE Admit
  <2>1. verdict = "accepted"
    BY <1>2, <1>5, VerdictSays DEF Admit, Tested
  <2> QED BY <1>1, <1>2, <1>3, <1>5, <2>1 DEF Tested, Admit, kahnVars
<1> QED BY <1>4, <1>5

LEMMA MadeStep == IInv /\ MadeInv /\ [Next]_vars => MadeInv'
<1> SUFFICES ASSUME IInv, MadeInv, [Next]_vars PROVE MadeInv'
  OBVIOUS
<1>1. CASE Begin
  <2>1. (built = <<>>)' => (Tidy /\ Uphill)'
    BY EmptyIsTidy, PTL
  <2>2. stage = "idle" /\ built' = built /\ built = <<>>
    BY <1>1 DEF Begin, BeginRandom, BeginScript, OfferExternal, MadeInv
  <2>3. \/ job'.maker = "random" /\ (stage' = "gaveUp" \/ (stage' = "build" /\ job'.options.arrowCount >= 1))
        \/ job'.maker = "script" /\ stage' = "build"
        \/ job'.maker \notin OurMakers /\ stage' = "offered"
    BY <1>1 DEF Begin, BeginRandom, BeginScript, OfferExternal, OurMakers
  <2> QED BY <2>1, <2>2, <2>3 DEF MadeInv, Tested, OurMakers
<1>2. CASE PlaceRandom \/ TestRandom \/ JudgeRandom
  BY <1>2, PlaceRandomMakes, TestRandomMakes, JudgeRandomMakes
<1>3. CASE PlaceScript \/ TestScript \/ JudgeScript
  BY <1>3, PlaceScriptMakes, TestScriptMakes, JudgeScriptMakes
<1>4. CASE AbandonScript
  BY <1>4, RetryMakes DEF AbandonScript
<1>5. CASE Knock \/ Admit
  BY <1>5, DoorMakes
<1>6. CASE UNCHANGED makerVars /\ level' = level
  <2>1. MadeInv => (MadeInv)'
    BY <1>6 DEF makerVars, MadeInv, Tidy, Uphill, Tested, Playground, Disjoint, OfferMade
  <2> QED BY <2>1
<1>7. CASE Finish
  BY <1>7 DEF Finish, NoJob, MadeInv, OurMakers
<1>8. (Visit \/ Conclude) /\ UNCHANGED makerVars => UNCHANGED makerVars /\ level' = level
  BY DEF Visit, Conclude
<1>9. Play \/ UNCHANGED vars => UNCHANGED makerVars /\ level' = level
  BY DEF Play, Extract, vars, kahnVars
<1> QED BY <1>1, <1>2, <1>3, <1>4, <1>5, <1>6, <1>7, <1>8, <1>9 DEF Next, Work

\* What the strategy or the script returns is never refused afterwards: not by
\* the script's assertions, not at a door; and its arrows lie apart.
THEOREM OursAreAccepted == Spec => []GeneratedNeverRefused
<1>1. Init => MadeInv
  BY DEF Init, NoJob, MadeInv, OurMakers
<1>2. IInv /\ MadeInv /\ [Next]_vars => MadeInv'
  BY MadeStep
<1>3. MadeInv => GeneratedNeverRefused
  BY DEF MadeInv, OurMakers, Tested, Tidy, GeneratedNeverRefused
<1> QED BY <1>1, <1>2, <1>3, Invariance, PTL DEF Spec
=============================================================================
