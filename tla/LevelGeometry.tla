--------------------------- MODULE LevelGeometry ---------------------------
(***************************************************************************)
(* The value objects of a level (ArrowSpec, LevelDefinition, BoardShape,   *)
(* BoardSize, Position) and what LevelSolvabilityPolicy computes about     *)
(* them, as operators.                                                     *)
(*                                                                         *)
(* A position is <<row, col, z>>.  An arrow has an id, a path of positions *)
(* from tail to head and the direction in which it leaves the board.  The  *)
(* arrows of a level are a sequence; once the ids are known to be unique   *)
(* an index stands for the arrow.  Colours, names and texts are left out.  *)
(***************************************************************************)
EXTENDS Integers, Sequences, FiniteSets

CONSTANTS
  MaxArrows,  \* LEVEL_DEFINITION_MAX_ARROWS
  MaxCells,   \* BOARD_SHAPE_MAX_CELLS
  MaxSide,    \* BOARD_SIZE_MAX_ROWS and BOARD_SIZE_MAX_COLS
  Absent      \* an optional field that is not given

ASSUME LimitsAssumption ==
  /\ MaxArrows \in Nat \ {0} /\ MaxCells \in Nat \ {0} /\ MaxSide \in Nat \ {0}
  /\ MaxSide * MaxSide <= MaxCells

Position == Int \X Int \X Int

Directions == {"UP", "DOWN", "LEFT", "RIGHT", "FORWARD", "BACK"}

Delta == [UP |-> <<-1, 0, 0>>, DOWN |-> <<1, 0, 0>>, LEFT |-> <<0, -1, 0>>,
          RIGHT |-> <<0, 1, 0>>, FORWARD |-> <<0, 0, 1>>, BACK |-> <<0, 0, -1>>]

\* The position k steps from p.
Translate(p, direction, k) ==
  <<p[1] + k * Delta[direction][1], p[2] + k * Delta[direction][2], p[3] + k * Delta[direction][3]>>

Abs(n) == IF n < 0 THEN -n ELSE n

Distance(p, q) == Abs(p[1] - q[1]) + Abs(p[2] - q[2]) + Abs(p[3] - q[3])

-----------------------------------------------------------------------------
(* Arrows *)

Arrow == [id : Nat, path : Seq(Position), direction : Directions]

HeadOf(arrow) == arrow.path[Len(arrow.path)]

Cells(arrow) == {arrow.path[i] : i \in DOMAIN arrow.path}

AllCells(arrows) == UNION {Cells(arrows[i]) : i \in DOMAIN arrows}

\* ArrowSpec.create: the path does not cross itself, is connected, and its head
\* does not point back at the cell before it.
ValidArrow(arrow) ==
  LET path == arrow.path
  IN  /\ arrow.direction \in Directions
      /\ path # <<>>
      /\ \A i, j \in DOMAIN path : path[i] = path[j] => i = j
      /\ \A i \in DOMAIN path : i > 1 => Distance(path[i - 1], path[i]) = 1
      /\ Len(path) >= 2 => Translate(HeadOf(arrow), arrow.direction, 1) # path[Len(path) - 1]

\* mapArrowInput and mapArrowCandidate: a request carries rows and columns only.
Flat(arrows) ==
  [i \in DOMAIN arrows |->
     [arrows[i] EXCEPT !.path = [k \in DOMAIN @ |-> <<@[k][1], @[k][2], 0>>]]]

-----------------------------------------------------------------------------
(* The board frame: a size, a mask of cells, or nothing *)

SizeCells(size) == {<<row, col, 0>> : row \in 0 .. size[1] - 1, col \in 0 .. size[2] - 1}

ValidSize(size) == size[1] \in 1 .. MaxSide /\ size[2] \in 1 .. MaxSide

\* A mask of an unknown type is refused as an empty one is.
ValidMask(cells) ==
  /\ Len(cells) \in 1 .. MaxCells
  /\ \A i, j \in DOMAIN cells : cells[i] = cells[j] => i = j

ValidFrame(frame) ==
  /\ frame.size = Absent \/ frame.mask = Absent
  /\ frame.size # Absent => ValidSize(frame.size)
  /\ frame.mask # Absent => ValidMask(frame.mask)

\* The cells of the shape, or Absent for an unframed level.
ShapeOf(frame) ==
  IF frame.size # Absent THEN SizeCells(frame.size)
  ELSE IF frame.mask # Absent THEN {frame.mask[i] : i \in DOMAIN frame.mask}
  ELSE Absent

\* Level.assertArrowsWithinShape.
Within(arrows, shape) == shape # Absent => AllCells(arrows) \subseteq shape

-----------------------------------------------------------------------------
(* Definitions *)

DefaultAttempts == 5

AttemptsOf(given) == IF given = Absent THEN DefaultAttempts ELSE given

\* LevelDefinition.create; overlapping arrows are allowed.
ValidDefinition(arrows, attempts) ==
  /\ Len(arrows) \in 1 .. MaxArrows
  /\ AttemptsOf(attempts) >= 1
  /\ \A i, j \in DOMAIN arrows : arrows[i].id = arrows[j].id => i = j

\* Mutant: arrows are built without their value object's checks.
ConstructibleUnchecked(arrows, attempts, frame) ==
  /\ ValidFrame(frame)
  /\ ValidDefinition(arrows, attempts)
  /\ Within(arrows, ShapeOf(frame))

\* What every way into the system demands before a Level exists.
Constructible(arrows, attempts, frame) ==
  /\ \A i \in DOMAIN arrows : ValidArrow(arrows[i])
  /\ ValidFrame(frame)
  /\ ValidDefinition(arrows, attempts)
  /\ Within(arrows, ShapeOf(frame))

-----------------------------------------------------------------------------
(* LevelSolvabilityPolicy *)

\* Mutant: BACK looks the same way as FORWARD.
IsStrictlyAheadOneWay(head, direction, cell) ==
  CASE direction = "UP"      -> cell[2] = head[2] /\ cell[1] < head[1]
    [] direction = "DOWN"    -> cell[2] = head[2] /\ cell[1] > head[1]
    [] direction = "LEFT"    -> cell[1] = head[1] /\ cell[2] < head[2]
    [] direction = "RIGHT"   -> cell[1] = head[1] /\ cell[2] > head[2]
    [] direction \in {"FORWARD", "BACK"} ->
         cell[1] = head[1] /\ cell[2] = head[2] /\ cell[3] > head[3]

\* The four planar directions do not look at z.
IsStrictlyAhead(head, direction, cell) ==
  CASE direction = "UP"      -> cell[2] = head[2] /\ cell[1] < head[1]
    [] direction = "DOWN"    -> cell[2] = head[2] /\ cell[1] > head[1]
    [] direction = "LEFT"    -> cell[1] = head[1] /\ cell[2] < head[2]
    [] direction = "RIGHT"   -> cell[1] = head[1] /\ cell[2] > head[2]
    [] direction = "FORWARD" -> cell[1] = head[1] /\ cell[2] = head[2] /\ cell[3] > head[3]
    [] direction = "BACK"    -> cell[1] = head[1] /\ cell[2] = head[2] /\ cell[3] < head[3]

Blocks(blocked, blocker) ==
  \E cell \in Cells(blocker) : IsStrictlyAhead(HeadOf(blocked), blocked.direction, cell)

\* Mutant: an arrow whose body lies ahead of its head blocks itself.
BlockersWithSelf(arrows, n) == {m \in DOMAIN arrows : Blocks(arrows[n], arrows[m])}

\* The blocking graph, by predecessors: what has to go before arrow n.  The code
\* excludes the arrow itself, whose body may lie ahead of its own head.
Blockers(arrows, n) == {m \in DOMAIN arrows \ {n} : Blocks(arrows[n], arrows[m])}

\* Acyclic: every set of arrows has one that none of the set blocks.  isAcyclic
\* computes this with Kahn's algorithm, which Solvability models step by step.
IsSolvable(arrows) ==
  \A group \in SUBSET DOMAIN arrows :
    group # {} => \E n \in group : Blockers(arrows, n) \cap group = {}

-----------------------------------------------------------------------------
(* The game, which the client plays: an arrow leaves along its direction and *)
(* is held by any other arrow it meets; the board shape is not a wall.       *)

\* The cell lies on the ray that leaves the head in the direction.
OnRay(head, direction, cell) ==
  cell # head /\ cell = Translate(head, direction, Distance(head, cell))

CanLeave(arrows, remaining, n) ==
  \A m \in remaining \ {n} : \A cell \in Cells(arrows[m]) :
    ~OnRay(HeadOf(arrows[n]), arrows[n].direction, cell)
=============================================================================
