------------------------------ MODULE MCLevels ------------------------------
(***************************************************************************)
(* Level generation for TLC: small boards for the two generators, and a    *)
(* collection of levels that models, authors and admins come up with.      *)
(***************************************************************************)
EXTENDS LevelGeneration

Board(rows, cols) == [i \in 1 .. rows * cols |-> <<(i - 1) \div cols, (i - 1) % cols, 0>>]

\* Two rows without a corner; a full row; and nothing to place.
SmallOptions ==
  {[cells |-> SubSeq(Board(2, 3), 1, 5), arrowCount |-> 2, maxLength |-> 2, attempts |-> 5],
   [cells |-> Board(1, 3), arrowCount |-> 3, maxLength |-> 1, attempts |-> 1],
   [cells |-> Board(1, 2), arrowCount |-> 0, maxLength |-> 1, attempts |-> 5]}

Meta(cells, masked, family, arrowCount, maxBody, minDensity, minBlocked) ==
  [cells |-> cells, masked |-> masked, family |-> family, arrowCount |-> arrowCount,
   minBody |-> 1, maxBody |-> maxBody, minDensity |-> minDensity, minBlocked |-> minBlocked,
   attempts |-> 5]

Corner == SelectSeq(Board(3, 3), LAMBDA cell : cell[1] + cell[2] <= 2)

SmallMetas ==
  {Meta(Board(2, 3), FALSE, family, 2, 2, 60, 1) :
     family \in {"UP_RIGHT", "RIGHT_DOWN", "DOWN_LEFT", "LEFT_UP"}}
  \cup {Meta(Board(2, 3), FALSE, "UP_RIGHT", 3, 1, 100, 2), Meta(Corner, TRUE, "RIGHT_DOWN", 2, 2, 60, 0)}

A(id, path, direction) == [id |-> id, path |-> path, direction |-> direction]

Level(arrows) ==
  [arrows |-> arrows, attempts |-> Absent, frame |-> [size |-> Absent, mask |-> Absent],
   matches |-> TRUE]

TwoCycle == <<A(1, <<<<0, 0, 0>>>>, "RIGHT"), A(2, <<<<0, 2, 0>>>>, "LEFT")>>

\* Four arrows around an empty middle, each in front of the next one.
Pinwheel ==
  <<A(1, <<<<0, 0, 0>>, <<0, 1, 0>>>>, "RIGHT"), A(2, <<<<0, 3, 0>>, <<1, 3, 0>>>>, "DOWN"),
    A(3, <<<<3, 3, 0>>, <<3, 2, 0>>>>, "LEFT"), A(4, <<<<3, 0, 0>>, <<2, 0, 0>>>>, "UP")>>

\* The same with the last arrow free to leave first.
OpenPinwheel == [Pinwheel EXCEPT ![4].direction = "LEFT"]

\* Its own body lies ahead of its head.
Bent ==
  <<A(1, <<<<0, 2, 0>>, <<1, 2, 0>>, <<1, 1, 0>>, <<1, 0, 0>>, <<0, 0, 0>>>>, "RIGHT"),
    A(2, <<<<2, 0, 0>>>>, "UP")>>

\* Overlapping arrows, which a definition allows.
Overlapping == <<A(1, <<<<0, 0, 0>>, <<0, 1, 0>>>>, "RIGHT"), A(2, <<<<1, 1, 0>>, <<0, 1, 0>>>>, "UP"),
                 A(3, <<<<0, 1, 0>>, <<0, 2, 0>>>>, "RIGHT")>>

\* A column of layers, one that is locked, and two layers on one row.
Layers == <<A(1, <<<<0, 0, 0>>>>, "FORWARD"), A(2, <<<<0, 0, 1>>>>, "FORWARD"),
            A(3, <<<<0, 0, 2>>>>, "UP")>>
LockedLayers == <<A(1, <<<<0, 0, 0>>>>, "FORWARD"), A(2, <<<<0, 0, 1>>>>, "BACK"), A(3, <<<<1, 0, 1>>>>, "UP")>>
Apart == <<A(1, <<<<0, 0, 0>>>>, "RIGHT"), A(2, <<<<0, 1, 1>>>>, "LEFT")>>

Line == <<A(1, <<<<0, 0, 0>>, <<0, 1, 0>>>>, "RIGHT")>>

MixedOffers ==
  {Level(arrows) : arrows \in {TwoCycle, Pinwheel, OpenPinwheel, Bent, Overlapping, Layers,
                               LockedLayers, Apart, Line}}
  \cup \* malformed in one respect each
  {Level(<<>>), Level(<<A(1, <<<<0, 0, 0>>, <<1, 1, 0>>>>, "RIGHT")>>),
   Level(<<A(1, <<<<0, 0, 0>>, <<0, 1, 0>>>>, "LEFT")>>),
   Level(<<A(1, <<<<0, 0, 0>>, <<0, 1, 0>>, <<0, 0, 0>>>>, "UP")>>),
   Level(<<Line[1], [Line[1] EXCEPT !.direction = "UP"]>>),
   Level([i \in 1 .. MaxArrows + 1 |-> A(i, <<<<0, i, 0>>>>, "UP")]),
   [Level(Line) EXCEPT !.attempts = 0],
   [Level(Line) EXCEPT !.matches = FALSE],
   [Level(Line) EXCEPT !.frame.mask = <<<<0, 0, 0>>>>],
   [Level(Line) EXCEPT !.frame = [size |-> <<1, 2>>, mask |-> Board(1, 2)]],
   [Level(Line) EXCEPT !.frame.size = <<MaxSide + 1, 2>>]}
  \cup {[Level(Line) EXCEPT !.frame.size = <<1, 2>>], [Level(Bent) EXCEPT !.frame.mask = Board(3, 3)]}
=============================================================================
