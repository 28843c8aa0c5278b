---------------------------- MODULE Solvability ----------------------------
(***************************************************************************)
(* LevelSolvabilityPolicy.isAcyclic, Kahn's algorithm on the blocking      *)
(* graph, one round of its loop per step; and the game that is played on   *)
(* the level afterwards.                                                   *)
(*                                                                         *)
(* The queue is a set: the code takes the oldest node of it, here any node *)
(* may come first.  No other code runs during an examination.              *)
(***************************************************************************)
EXTENDS LevelGeometry

VARIABLES
  level,      \* the arrows under examination
  indegree,   \* per arrow: the blockers not yet visited
  queue,      \* the arrows with nothing left in front of them, not yet visited
  done,       \* the arrows visited; the code keeps their number only
  visited,    \* that number
  verdict,    \* what isSolvable returned
  remaining   \* the arrows a player of the level has still on the board

kahnVars == <<level, indegree, queue, done, visited, verdict, remaining>>

Nodes == DOMAIN level

KahnTypeOK ==
  /\ level \in Seq(Arrow)
  /\ indegree \in [Nodes -> Nat]
  /\ queue \subseteq Nodes /\ done \subseteq Nodes /\ remaining \subseteq Nodes
  /\ visited \in Nat
  /\ verdict \in {"none", "running", "accepted", "refused"}

KahnInit ==
  /\ level = <<>>
  /\ indegree = <<>>
  /\ queue = {} /\ done = {} /\ remaining = {}
  /\ visited = 0
  /\ verdict = "none"

\* buildBlockingGraph, the indegrees and the first queue.
Examine(arrows) ==
  /\ verdict # "running"
  /\ level' = arrows
  /\ indegree' = [n \in DOMAIN arrows |-> Cardinality(Blockers(arrows, n))]
  /\ queue' = {n \in DOMAIN arrows : Blockers(arrows, n) = {}}
  /\ done' = {} /\ visited' = 0
  /\ verdict' = "running"
  /\ remaining' = DOMAIN arrows

\* Mutant: an arrow is queued as soon as one of its blockers is gone.
VisitEager ==
  /\ verdict = "running"
  /\ \E n \in queue :
       LET neighbors == {m \in Nodes : n \in Blockers(level, m)}
       IN  /\ indegree' = [m \in Nodes |-> IF m \in neighbors THEN indegree[m] - 1 ELSE indegree[m]]
           /\ queue' = (queue \cup (neighbors \ done)) \ {n}
           /\ done' = done \cup {n}
           /\ visited' = Cardinality(done')
  /\ UNCHANGED <<level, verdict, remaining>>

\* One round of the loop: the arrow leaves, and those it was the last to block
\* are queued.
Visit ==
  /\ verdict = "running"
  /\ \E n \in queue :
       LET neighbors == {m \in Nodes : n \in Blockers(level, m)}
       IN  /\ indegree' = [m \in Nodes |-> IF m \in neighbors THEN indegree[m] - 1 ELSE indegree[m]]
           /\ queue' = (queue \ {n}) \cup {m \in neighbors : indegree'[m] = 0}
           /\ done' = done \cup {n}
  /\ visited' = visited + 1
  /\ UNCHANGED <<level, verdict, remaining>>

\* Mutant: the loop's end is taken for success.
ConcludeAccepting ==
  /\ verdict = "running" /\ queue = {}
  /\ verdict' = "accepted"
  /\ UNCHANGED <<level, indegree, queue, done, visited, remaining>>

Conclude ==
  /\ verdict = "running" /\ queue = {}
  /\ verdict' = IF visited = Len(level) THEN "accepted" ELSE "refused"
  /\ UNCHANGED <<level, indegree, queue, done, visited, remaining>>

\* The player taps an arrow whose way is free, and it leaves the board.
Extract(n) ==
  /\ verdict \in {"accepted", "refused"}
  /\ n \in remaining /\ CanLeave(level, remaining, n)
  /\ remaining' = remaining \ {n}
  /\ UNCHANGED <<level, indegree, queue, done, visited, verdict>>

-----------------------------------------------------------------------------
(* Properties *)

\* Between the rounds of the loop, and at its end, each indegree is the number
\* of blockers that were not visited yet, the queue is what has none left, and
\* visited counts each arrow once.
KahnCounts ==
  /\ \A n \in Nodes : indegree[n] = Cardinality(Blockers(level, n) \ done)
  /\ queue = {n \in Nodes \ done : Blockers(level, n) \subseteq done}
  /\ visited = Cardinality(done)

\* The policy's answer is acyclicity of the blocking graph, which no single
\* round of the loop can see.
VerdictIsSolvable ==
  /\ verdict = "accepted" => IsSolvable(level)
  /\ verdict = "refused" => ~IsSolvable(level)

\* A level the policy accepted can never be played into a dead end: whatever
\* arrows the player took so far, in any order, another one can leave.
AcceptedNeverStuck ==
  verdict = "accepted" /\ remaining # {} => \E n \in remaining : CanLeave(level, remaining, n)

IsFlat(arrows) == \A p, q \in AllCells(arrows) : p[3] = q[3]

\* And no solvable level is refused: on a board with one layer, a refused level
\* is one that no player clears.  (With several layers the planar directions
\* look through them, and the policy refuses more than it has to.)
RefusedNeverCleared ==
  verdict = "refused" /\ IsFlat(level) => remaining # {}
=============================================================================
