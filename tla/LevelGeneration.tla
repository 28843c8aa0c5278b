-------------------------- MODULE LevelGeneration --------------------------
(***************************************************************************)
(* Where levels come from: RandomLevelStrategy behind the deterministic    *)
(* generator of the daily challenge, the script generate-level-seed, a     *)
(* language model, an author's file and an admin's request; and the doors  *)
(* they have to pass before anybody plays them.                            *)
(*                                                                         *)
(* One job is followed at a time: nothing here awaits another one.  Random *)
(* draws are arbitrary choices, so what holds here holds for every seed.   *)
(* The scores by which the script prefers a candidate are left out: any    *)
(* candidate may be the best one.                                          *)
(***************************************************************************)
EXTENDS Solvability

CONSTANTS
  Options,          \* RandomLevelOptions: cells, arrowCount, maxLength, attempts
  Metas,            \* LevelMeta: cells, family, arrowCount, minBody, maxBody, ...
  Offers,           \* external: what a model, an author or an admin comes up with
  PlacementTries,   \* PLACEMENT_TRIES
  MaxGenerations    \* maxGenerationAttempts and LEVEL_GENERATION_ATTEMPTS

ASSUME BoundsAssumption == PlacementTries \in Nat \ {0} /\ MaxGenerations \in Nat \ {0}

\* The playable cells of a board with a single layer, each listed once.
Region == {cells \in Seq(Position) : ValidMask(cells) /\ \A i \in DOMAIN cells : cells[i][3] = 0}

RandomLevelOptions ==
  [cells : Region, arrowCount : 0 .. MaxArrows, maxLength : Nat, attempts : Nat \ {0}]

LevelMeta ==
  [cells : Region, masked : BOOLEAN, family : {"UP_RIGHT", "RIGHT_DOWN", "DOWN_LEFT", "LEFT_UP"},
   arrowCount : 1 .. MaxArrows, minBody : Nat \ {0}, maxBody : Nat,
   minDensity : Nat, minBlocked : Nat, attempts : Nat \ {0}]

\* The configurations are those of the code, all of them within the limits of
\* the value objects; an offer is a list of arrows and otherwise untrusted.
ASSUME OptionsAssumption ==
  /\ Options \subseteq RandomLevelOptions
  /\ Metas \subseteq LevelMeta
  /\ \A candidate \in Offers : candidate.arrows \in Seq(Arrow)

VARIABLES
  job,       \* which maker is at work, with its options
  stage,     \* where the job stands
  attempt,   \* generations begun
  tries,     \* placements of the next arrow that failed
  built,     \* the arrows placed so far, or offered from outside
  offer      \* what goes to the door: arrows, attempts, frame, metadata

makerVars == <<job, stage, attempt, tries, built, offer>>

vars == <<kahnVars, makerVars>>

Makers == {"random", "script", "gemini", "author", "admin"}

Ended == {"accepted", "refused", "gaveUp", "thrown"}

NoJob == [maker |-> "none"]

NoOffer == [arrows |-> <<>>]

Init ==
  /\ KahnInit
  /\ job = NoJob /\ stage = "idle"
  /\ attempt = 0 /\ tries = 0
  /\ built = <<>> /\ offer = NoOffer

CellsOf(sequence) == {sequence[i] : i \in DOMAIN sequence}

Occupied == AllCells(built)

\* The id of an arrow is its number: "arrow-0", or the letters of arrowId.
NewArrow(path, direction) == [id |-> Len(built), path |-> path, direction |-> direction]

Framed(mask) == [size |-> Absent, mask |-> mask]

-----------------------------------------------------------------------------
(* RandomLevelStrategy *)

Planar == {"UP", "DOWN", "LEFT", "RIGHT"}

StraightPath(start, direction, length) ==
  [k \in 1 .. length |-> Translate(start, direction, k - 1)]

\* The strategy's configuration is one of the code; it is refused only if it
\* asks for nothing.
BeginRandom(options) ==
  /\ stage = "idle"
  /\ job' = [maker |-> "random", options |-> options]
  /\ stage' = IF options.arrowCount >= 1 /\ options.maxLength >= 1 THEN "build" ELSE "gaveUp"
  /\ UNCHANGED <<kahnVars, attempt, tries, built, offer>>

\* growPath: inside the mask and on no arrow placed before.
Free(path, cells) == CellsOf(path) \subseteq cells /\ CellsOf(path) \cap Occupied = {}

\* Mutant: a generation without a place for its arrow starts again for ever.
RetryForever ==
  /\ attempt' = attempt
  /\ stage' = "build"
  /\ tries' = 0
  /\ built' = <<>>

\* The next of maxAttempts generations, or the controlled failure.
Retry ==
  /\ attempt' = attempt + 1
  /\ stage' = IF attempt + 1 < MaxGenerations THEN "build" ELSE "gaveUp"
  /\ tries' = 0
  /\ built' = <<>>

\* placeArrow: one try with an arbitrary start, direction and length.
PlaceRandom ==
  /\ job.maker = "random" /\ stage = "build" /\ Len(built) < job.options.arrowCount
  /\ \E start \in CellsOf(job.options.cells), direction \in Planar,
        length \in 1 .. job.options.maxLength :
       LET path == StraightPath(start, direction, length)
       IN  IF Free(path, CellsOf(job.options.cells))
             THEN /\ built' = Append(built, NewArrow(path, direction))
                  /\ tries' = 0
                  /\ UNCHANGED <<attempt, stage>>
             ELSE IF tries + 1 < PlacementTries
               THEN tries' = tries + 1 /\ UNCHANGED <<attempt, stage, built>>
               ELSE Retry
  /\ UNCHANGED <<kahnVars, job, offer>>

\* ArrowSpec.create and LevelDefinition.create, containsAll and the policy.
TestRandom ==
  /\ job.maker = "random" /\ stage = "build" /\ Len(built) = job.options.arrowCount
  /\ IF ~(ValidDefinition(built, job.options.attempts) /\ \A i \in DOMAIN built : ValidArrow(built[i]))
       THEN /\ stage' = "thrown"
            /\ UNCHANGED <<kahnVars, job, attempt, tries, built, offer>>
       ELSE IF AllCells(built) \subseteq CellsOf(job.options.cells)
         THEN /\ Examine(built)
              /\ stage' = "test"
              /\ UNCHANGED <<job, attempt, tries, built, offer>>
         ELSE Retry /\ UNCHANGED <<kahnVars, job, offer>>

\* A solvable level becomes the generator's candidate, of the date, seed and
\* difficulty that were asked for.
JudgeRandom ==
  /\ job.maker = "random" /\ stage = "test"
  /\ \/ /\ verdict = "accepted"
        /\ offer' = [arrows |-> built, attempts |-> job.options.attempts,
                     frame |-> Framed(job.options.cells), matches |-> TRUE]
        /\ stage' = "offered"
        /\ UNCHANGED <<attempt, tries, built>>
     \/ verdict = "refused" /\ Retry /\ UNCHANGED offer
  /\ UNCHANGED <<kahnVars, job>>

-----------------------------------------------------------------------------
(* The script generate-level-seed *)

Family == [UP_RIGHT |-> {"UP", "RIGHT"}, RIGHT_DOWN |-> {"RIGHT", "DOWN"},
           DOWN_LEFT |-> {"DOWN", "LEFT"}, LEFT_UP |-> {"LEFT", "UP"}]

BeginScript(meta) ==
  /\ stage = "idle"
  /\ job' = [maker |-> "script", meta |-> meta]
  /\ stage' = "build"
  /\ UNCHANGED <<kahnVars, attempt, tries, built, offer>>

\* randomMonotonePath: a walk in the region with the two steps of the family.
\* It cannot meet itself.
MonotonePaths(meta, length) ==
  {path \in [1 .. length -> CellsOf(meta.cells)] :
     \A i \in 2 .. length : \E step \in Family[meta.family] :
       path[i] = Translate(path[i - 1], step, 1)}

\* Enough free cells stay for the arrows that are still to be placed.
LeavesRoom(meta, length) ==
  length <= Len(meta.cells) - Cardinality(Occupied)
              - (meta.arrowCount - Len(built) - 1) * (1 + meta.minBody)

\* Mutant: the arrow leaves in any direction, not in one of its family.
PlaceScriptAnyDirection ==
  /\ job.maker = "script" /\ stage = "build" /\ Len(built) < job.meta.arrowCount
  /\ \E length \in 1 + job.meta.minBody .. 1 + job.meta.maxBody :
       \E path \in MonotonePaths(job.meta, length), direction \in Planar :
         /\ Free(path, CellsOf(job.meta.cells)) /\ LeavesRoom(job.meta, length)
         /\ ValidArrow(NewArrow(path, direction))
         /\ built' = Append(built, NewArrow(path, direction))
  /\ UNCHANGED <<kahnVars, job, stage, attempt, tries, offer>>

\* The best of the candidates makeCandidate finds.
PlaceScript ==
  /\ job.maker = "script" /\ stage = "build" /\ Len(built) < job.meta.arrowCount
  /\ \E length \in 1 + job.meta.minBody .. 1 + job.meta.maxBody :
       \E path \in MonotonePaths(job.meta, length), direction \in Family[job.meta.family] :
         /\ Free(path, CellsOf(job.meta.cells)) /\ LeavesRoom(job.meta, length)
         /\ built' = Append(built, NewArrow(path, direction))
  /\ UNCHANGED <<kahnVars, job, stage, attempt, tries, offer>>

\* None of CANDIDATES_PER_ARROW draws was one.
AbandonScript ==
  /\ job.maker = "script" /\ stage = "build" /\ Len(built) < job.meta.arrowCount
  /\ Retry
  /\ UNCHANGED <<kahnVars, job, offer>>

BlockedArrows(arrows) == {n \in DOMAIN arrows : Blockers(arrows, n) # {}}

DenseEnough(meta, arrows) ==
  /\ 100 * Cardinality(AllCells(arrows)) >= meta.minDensity * Len(meta.cells)
  /\ Cardinality(BlockedArrows(arrows)) >= meta.minBlocked

\* No cell belongs to two arrows.
Disjoint(arrows) ==
  \A i, j \in DOMAIN arrows : i # j => Cells(arrows[i]) \cap Cells(arrows[j]) = {}

\* assertLevelQuality, up to the policy.
QualityAsserted(meta, arrows) ==
  /\ Len(arrows) = meta.arrowCount /\ DenseEnough(meta, arrows)
  /\ Disjoint(arrows)
  /\ \A i \in DOMAIN arrows : Len(arrows[i].path) >= 2 /\ ValidArrow(arrows[i])
  /\ ValidDefinition(arrows, meta.attempts)

\* generateLevel returns a level within the thresholds, which is then asserted
\* to have what the script claims of it.
TestScript ==
  /\ job.maker = "script" /\ stage = "build" /\ Len(built) = job.meta.arrowCount
  /\ \/ ~DenseEnough(job.meta, built) /\ Retry /\ UNCHANGED <<kahnVars, job, offer>>
     \/ /\ DenseEnough(job.meta, built)
        /\ IF QualityAsserted(job.meta, built) THEN Examine(built) /\ stage' = "test"
                                               ELSE stage' = "thrown" /\ UNCHANGED kahnVars
        /\ UNCHANGED <<job, attempt, tries, built, offer>>

\* The file of a shaped board carries its mask, that of a rectangle no frame.
JudgeScript ==
  /\ job.maker = "script" /\ stage = "test" /\ verdict \in {"accepted", "refused"}
  /\ IF verdict = "accepted"
       THEN /\ offer' = [arrows |-> built, attempts |-> job.meta.attempts, matches |-> TRUE,
                         frame |-> Framed(IF job.meta.masked THEN job.meta.cells ELSE Absent)]
            /\ stage' = "offered"
       ELSE stage' = "thrown" /\ UNCHANGED offer
  /\ UNCHANGED <<kahnVars, job, attempt, tries, built>>

-----------------------------------------------------------------------------
(* The doors *)

\* The language model, an author or an admin: untrusted in every respect.
OfferExternal(maker, candidate) ==
  /\ stage = "idle"
  /\ job' = [maker |-> maker]
  /\ offer' = candidate
  /\ stage' = "offered"
  /\ UNCHANGED <<kahnVars, attempt, tries, built>>

\* A file keeps z and cannot carry a boardSize; the two others carry rows and
\* columns only.  A model's answer also has to be about the right day.
Presented ==
  IF job.maker \in {"script", "author"} THEN offer.arrows ELSE Flat(offer.arrows)

FrameRead ==
  IF job.maker \in {"script", "author"} THEN [offer.frame EXCEPT !.size = Absent] ELSE offer.frame

AboutTheDay == job.maker \in {"random", "gemini"} => offer.matches

\* validateDailyChallengeCandidate, loadAuthoredLevels and CreateLevelUseCase up
\* to the policy; an exception refuses the level.
Knock ==
  /\ stage = "offered"
  /\ IF AboutTheDay /\ Constructible(Presented, offer.attempts, FrameRead)
       THEN Examine(Presented) /\ stage' = "knocked"
       ELSE stage' = "refused" /\ UNCHANGED kahnVars
  /\ UNCHANGED <<job, attempt, tries, built, offer>>

\* "Daily challenge is unsolvable", "is not solvable", LevelNotPlayableError.
Admit ==
  /\ stage = "knocked" /\ verdict \in {"accepted", "refused"}
  /\ stage' = verdict
  /\ UNCHANGED <<kahnVars, job, attempt, tries, built, offer>>

\* The player meets what was examined last.  A refused level is played too, as
\* an experiment: nobody is ever given it.
Play ==
  /\ stage \in {"accepted", "refused"}
  /\ \E n \in remaining : Extract(n)
  /\ UNCHANGED makerVars

Finish ==
  /\ stage \in Ended
  /\ level' = <<>> /\ indegree' = <<>> /\ queue' = {} /\ done' = {} /\ visited' = 0
  /\ verdict' = "none" /\ remaining' = {}
  /\ job' = NoJob /\ stage' = "idle" /\ attempt' = 0 /\ tries' = 0
  /\ built' = <<>> /\ offer' = NoOffer

Begin ==
  \/ \E options \in Options : BeginRandom(options)
  \/ \E meta \in Metas : BeginScript(meta)
  \/ \E maker \in {"gemini", "author", "admin"}, candidate \in Offers :
       OfferExternal(maker, candidate)

Work ==
  \/ PlaceRandom \/ TestRandom \/ JudgeRandom
  \/ PlaceScript \/ AbandonScript \/ TestScript \/ JudgeScript
  \/ Knock \/ Admit
  \/ (Visit \/ Conclude) /\ UNCHANGED makerVars

Next == Begin \/ Work \/ Play \/ Finish

Spec == Init /\ [][Next]_vars

\* All of it is synchronous code, or the script's: it runs to its end.
FairSpec == Spec /\ WF_vars(Work)

-----------------------------------------------------------------------------
(* Properties *)

\* Whatever is examined, by a generator or at a door, is a list of arrows the
\* geometry is defined on; malformed candidates were refused before.
TypeOK ==
  /\ KahnTypeOK
  /\ \A n \in Nodes : ValidArrow(level[n])
  /\ stage \in {"idle", "build", "test", "offered", "knocked"} \cup Ended
  /\ attempt \in 0 .. MaxGenerations /\ tries \in 0 .. PlacementTries - 1
  /\ built \in Seq(Arrow)

\* What a generator of ours returns is never turned down afterwards, neither by
\* the assertions of the script ("the script still validates that claim") nor at
\* the door that treats it as untrusted; and no two of its arrows share a cell.
GeneratedNeverRefused ==
  job.maker \in {"random", "script"} =>
    /\ stage \notin {"refused", "thrown"}
    /\ stage = "accepted" => Disjoint(level)

\* "A controlled failure rather than hanging": every job ends, with a level or
\* without one, however unlucky the draws are.
EveryJobEnds == stage \in {"build", "offered"} ~> stage \in Ended
=============================================================================
