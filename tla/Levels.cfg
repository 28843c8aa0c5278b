\* Boards of six cells, up to three generated arrows, mixed offers.
SPECIFICATION FairSpec
CONSTANTS
  MaxArrows = 4
  MaxCells = 9
  MaxSide = 3
  Absent = Absent
  Options <- SmallOptions
  Metas <- SmallMetas
  Offers <- MixedOffers
  PlacementTries = 2
  MaxGenerations = 2
INVARIANT TypeOK
INVARIANT KahnCounts
INVARIANT VerdictIsSolvable
INVARIANT AcceptedNeverStuck
INVARIANT RefusedNeverCleared
INVARIANT GeneratedNeverRefused
PROPERTY EveryJobEnds
