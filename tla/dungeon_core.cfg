SPECIFICATION FairSpec
CONSTANTS
  p1 = p1
  p2 = p2
  Players <- MCPlayers
  Slots = {0, 1}
  Door = Door
  Town = Town
  Ids = {0, 1, 2, 3, 4}
  Ticks = 1
  MaxLive = 2
  Grouping = TRUE
  None = None
INVARIANTS DungeonInv EntranceLeadsToOpen
PROPERTIES ReturnsUnlessFirst LineMoves EmptyDungeonEnds
