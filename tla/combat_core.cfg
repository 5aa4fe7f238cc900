SPECIFICATION FairSpec
CONSTANTS
  p = p
  q = q
  m = m
  r = r
  Players <- MCPlayers
  Npcs <- MCNpcs
  Leader <- MCLeader
  Fights = {f1}
  Loot = {o}
  MaxRounds = 2
  None = None
INVARIANTS Orderly NobodyForgotten ChoiceCounts
PROPERTIES RoundAwaitsAll ObjectsLetGo FightsEnd
