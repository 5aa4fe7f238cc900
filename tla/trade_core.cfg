SPECIFICATION Spec
CONSTANTS
  a = a
  b = b
  thing = thing
  sack = sack
  pack = pack
  pile = pile
  chest = chest
  Chars <- MCChars
  Things = {thing}
  Bags = {sack, pack}
  Piles = {pile}
  Chests = {chest}
  Lidded = {sack}
  Packs = {pack}
  Tossed = {chest}
  Accepting = {b}
  Purse <- MCPurse
  Cost <- MCCost
  SellMarkup = 100
  BuyMarkup = 50
  MaxGold = 4
  IntMax = 100
  MaxAmount = 1
  None = None
INVARIANT Orderly
PROPERTIES NoMinting HandsOff
