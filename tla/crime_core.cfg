SPECIFICATION Spec
CONSTANTS
  Chars = {ann, bob}
  Purse = 2
  Bounties = {2}
  MaxCrimes = 2
  MaxQueue = 3
  Early = FALSE
  Out = Out
  Chosen = Chosen
  In = In
  None = None
SYMMETRY Symmetry
INVARIANTS RecordsAgree NoInnocentHunted
PROPERTIES NoMinting
