SPECIFICATION Spec
CONSTANTS
  Names = {ann, bob}
  Slots <- MCSlots
  Data <- MCData
  NewHouse = 0
  Delay = 0
  MaxId = 1
  MaxQueue = 2
  Off = Off
  Making = Making
  Waiting = Waiting
  Placed = Placed
  Lost = Lost
  Town = Town
  None = None
INVARIANTS MarkersAreLoads
SYMMETRY Symmetry
