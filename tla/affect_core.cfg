SPECIFICATION Spec
CONSTANTS
  Chars = {c}
  Things = {r, s}
  Blessings = {"bless"}
  Poisoned = "poisoned"
  Freeze = "freeze"
  Permanency = "permanency"
  Enchant = "enchant"
  Long <- MCLong
  Ground = Ground
  Gone = Gone
SYMMETRY SymmetryThings
INVARIANTS Orderly WornPowers
PROPERTY EnchantmentsLast
