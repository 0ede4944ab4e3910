SPECIFICATION Spec
CONSTANTS
  Sizings <- MCSizings
  Inputs <- MCInputs
  Players = {1, 3, 4, 9}
  Quantities = {8}
  None = None
  MaxEdits = 2
INVARIANTS
  PreviewKept
  SizedWithinBounds
PROPERTIES
  GrowthNeverShrinks
