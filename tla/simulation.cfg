SPECIFICATION Spec
CONSTANTS
  A = A
  B = B
  Field = field
  Repair = repair
  Trap = trap
  Spare = spare
  Other = other
  None = None
  Bot = {1, 2, 3, 4}
  Squad = {A, B}
  Item = {repair, trap, spare, other}
  Kind <- MCKind
  Place = {field, gate}
  Exit = gate
  Scene <- MCScenes
  BaySlots = 1
  HoldSlots = 1
  MaxPlates = 1
  MaxMines = 1
  MaxSquad = 3
  CaptureTicks = 3
  CoverTicks = 2
  LootTicks = 2
  ExtractTicks = 2
  SwapTicks = 2
INVARIANTS TypeOK ItemsAreConserved SwapIsAsChosen MinesFollowTheirOwner SquadsAreCapped ProgressIsEarned
