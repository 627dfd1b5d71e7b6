SPECIFICATION Spec
CONSTANTS
  Slots = {s1, s2}
  NoClient = NoClient
  NoSnap = NoSnap
  MaxLives = 3
  MaxFrames = 2
SYMMETRY SlotSymmetry
INVARIANTS DisguiseMatchesMode PopulationSeesBots CountSeesBots UnmanagedUntouched
