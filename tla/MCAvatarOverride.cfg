SPECIFICATION Spec
CONSTANTS
  kMaxSlots = 2
  Sids = {a, b, c}
  NoSid = NoSid
  Sentinel = Sentinel
  Other = Other
  FreshTables <- MCEmptyTable
  MaxAdoptions = 2
  MaxAsks = 2
  MaxMoves = 2
SYMMETRY SidSymmetry
INVARIANTS AvatarIsApplied OverridesOwned
