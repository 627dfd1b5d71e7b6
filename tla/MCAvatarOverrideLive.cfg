SPECIFICATION FairSpec
CONSTANTS
  kMaxSlots = 2
  Sids = {a, b}
  NoSid = NoSid
  Sentinel = Sentinel
  Other = Other
  FreshTables <- MCTables
  MaxAdoptions = 2
  MaxAsks = 1
  MaxMoves = 1
INVARIANTS ReadsReachTheirBot
PROPERTIES RequestsApplied UnwantedCleared
