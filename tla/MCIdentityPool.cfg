SPECIFICATION FairSpec
CONSTANTS
  e1 = e1
  e2 = e2
  i1 = i1
  i2 = i2
  i3 = i3
  n1 = n1
  n2 = n2
  kMaxSlots = 3
  Entries = {e1, e2}
  SteamIds = {i1, i2, i3}
  SidOf <- MCSidOf
  Names = {n1, n2}
  NameOf <- MCNameOf
  NoEntry = NoEntry
  NoSid = NoSid
  NoClient = NoClient
  ClockSeed = 3
  IncMax = 3
  MaxAdoptions = 2
INVARIANTS LeasesConsistent ManagedSidsDistinct SteamIdsAgree
PROPERTIES FreshIncarnations ClashOnlyByHuman ImplementsLease HltvReleased
