SPECIFICATION FairSpec
CONSTANTS
  kMaxSlots = 2
  short = short
  other = other
  long = long
  Names <- MCNames
  CopyText <- MCCopyText
  NoClient = NoClient
  NoName = NoName
  MaxLives = 2
  MaxKicks = 2
INVARIANTS ClientsKeepController
PROPERTIES KickHitsTarget KickTakesEffect RemovalsSettle
