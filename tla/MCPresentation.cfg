SPECIFICATION Spec
CONSTANTS
  s1 = s1
  a = a
  b = b
  Slots <- MCSlots
  Fields <- MCFields
  Values <- MCValues
  NoValue = NoValue
  NoSnap = NoSnap
  NoController = NoController
  NoClan = NoClan
  MaxLives = 2
  MaxQueue = 2
INVARIANTS ClanIsGivenBack
PROPERTIES NoStaleWriteLast WantedIsPublished ClanReturns
