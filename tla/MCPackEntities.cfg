SPECIFICATION Spec
CONSTANTS
  t1 = t1
  t2 = t2
  s1 = s1
  s2 = s2
  e1 = e1
  e2 = e2
  Threads <- MCThreads
  GameThread = t1
  Slots <- MCSlots
  Entities <- MCEntities
  NoThread = NoThread
  NoHandle = NoHandle
  NoPawn = NoPawn
  MaxSerials = 3
  MaxDepth = 2
SYMMETRY MCSymmetry
INVARIANTS PackedWithoutFlag FlagReturned NoPackDuringScript
