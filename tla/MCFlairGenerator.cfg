SPECIFICATION FairSpec
CONSTANTS
  Accounts = {1, 2}
  Invalid = 0
  NoRequest = NoRequest
  Torn = Torn
  NoFile = NoFile
  AccountOf <- MCAccountOf
  OldFlair <- MCOldFlair
  FlairOf <- MCFlairOf
  CheckpointEvery = 2
  MaxAttempts = 2
  MaxCmRetries = 1
  MaxRuns = 2
CHECK_DEADLOCK FALSE
INVARIANTS RightFlair LossBounded OneRequestAtATime
PROPERTIES ImplementsFile RunEnds
