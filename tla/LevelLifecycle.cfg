SPECIFICATION Spec
CONSTANTS
  Servers = {s1, s2, s3}
  NoServer = NoServer
\* A failed Load ends the plugin.
CHECK_DEADLOCK FALSE
INVARIANTS PlayerIsHooked ModeFollowsChoice FailedLoadHoldsNothing
PROPERTIES ChangeLevelRestores
