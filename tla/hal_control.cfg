SPECIFICATION FairSpec
CONSTANTS
  Config <- ConfigInstance
  Installed <- InstalledInstance
  Joining <- JoiningInstance
  Bulky <- BulkyInstance
  Modes = {NORMAL, INJECTION}
  NORMAL = NORMAL
INVARIANTS
  RoutesHome
  DirectFlagsOwned
  ModesAgree
  TableMatchesFramework
PROPERTIES
  InitializeReturns
CHECK_DEADLOCK FALSE
