SPECIFICATION Spec
CONSTANTS
  Prefix = {aaaa, bbbb, cccc}
  Offered = {aaaa, bbbb}
  NoPrefix = NoPrefix
  Node = {n1, n2}
  Heard = {241}
  MaxDag = 2
  MaxAddr = 2
  MaxRoute = 1
  MaxAsked = 2
  MaxTold = 1
  Restarts = 1
  Reboots = 1
INVARIANTS TypeOK RootKept InstanceKept
CHECK_DEADLOCK FALSE
PROPERTIES NewDagNewVersion RootWhileUndisturbed AgainAndAgainRoutes
