SPECIFICATION FairSpec
CONSTANTS
  Scopes <- MCScopes
  Services <- MCServices
  Messages = {m1}
  Root = "root"
  Trees <- MCTrees
  MaxKills = 1
INVARIANTS
  ServiceFailureSurfaces
  NoServiceOutlivesScope
  ServicesStopLast
  KilledTaskSparesLoop
  MessageRecorded
PROPERTIES
  CancelledScopesEnd
