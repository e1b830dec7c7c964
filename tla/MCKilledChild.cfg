SPECIFICATION Spec
CONSTANTS
  Scopes <- MCScopes
  Services <- MCServices
  Messages = {m1}
  Root = "root"
  Trees <- MCGroup
  MaxKills = 1
INVARIANTS
  KilledChildSparesSiblings
