SPECIFICATION SpecRP
CONSTANTS
  Dpids <- MCDpids
  Urls = {"/switches/info", "/other"}
  Bodies <- MCBodies
  IntHalf = 4
  DpidValues = 64
  MaxRequests = 2
  MaxReplies = 2
  MaxConnects = 2
INVARIANTS
  OneResponsePerRequest
  PendingModifyArmed
  DpidsFollowConnections
PROPERTIES
  ModifyAnswered
CHECK_DEADLOCK FALSE
