SPECIFICATION Spec
CONSTANTS
  Dpids <- MCDpids
  Urls = {"/switches/info"}
  Bodies <- MCBodies
  IntHalf = 4
  DpidValues = 64
  MaxRequests = 0
  MaxReplies = 2
  MaxConnects = 1
  MaxHttp = 2
INVARIANTS
  CorrelatedUntilTimeout
  RequestNotTornUntilTimeout
PROPERTIES
  HttpReturns
  FlaggedIsHandled
CHECK_DEADLOCK FALSE
