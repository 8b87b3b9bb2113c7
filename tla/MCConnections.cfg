SPECIFICATION Spec
CONSTANTS
  Conns = {c1, c2}
  Dpids <- MCDpids
  None = None
  MaxPolls = 2
INVARIANTS
  MapIsOpenConns
  DeletedWhenUnused
PROPERTIES
  ImplementsPresence
  HandshakeEnds
  ClosedIsDeleted
CHECK_DEADLOCK FALSE
