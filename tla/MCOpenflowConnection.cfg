SPECIFICATION MCSpec
CONSTANTS
  MaxSend = 2
  MaxPeer = 2
  Capacity = 3
  ProbeInterval = 2
  backoff_limit = 11
INVARIANTS
  FramingKept
  BackoffKept
PROPERTIES
  AcceptedIsSent
  SilentPeerDropped
  DropsOnlySilent
  UserServed
CHECK_DEADLOCK FALSE
