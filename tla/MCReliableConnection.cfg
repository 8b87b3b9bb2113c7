SPECIFICATION SpecReliable
CONSTANTS
  backoff_limit = 11
  ProbeInterval = 2
PROPERTIES
  KeepsTrying
CHECK_DEADLOCK FALSE
