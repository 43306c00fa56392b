CONSTANTS
  Rest <- MCRest
  Sockets = {0, 1}
  OffDelay = 2
  PowerUpTicks = 3
  Reference = 2
  TicksPerSample = 6
SPECIFICATION Spec
CHECK_DEADLOCK FALSE
INVARIANT CpuAsConfigured
