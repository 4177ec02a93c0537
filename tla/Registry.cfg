\* Heartbeats of two workers, crashes and expiries; a worker stops for good.
SPECIFICATION FairSpec
CONSTANTS
  None = None
  Workers = {w1, w2}
  Conns = {c1, c2, c3}
  heartbeatTTL = 2
  MaxDelay = 1
  MaxFaults = 1
INVARIANTS TypeOK ForeverOnlyByFault StatusFresh
PROPERTY SilentWorkerForgotten
