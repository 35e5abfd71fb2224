SPECIFICATION FairSpec
CONSTANTS
  None = None
  o1 = o1
  o2 = o2
  m = m
  c1 = c1
  c2 = c2
  w1 = w1
  w2 = w2
  Outputs = {o1}
  Radio = {}
  Direct = {}
  Forced = {}
  Amps <- OneAmp
  MaxAmps = 2
  Startup <- AllKeep
  Shutdown <- AllOff
  Configured = {o1}
  Callers = {c1}
  Main = m
  OffThreads = {w1, w2}
  Requests = {"on", "off"}
  Amounts = {0, 1}
  MinOffs = {0}
  Faults = {}
  Overlap = TRUE
  MaxTime = 3
INVARIANTS AutoOffArmed
PROPERTIES TimedOnEnds
