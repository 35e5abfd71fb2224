SPECIFICATION HSpec
CONSTANTS
  None = None
  o1 = o1
  o2 = o2
  m = m
  c1 = c1
  c2 = c2
  w1 = w1
  w2 = w2
  Outputs = {o1, o2}
  Radio = {o2}
  Direct = {}
  Forced = {o1}
  Amps <- OneAmp
  MaxAmps = 1
  Startup <- AllKeep
  Shutdown <- AllOff
  Configured = {o1, o2}
  Callers = {c1}
  Main = m
  OffThreads = {w1}
  Requests = {"on", "off"}
  Amounts = {0, 1}
  MinOffs = {0, 1}
  Faults = {}
  Overlap = FALSE
  MaxTime = 2
INVARIANTS   AmpLimit
PROPERTIES StaysOff
