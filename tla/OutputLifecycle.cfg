SPECIFICATION FairSpec
CONSTANTS
  None = None
  o1 = o1
  o2 = o2
  m = m
  c1 = c1
  c2 = c2
  w1 = w1
  w2 = w2
  Outputs = {o1}
  Radio = {o1}
  Direct = {}
  Forced = {}
  Amps <- OneAmp
  MaxAmps = 2
  Startup <- AllOn
  Shutdown <- AllOff
  Configured = {o1}
  Callers = {c1, c2}
  Main = m
  OffThreads = {w1}
  Requests = {"on", "off", "modify", "delete", "stop"}
  Amounts = {None, 1}
  MinOffs = {0}
  Faults = {"radio", "setup"}
  Overlap = TRUE
  MaxTime = 0
PROPERTIES  StartAndStopEnd
