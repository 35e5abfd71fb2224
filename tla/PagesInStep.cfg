SPECIFICATION Spec
CONSTANTS
  in1 = in1
  ma1 = ma1
  pid1 = pid1
  co1 = co1
  tr1 = tr1
  fu1 = fu1
  cu1 = cu1
  lcd1 = lcd1
  out1 = out1
  da1 = da1
  da2 = da2
  w1 = w1
  w2 = w2
  Ids = {in1, ma1, pid1, co1, tr1, fu1, cu1, lcd1, out1, da1, da2}
  Kind <- OfEachKind
  Default = da1
  Workers = {w1}
  Together <- Related
  MaxParts <- One
  ActionType = "output"
  ConditionType = "measurement"
  Overlap = FALSE
  StaleForms = FALSE
  Retarget = FALSE
  NoSource = NoSource
INVARIANTS  DaemonInStep SourceIsSampled 
