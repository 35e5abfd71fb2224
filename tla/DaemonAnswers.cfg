SPECIFICATION FairSpec
CONSTANTS
  None = None
  i1 = i1
  i2 = i2
  m = m
  c1 = c1
  c2 = c2
  s1 = s1
  t1 = t1
  t2 = t2
  t3 = t3
  t4 = t4
  Ids = {i1, i2}
  Type <- InputAndPID
  Clients = {c1}
  Stoppers = {s1}
  Main = m
  Objects = {t1, t2}
  Requests = {"api"}
  Faults = {"crash", "input", "ended", "ends", "error"}
  Exclusion = "id"
INVARIANTS NoOrphan
PROPERTIES RequestsReturn
