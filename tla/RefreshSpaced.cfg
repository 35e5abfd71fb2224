SPECIFICATION TimedSpec
CONSTANTS
  Changing = Changing
  None = None
  p1 = p1
  p2 = p2
  v0 = v0
  v1 = v1
  Pages = {p1}
  Versions = {v0, v1}
  Faulty = {}
  Initial = v0
  Requests = {"refresh", "deactivate"}
  Spaced = TRUE
  Kinds = {"point", "span", "duration", "sun", "conditional"}
  Says <- Two
  Day = 3
  LastNow = 8
  Zone <- West
  Dark = {}
  Device = TRUE
INVARIANTS WaitedIsSafe UpToDate DueIsActed
PROPERTIES OncePerDue RequestsReturn
