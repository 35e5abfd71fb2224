SPECIFICATION Spec
CONSTANTS
  f1 = f1
  f2 = f2
  p1 = p1
  o1 = o1
  Functions = {f1, f2}
  PIDs = {p1}
  Outputs = {o1}
  Actions <- SetAndStop
  HourlyMax = 2
  Pages = {f1, f2}
  Overlap = FALSE
INVARIANTS InStep MailLimit
PROPERTIES FunctionsEnd
