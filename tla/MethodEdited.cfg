SPECIFICATION Spec
CONSTANTS
  w1 = w1
  w2 = w2
  Types = {"Date", "Daily", "Duration", "DailySine", "DailyBezier"}
  MaxRows <- Few
  Times = {0, 1, 2, 3}
  Setpoints = {6, 12}
  Blank <- NoValue
  BlankForms = FALSE
  Breaks = FALSE
  Workers = {w1}
  Overlap = FALSE
INVARIANTS OrderIsTable SpansApart DrawnIsDone 
