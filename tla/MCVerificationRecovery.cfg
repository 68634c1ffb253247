SPECIFICATION LiveSpec
CONSTANTS
  w1 = w1  w2 = w2  r1 = r1  r2 = r2
  f1 = f1  f2 = f2  f3 = f3  f4 = f4  g1 = g1  g2 = g2  d1 = d1
  Workers = {w1, w2}
  Runs = {r1}
  Findings = {f1, f2}
  Groups = {g1, d1}
  GroupOf <- TwoSources
  Documents = {d1}
  Tooled = {g1}
  Known = {f1, f2}
  MaxAttempts = 2
  AwareTimes = TRUE
PROPERTY LostRunsRecover
CHECK_DEADLOCK FALSE
