SPECIFICATION AllSpec
CONSTANTS
  w1 = w1  w2 = w2  r1 = r1  r2 = r2
  f1 = f1  f2 = f2  f3 = f3  f4 = f4  g1 = g1  g2 = g2  d1 = d1
  Tasks = {t1}
  Targets = {a1}
  NPhases = 1
  PhaseOf <- FirstPhase
  Workers = {w1, w2}
  NoWorker = NoWorker
  MaxAttempts = 2
  MaxSubs = 2
  Slots = {1}
  Runs = {r1}
  Findings = {f1, f2, f3, f4}
  Groups = {g1, g2, d1}
  GroupOf <- AllSources
  Documents = {d1}
  Tooled = {g1}
  Known = {f1, f3, f4}
  AwareTimes = TRUE
PROPERTIES  RunsSettle
CHECK_DEADLOCK FALSE
