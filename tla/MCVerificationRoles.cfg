SPECIFICATION AllSpec
CONSTANTS
  w1 = w1  w2 = w2  r1 = r1  r2 = r2
  f1 = f1  f2 = f2  f3 = f3  f4 = f4  g1 = g1  g2 = g2  d1 = d1
  Workers = {w1, w2}
  Runs = {r1, r2}
  Findings = {f1, f2}
  Groups = {g1, d1}
  GroupOf <- TwoSources
  Documents = {d1}
  Tooled = {g1}
  Known = {f1, f2}
  MaxAttempts = 2
  AwareTimes = TRUE
  u1 = u1  u2 = u2  u3 = u3  s1 = s1  n1 = n1  c1 = c1  c2 = c2
  Users = {u1, u2, u3}
  Templates = {s1, n1}
  Defaults = {s1}
  FullDefault = s1
  Grants <- AllGrants
  Projects = {p1}
  Callers = {c1, c2}
  MaxCalls = 3
  Types = {"dengbao", "miping"}
  Levels = {2, 3}
  Clients = {c1, c2}
  MaxOrders = 2
  Total = 2
SYMMETRY Symmetry
INVARIANTS RolesTypeOK  SettledIsCovered ClosedByRetest KeepsAnAdmin 
PROPERTIES SettledIsFinal 
CHECK_DEADLOCK FALSE
