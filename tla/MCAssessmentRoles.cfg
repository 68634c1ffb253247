SPECIFICATION AllSpec
CONSTANTS
  Tasks = {t1}
  Targets = {g1}
  NPhases = 1
  PhaseOf <- OnePhase
  Workers = {w1, w2}
  NoWorker = NoWorker
  MaxAttempts = 2
  MaxSubs = 2
  Slots = {1}
  Points = {p1, p2}
  Papers = {d1, d2}
  MaxTries = 2
  c2 = c2
  a2 = a2
  Threads = {h0, h1}
  Default = h0
  Archives = {a1, a2}
  Callers = {q1, c2}
  Segment = 2
  MaxMessages = 4
  MaxSummaries = 2
  MaxEvents = 1
SYMMETRY AllSymmetry
INVARIANTS RolesTypeOK  CommitsHold  ResultsUnmixed  LatestVerdictStands NoMessageForgotten
PROPERTIES ClosedOnProof
