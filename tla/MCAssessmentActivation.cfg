SPECIFICATION Spec
CONSTANTS
  t1 = t1
  t2 = t2
  Tasks = {t1, t2}
  Targets = {g1}
  NPhases = 2
  PhaseOf <- PhasePerTask
  Workers = {w1}
  NoWorker = NoWorker
  MaxAttempts = 1
  MaxSubs = 1
  Slots = {1}
PROPERTIES
  ActivationIsOrdered
