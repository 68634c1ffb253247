SPECIFICATION QueueSpec
CONSTANTS
  Tasks = {t1}
  Targets = {g1}
  NPhases = 1
  PhaseOf <- OnePhase
  Workers = {w1, w2}
  NoWorker = NoWorker
  MaxAttempts = 1
  MaxSubs = 2
  Slots = {1}
SYMMETRY WorkerSymmetry
PROPERTIES
  RetryIsSafe
CHECK_DEADLOCK FALSE
