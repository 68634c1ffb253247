SPECIFICATION QueueSpec
CONSTANTS
  Tasks = {t1, t2}
  Targets = {g1}
  NPhases = 1
  PhaseOf <- OnePhase
  Workers = {w1}
  NoWorker = NoWorker
  MaxAttempts = 1
  MaxSubs = 1
  Slots = {1}
INVARIANTS
  LastTaskCompletesPhase
CHECK_DEADLOCK FALSE
