SPECIFICATION VerdictSpec
CONSTANTS
  TaskTypes = {"db_check"}
  Plans <- TwoSteps
  TechTools = {"scan_ssl", "baseline_check", "scan_weak_passwords"}
  MaxChanges = 1
INVARIANTS NotMistakenForClean
CHECK_DEADLOCK FALSE
