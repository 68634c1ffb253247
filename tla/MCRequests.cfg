SPECIFICATION AllSpec
CONSTANTS
  t1 = t1  t2 = t2  g1 = g1  g2 = g2  c1 = c1  k1 = k1  r1 = r1  d1 = d1  p1 = p1  q1 = q1  q2 = q2  v1 = v1  v2 = v2
  Tasks = {t1, t2}
  Targets = {a1}
  NPhases = 2
  PhaseOf <- PhasePerTask
  Workers = {w1}
  NoWorker = NoWorker
  MaxAttempts = 1
  MaxSubs = 1
  Slots = {1}
  TaskTypes = {"asset_discovery", "basic_vulnerability_scan", "basic_baseline_check", "basic_weak_password_scan", "basic_ssl_tls_scan", "crypto_network_communication_assessment", "vuln_scan", "web_scan", "db_check", "network_check", "windows_check"}
  Plans <- SingleSteps
  TechTools = {"scan_ssl", "baseline_check", "scan_weak_passwords"}
  MaxChanges = 1
  Generators = {g1, g2}
  Assistants = {g2}
  Checks = {c1}
  DocChecks = {k1}
  TechRetests = {r1}
  DocRetests = {d1}
  Promotions = {p1}
  MaxVersions = 2
  Reviews = {v1, v2}
  Contents = {x}
  Askers = {q1, q2}
  MaxFiles = 2
  MaxAnalyses = 3
  MaxAsks = 3
INVARIANTS RolesTypeOK  ReportStands RowsHaveFiles TaskStatusStands
PROPERTIES MigrationRestoresOrder
SYMMETRY MaterialsAreAlike
CHECK_DEADLOCK FALSE
