SPECIFICATION AllSpec
CONSTANTS
  w1 = w1  w2 = w2  t1 = t1  s1 = s1  c1 = c1  c2 = c2  a1 = a1  m1 = m1
  web = web  gobuster = gobuster  ffuf = ffuf  x1 = x1  x2 = x2
  DocWorkers = {w1, w2}
  DocTasks = {t1}
  MaxRuns = 2
  MaxAttempts = 2
  MaxFaults = 1
  Scans = {s1}
  PlanLength = 2
  ScanLimit = 2
  TaskSlots = 2
  MaxRestarts = 1
  Schedules = {c1, c2}
  Archives = {a1}
  Summaries = {m1}
  PollLimit = 1
  MaxDays = 2
  MaxDeaths = 1
  MaxRequests = 1
  Top = web
  Subs = {gobuster, ffuf}
  Tasked = {web, ffuf}
  Retestable = {web, ffuf}
  Executions = {x1, x2}
  MaxBegins = 3
INVARIANTS RolesTypeOK NoStrandedTask
PROPERTIES StoppedNeverCompletes OneWorkerRunsEnd StepsOnce ScansEnd NothingForgotten ClosedOnEvidence SeenIsReported
CHECK_DEADLOCK FALSE
