SPECIFICATION AllSpec
CONSTANTS
  n1 = n1  j1 = j1  j2 = j2  s1 = s1  s2 = s2  nmap = nmap  ping = ping
  Nodes = {n1}
  Rank <- OneRank
  Jobs = {j1, j2}
  Cancellable = {j1}
  Slots = {s1, s2}
  MaxConcurrency = 2
  MaxEvents = 1
  Steps = {nmap, ping}
  Long = {nmap}
  Limit = 1
  Attempts = 2
  Tries = 2
  MaxTrouble = 2
INVARIANTS RolesTypeOK  OneMonitoredTask
PROPERTIES NeverRevived KeepsCallPromise EveryCallEnds
CHECK_DEADLOCK FALSE
