CONSTANTS
  r1 = r1
  r2 = r2
  t1 = t1
  t2 = t2
  alice = alice
  bob = bob
  Rules = {r1}
  Ticks = {t1, t2}
  Requests = {}
  Actions = {}
  MaxIncidents = 2
  MaxChanges = 1
  MaxFailures = 1
SPECIFICATION Spec
INVARIANT OneOpenIncidentPerRule
CHECK_DEADLOCK FALSE
