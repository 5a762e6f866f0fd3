CONSTANTS
  r1 = r1
  r2 = r2
  t1 = t1
  t2 = t2
  alice = alice
  bob = bob
  Rules = {r1}
  Ticks = {t1, t2}
  Requests = {alice}
  Actions = {"acknowledge", "snooze", "resolve"}
  MaxIncidents = 3
  MaxChanges = 2
  MaxFailures = 1
SPECIFICATION FairSpec
INVARIANTS
  StatusMatchesTimeline
  AuditFollowsChanges
  OpenIncidentsBounded
PROPERTIES
  PersistentBreachIsOpen
  PersistentQuietIsClosed
CHECK_DEADLOCK FALSE
