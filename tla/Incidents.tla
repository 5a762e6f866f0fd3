------------------------------ MODULE Incidents -------------------------------
(***************************************************************************)
(* The incident life of the alerting component: AlertsEvaluatorService,    *)
(* whose cron fires every 30 seconds whether or not the previous           *)
(* evaluation is over, and PATCH /incidents/:id.  Both read a row, build a *)
(* new timeline from what they read and write the row back; every database *)
(* call is one action, and anything can happen between two of them.        *)
(*                                                                         *)
(* Whether a rule breaches (its expression, window and threshold against   *)
(* the stored logs) is one bit that the environment changes.  breachTicks  *)
(* is left out: the code writes it and never reads it.  resolvedAt is a    *)
(* function of the status and is left out too.                             *)
(* Operators whose names begin with Bad are seeded faults.                 *)
(***************************************************************************)
EXTENDS Naturals, Sequences, SequencesExt, FiniteSets

CONSTANTS
  Rules,         \* alert rules
  Ticks,         \* cron invocations of evaluate() that can be under way at once
  Requests,      \* PATCH requests; each is also the actor that sends it
  Actions,       \* the actions the requests ask for
  MaxIncidents,  \* bound: incidents ever created
  MaxChanges,    \* bound: changes of the logs and of the rules
  MaxFailures    \* bound: rejected queries of the evaluator

ASSUME IncidentsAssumption ==
  /\ Actions \subseteq {"acknowledge", "snooze", "resolve"}
  /\ "system" \notin Requests
  /\ IsFiniteSet(Ticks) /\ IsFiniteSet(Requests)
  /\ MaxIncidents \in Nat
  /\ MaxChanges \in Nat
  /\ MaxFailures \in Nat

VARIABLES
  breaching,   \* the rules whose condition holds on the stored logs
  enabled,     \* the rules with isEnabled
  changes,     \* bound counters: changes of the two above, and
  failures,    \* queries of the evaluator that were rejected
  incidents,   \* the Incident table, by creation
  fetching,    \* the ticks that wait for the list of enabled rules
  task,        \* evaluateRule() of each tick and rule
  request,     \* PATCH handlers
  audit,       \* requests with an audit row, and with a failure notice
  applied      \* history: requests whose update was committed

environment == <<breaching, enabled, changes>>
vars == <<environment, failures, incidents, fetching, task, request, audit, applied>>

OpenStatus == {"triggered", "acknowledged", "snoozed"}
StatusAfter ==
  [acknowledge |-> "acknowledged", snooze |-> "snoozed", resolve |-> "resolved"]

Entry == [actor : Requests \cup {"system"},
          action : Actions \cup {"triggered", "auto-resolved"}]
Incident == [rule : Rules, status : OpenStatus \cup {"resolved"},
             timeline : Seq(Entry) \ {<<>>}]

\* A local copy of a row that a handler read: which row, and its timeline.
Task    == [at : {"none", "count", "fire", "create", "clear", "update"},
            id : 0 .. MaxIncidents, seen : Seq(Entry)]
Request == [at : {"new", "update", "audit", "failed", "done"},
            action : Actions \cup {"none"},
            id : 0 .. MaxIncidents, seen : Seq(Entry)]

OpenOf(r) ==
  {i \in DOMAIN incidents :
     incidents[i].rule = r /\ incidents[i].status \in OpenStatus}

NoTask == [at |-> "none", id |-> 0, seen |-> <<>>]
Idle(t) == t \notin fetching /\ \A r \in Rules : task[t][r] = NoTask

TypeOK ==
  /\ breaching \subseteq Rules /\ enabled \subseteq Rules
  /\ changes \in 0 .. MaxChanges /\ failures \in 0 .. MaxFailures
  /\ incidents \in Seq(Incident) /\ Len(incidents) <= MaxIncidents
  /\ fetching \subseteq Ticks
  /\ task \in [Ticks -> [Rules -> Task]]
  /\ request \in [Requests -> Request]
  /\ audit \in [rows : SUBSET Requests, notices : SUBSET Requests]
  /\ applied \subseteq Requests

Init ==
  /\ breaching = {} /\ changes = 0 /\ failures = 0
  /\ enabled = Rules
  /\ incidents = <<>>
  /\ fetching = {}
  /\ task = [t \in Ticks |-> [r \in Rules |-> NoTask]]
  /\ request =
       [q \in Requests |-> [at |-> "new", action |-> "none", id |-> 0, seen |-> <<>>]]
  /\ audit = [rows |-> {}, notices |-> {}]
  /\ applied = {}

-----------------------------------------------------------------------------
(* The environment. *)

\* Log rows arrive or leave the window, or the rule's threshold is edited.
ConditionChanges(r) ==
  /\ changes < MaxChanges
  /\ breaching' = (breaching \ {r}) \cup ({r} \ breaching)
  /\ changes' = changes + 1
  /\ UNCHANGED <<enabled, failures, incidents, fetching, task, request, audit, applied>>

\* PATCH /alerts/rules/:id with isEnabled.
ToggleRule(r) ==
  /\ changes < MaxChanges
  /\ enabled' = (enabled \ {r}) \cup ({r} \ enabled)
  /\ changes' = changes + 1
  /\ UNCHANGED <<breaching, failures, incidents, fetching, task, request, audit, applied>>

-----------------------------------------------------------------------------
(* AlertsEvaluatorService.  The cron does not wait for an earlier tick.     *)

CronFires(t) ==
  /\ Idle(t)
  /\ fetching' = fetching \cup {t}
  /\ UNCHANGED <<environment, failures, incidents, task, request, audit, applied>>

\* Promise.all over the rules enabled now.
FetchRules(t) ==
  /\ t \in fetching
  /\ fetching' = fetching \ {t}
  /\ task' = [task EXCEPT ![t] =
       [r \in Rules |->
          IF r \in enabled THEN [NoTask EXCEPT !.at = "count"] ELSE NoTask]]
  /\ UNCHANGED <<environment, failures, incidents, request, audit, applied>>

\* The rule query is rejected: the tick is over.
FetchFails(t) ==
  /\ t \in fetching
  /\ failures < MaxFailures
  /\ failures' = failures + 1
  /\ fetching' = fetching \ {t}
  /\ UNCHANGED <<environment, incidents, task, request, audit, applied>>

GoTo(t, r, next) == task' = [task EXCEPT ![t][r] = next]
Finished(t, r)   == GoTo(t, r, NoTask)

CountLogs(t, r) ==
  /\ task[t][r].at = "count"
  /\ GoTo(t, r, [NoTask EXCEPT !.at = IF r \in breaching THEN "fire" ELSE "clear"])
  /\ UNCHANGED <<environment, failures, incidents, fetching, request, audit, applied>>

BadFindBeforeFire(t, r) ==
  /\ task[t][r].at = "fire"
  /\ GoTo(t, r, [NoTask EXCEPT !.at = "create"])
  /\ UNCHANGED <<environment, failures, incidents, fetching, request, audit, applied>>

BadFindAnyBeforeFire(t, r) ==
  /\ task[t][r].at = "fire"
  /\ IF \E i \in DOMAIN incidents : incidents[i].rule = r
       THEN Finished(t, r)
       ELSE GoTo(t, r, [NoTask EXCEPT !.at = "create"])
  /\ UNCHANGED <<environment, failures, incidents, fetching, request, audit, applied>>

\* The findFirst of maybeFireIncident().
FindBeforeFire(t, r) ==
  /\ task[t][r].at = "fire"
  /\ IF OpenOf(r) # {}
       THEN Finished(t, r)
       ELSE GoTo(t, r, [NoTask EXCEPT !.at = "create"])
  /\ UNCHANGED <<environment, failures, incidents, fetching, request, audit, applied>>

CreateIncident(t, r) ==
  /\ task[t][r].at = "create"
  /\ Len(incidents) < MaxIncidents
  /\ incidents' = Append(incidents,
       [rule |-> r, status |-> "triggered",
        timeline |-> <<[actor |-> "system", action |-> "triggered"]>>])
  /\ Finished(t, r)
  /\ UNCHANGED <<environment, failures, fetching, request, audit, applied>>

BadFindToResolve(t, r) ==
  /\ task[t][r].at = "clear"
  /\ \/ \E i \in {i \in OpenOf(r) : incidents[i].status = "triggered"} :
          GoTo(t, r, [at |-> "update", id |-> i, seen |-> incidents[i].timeline])
     \/ {i \in OpenOf(r) : incidents[i].status = "triggered"} = {} /\ Finished(t, r)
  /\ UNCHANGED <<environment, failures, incidents, fetching, request, audit, applied>>

\* The findFirst of maybeResolve(): any one open incident of the rule.
FindToResolve(t, r) ==
  /\ task[t][r].at = "clear"
  /\ \/ \E i \in OpenOf(r) :
          GoTo(t, r, [at |-> "update", id |-> i, seen |-> incidents[i].timeline])
     \/ OpenOf(r) = {} /\ Finished(t, r)
  /\ UNCHANGED <<environment, failures, incidents, fetching, request, audit, applied>>

\* The update of a row by a handler that read it before: it replaces the status,
\* and the timeline by the one read with an entry more.
WriteRow(id, status, seen, entry) ==
  incidents' = [incidents EXCEPT ![id] =
    [rule |-> @.rule, status |-> status, timeline |-> Append(seen, entry)]]

AutoResolve(t, r) ==
  /\ task[t][r].at = "update"
  /\ WriteRow(task[t][r].id, "resolved", task[t][r].seen,
              [actor |-> "system", action |-> "auto-resolved"])
  /\ Finished(t, r)
  /\ UNCHANGED <<environment, failures, fetching, request, audit, applied>>

\* A rejected query ends the evaluation of this rule in this tick.  One that is
\* rejected after it was committed leaves what CreateIncident or AutoResolve leaves.
EvaluationFails(t, r) ==
  /\ task[t][r] # NoTask
  /\ failures < MaxFailures
  /\ failures' = failures + 1
  /\ Finished(t, r)
  /\ UNCHANGED <<environment, incidents, fetching, request, audit, applied>>

-----------------------------------------------------------------------------
(* PATCH /incidents/:id, for a caller allowed to transition.                *)

FindIncident(q, id, action) ==
  /\ request[q].at = "new"
  /\ id \in DOMAIN incidents
  /\ request' = [request EXCEPT ![q] =
       [at |-> "update", action |-> action, id |-> id, seen |-> incidents[id].timeline]]
  /\ UNCHANGED <<environment, failures, incidents, fetching, task, audit, applied>>

BadUpdateCommits(q) ==
  /\ request[q].at = "update"
  /\ incidents' =
       [incidents EXCEPT ![request[q].id].status = StatusAfter[request[q].action]]
  /\ request' = [request EXCEPT ![q].at = "audit"]
  /\ applied' = applied \cup {q}
  /\ UNCHANGED <<environment, failures, fetching, task, audit>>

\* What the update does to the table: no condition on the present status.
Update(q) ==
  /\ WriteRow(request[q].id, StatusAfter[request[q].action], request[q].seen,
              [actor |-> q, action |-> request[q].action])
  /\ applied' = applied \cup {q}

UpdateCommits(q) ==
  /\ request[q].at = "update"
  /\ Update(q)
  /\ request' = [request EXCEPT ![q].at = "audit"]
  /\ UNCHANGED <<environment, failures, fetching, task, audit>>

\* A rejected update leaves transition() as a 500, before the audit.  It may have been
\* committed before the connection failed.
UpdateRejected(q) ==
  /\ request[q].at = "update"
  /\ Update(q) \/ UNCHANGED <<incidents, applied>>
  /\ request' = [request EXCEPT ![q].at = "failed"]
  /\ UNCHANGED <<environment, failures, fetching, task, audit>>

BadRecordAudit(q) ==
  /\ request[q].at = "audit"
  /\ request' = [request EXCEPT ![q].at = "done"]
  /\ audit' \in {audit, [audit EXCEPT !.rows = @ \cup {q}]}
  /\ UNCHANGED <<environment, failures, incidents, fetching, task, applied>>

\* AuditService.record(): a rejected insert leaves a notice on stderr, and a row too
\* if it was rejected after it was committed.
RecordAudit(q) ==
  /\ request[q].at = "audit"
  /\ request' = [request EXCEPT ![q].at = "done"]
  /\ \/ audit' = [audit EXCEPT !.rows = @ \cup {q}]
     \/ audit' = [audit EXCEPT !.notices = @ \cup {q}]
     \/ audit' = [rows |-> audit.rows \cup {q}, notices |-> audit.notices \cup {q}]
  /\ UNCHANGED <<environment, failures, incidents, fetching, task, applied>>

-----------------------------------------------------------------------------
EvaluateRule(t, r) ==
  \/ CountLogs(t, r)
  \/ FindBeforeFire(t, r)
  \/ CreateIncident(t, r)
  \/ FindToResolve(t, r)
  \/ AutoResolve(t, r)

HandleRequest(q) ==
  \/ \E id \in 1 .. MaxIncidents, a \in Actions : FindIncident(q, id, a)
  \/ UpdateCommits(q)
  \/ UpdateRejected(q)
  \/ RecordAudit(q)

Next ==
  \/ \E r \in Rules : ConditionChanges(r) \/ ToggleRule(r)
  \/ \E t \in Ticks : CronFires(t) \/ FetchRules(t) \/ FetchFails(t)
  \/ \E t \in Ticks, r \in Rules : EvaluateRule(t, r) \/ EvaluationFails(t, r)
  \/ \E q \in Requests : HandleRequest(q)

Spec == Init /\ [][Next]_vars

\* The cron keeps firing, and every query is answered; only finitely many of
\* them are rejected (MaxFailures).
Fairness ==
  \A t \in Ticks :
    /\ WF_vars(CronFires(t))
    /\ WF_vars(FetchRules(t))
    /\ \A r \in Rules : WF_vars(EvaluateRule(t, r))

FairSpec == Spec /\ Fairness
-----------------------------------------------------------------------------
\* "Aggregates per pattern - one open incident per rule at a time."
OneOpenIncidentPerRule ==
  \A i, j \in DOMAIN incidents :
    /\ incidents[i].rule = incidents[j].rule
    /\ incidents[i].status \in OpenStatus
    /\ incidents[j].status \in OpenStatus
    => i = j

\* What overlap can do at worst: each tick under way and each request that put
\* an incident back among the open ones accounts for at most one open incident,
\* or one about to be created.  With one tick at a time and requests that only
\* resolve, this is the line quoted above.
Creating(r)  == {t \in Ticks : task[t][r].at = "create"}
Reopeners    == {q \in applied : request[q].action # "resolve"}
OpenIncidentsBounded ==
  \A r \in Rules :
    Cardinality(OpenOf(r)) + Cardinality(Creating(r))
      <= Cardinality(Ticks) + Cardinality(Reopeners)

\* "Every transition is appended to the immutable timeline": no step drops or
\* changes an entry that was there.
TimelineIsImmutable ==
  [][\A i \in DOMAIN incidents :
       IsPrefix(incidents[i].timeline, incidents'[i].timeline)]_vars

\* However reads and writes interleave, the status a row shows is the one that
\* the last entry of its timeline says was set.
StatusMatchesTimeline ==
  \A i \in DOMAIN incidents :
    LET last == Last(incidents[i].timeline).action IN
    incidents[i].status =
      CASE last = "triggered" -> "triggered"
        [] last = "auto-resolved" -> "resolved"
        [] OTHER -> StatusAfter[last]

\* Audit, timelines and answers tell one story.  Only a committed transition has an
\* audit row, a notice that the row failed, or an entry in a timeline; one that was
\* answered has a row or a notice, even where a concurrent write dropped its entry; and
\* what has neither is on its way there, or was answered with a 500.
Audited == audit.rows \cup audit.notices
NamedIn(timeline) == {timeline[k].actor : k \in DOMAIN timeline} \cap Requests
AuditFollowsChanges ==
  /\ Audited \subseteq applied
  /\ \A i \in DOMAIN incidents : NamedIn(incidents[i].timeline) \subseteq applied
  /\ \A q \in Requests : request[q].at = "done" => q \in Audited
  /\ \A q \in applied \ Audited : request[q].at \in {"audit", "failed"}

\* A rule that stays enabled and breaching has an open incident again and again
\* (an operator may resolve it; a later tick opens another).
PersistentBreachIsOpen ==
  \A r \in Rules :
    <>[](r \in enabled /\ r \in breaching) => []<>(OpenOf(r) # {})

\* A rule that stays enabled and quiet ends up with no open incident, however
\* many overlapping ticks or re-opened incidents had left behind.
PersistentQuietIsClosed ==
  \A r \in Rules :
    <>[](r \in enabled /\ r \notin breaching) => <>[](OpenOf(r) = {})
==============================================================================
