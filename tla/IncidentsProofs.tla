---------------------------- MODULE IncidentsProofs ----------------------------
(***************************************************************************)
(* Theorems about Incidents for every set of rules, every finite number of *)
(* overlapping ticks and of requests, and every bound.                     *)
(***************************************************************************)
EXTENDS Incidents, SequenceTheorems, FiniteSetTheorems, TLAPS

\* A handler that has read a row knows a row that exists (rows are never
\* deleted), and a request past its read asks for one of the allowed actions.
Pending ==
  /\ \A t \in Ticks, r \in Rules :
       task[t][r].at = "update" => task[t][r].id \in DOMAIN incidents
  /\ \A q \in Requests :
       request[q].at # "new" =>
         request[q].id \in DOMAIN incidents /\ request[q].action \in Actions

TInv == TypeOK /\ Pending

\* Appending and replacing rows of the Incident table.
LEMMA TableProperties ==
  ASSUME NEW s \in Seq(Incident), NEW e \in Incident, NEW i \in DOMAIN s
  PROVE  /\ Append(s, e) \in Seq(Incident)
         /\ Len(Append(s, e)) = Len(s) + 1
         /\ [s EXCEPT ![i] = e] \in Seq(Incident)
         /\ Len([s EXCEPT ![i] = e]) = Len(s)
         /\ DOMAIN [s EXCEPT ![i] = e] = DOMAIN s
BY AppendProperties, ExceptSeq, LenProperties

LEMMA InitTInv == ASSUME Init PROVE TInv
<1>1. /\ incidents \in Seq(Incident) /\ Len(incidents) = 0
      /\ <<>> \in Seq(Entry)
  BY EmptySeq DEF Init
<1>2. TypeOK
  BY <1>1, IncidentsAssumption DEF Init, TypeOK, NoTask, Task, Request
<1>3. Pending
  BY DEF Init, Pending, NoTask
<1>. QED BY <1>2, <1>3 DEF TInv

\* The step of one rule's evaluation, and of one request.
LEMMA GoToProperties ==
  ASSUME TypeOK, NEW t \in Ticks, NEW r \in Rules, NEW next \in Task,
         GoTo(t, r, next)
  PROVE  /\ task' \in [Ticks -> [Rules -> Task]]
         /\ task'[t][r] = next
         /\ \A u \in Ticks, s \in Rules :
              u # t \/ s # r => task'[u][s] = task[u][s]
BY DEF TypeOK, GoTo

LEMMA NoTaskIsTask == NoTask \in Task
BY EmptySeq, IncidentsAssumption DEF NoTask, Task

\* Steps that leave the table and the requests alone.
LEMMA TaskStep ==
  ASSUME TInv, NEW t \in Ticks, NEW r \in Rules, NEW next \in Task,
         GoTo(t, r, next),
         next.at = "update" => next.id \in DOMAIN incidents,
         failures' \in 0 .. MaxFailures,
         UNCHANGED <<environment, incidents, fetching, request, audit, applied>>
  PROVE  TInv'
<1>1. TypeOK'
  BY GoToProperties DEF TInv, TypeOK, environment
<1>2. Pending'
  BY GoToProperties DEF TInv, Pending
<1>. QED BY <1>1, <1>2 DEF TInv

LEMMA EnvironmentKeepsTInv ==
  ASSUME TInv, NEW r \in Rules, ConditionChanges(r) \/ ToggleRule(r)
  PROVE  TInv'
<1>1. /\ breaching' \subseteq Rules /\ enabled' \subseteq Rules
      /\ changes' \in 0 .. MaxChanges
  BY IncidentsAssumption DEF TInv, TypeOK, ConditionChanges, ToggleRule
<1>2. UNCHANGED <<failures, incidents, fetching, task, request, audit, applied>>
  BY DEF ConditionChanges, ToggleRule
<1>3. TypeOK'
  BY <1>1, <1>2 DEF TInv, TypeOK
<1>4. Pending'
  BY <1>2 DEF TInv, Pending
<1>. QED BY <1>3, <1>4 DEF TInv

LEMMA FetchKeepsTInv ==
  ASSUME TInv, NEW t \in Ticks, CronFires(t) \/ FetchRules(t) \/ FetchFails(t)
  PROVE  TInv'
<1>1. /\ fetching' \subseteq Ticks
      /\ failures' \in 0 .. MaxFailures
      /\ UNCHANGED <<breaching, enabled, changes, incidents, request, audit, applied>>
  BY IncidentsAssumption
     DEF TInv, TypeOK, CronFires, FetchRules, FetchFails, environment
<1>2. /\ task' \in [Ticks -> [Rules -> Task]]
      /\ \A u \in Ticks, r \in Rules :
           task'[u][r].at = "update" => task'[u][r] = task[u][r]
  <2>1. CASE FetchRules(t)
    <3>1. [NoTask EXCEPT !.at = "count"] \in Task /\ NoTask \in Task
      BY NoTaskIsTask DEF NoTask, Task
    <3>2. task' = [task EXCEPT ![t] =
                     [r \in Rules |->
                        IF r \in enabled THEN [NoTask EXCEPT !.at = "count"]
                        ELSE NoTask]]
      BY <2>1 DEF FetchRules
    <3>3. task' \in [Ticks -> [Rules -> Task]]
      BY <3>1, <3>2 DEF TInv, TypeOK
    <3>4. ASSUME NEW u \in Ticks, NEW r \in Rules
          PROVE  task'[u][r].at = "update" => task'[u][r] = task[u][r]
      BY <3>2 DEF TInv, TypeOK, NoTask
    <3>. QED BY <3>3, <3>4
  <2>2. CASE CronFires(t) \/ FetchFails(t)
    BY <2>2 DEF TInv, TypeOK, CronFires, FetchFails
  <2>. QED BY <2>1, <2>2
<1>3. TypeOK'
  BY <1>1, <1>2 DEF TInv, TypeOK
<1>4. Pending'
  BY <1>1, <1>2 DEF TInv, Pending
<1>. QED BY <1>3, <1>4 DEF TInv

LEMMA CountKeepsTInv ==
  ASSUME TInv, NEW t \in Ticks, NEW r \in Rules,
         CountLogs(t, r) \/ EvaluationFails(t, r)
  PROVE  TInv'
<1>1. CASE CountLogs(t, r)
  <2> DEFINE next == [NoTask EXCEPT !.at = IF r \in breaching THEN "fire" ELSE "clear"]
  <2>1. next \in Task /\ next.at # "update"
    BY NoTaskIsTask DEF NoTask, Task
  <2>2. GoTo(t, r, next) /\ failures' \in 0 .. MaxFailures
    BY <1>1 DEF CountLogs, TInv, TypeOK
  <2>. QED BY <1>1, <2>1, <2>2, TaskStep DEF CountLogs
<1>2. CASE EvaluationFails(t, r)
  <2>1. GoTo(t, r, NoTask) /\ failures' \in 0 .. MaxFailures
    BY <1>2, IncidentsAssumption DEF EvaluationFails, Finished, TInv, TypeOK
  <2>2. NoTask.at # "update"
    BY DEF NoTask
  <2>. QED BY <1>2, <2>1, <2>2, TaskStep, NoTaskIsTask DEF EvaluationFails
<1>. QED BY <1>1, <1>2

LEMMA FindKeepsTInv ==
  ASSUME TInv, NEW t \in Ticks, NEW r \in Rules,
         FindBeforeFire(t, r) \/ FindToResolve(t, r)
  PROVE  TInv'
<1>0. NoTask \in Task /\ NoTask.at # "update" /\ failures \in 0 .. MaxFailures
  BY NoTaskIsTask DEF NoTask, TInv, TypeOK
<1>1. CASE FindBeforeFire(t, r)
  <2> DEFINE next == [NoTask EXCEPT !.at = "create"]
  <2>1. next \in Task /\ next.at # "update"
    BY NoTaskIsTask DEF NoTask, Task
  <2>2. GoTo(t, r, NoTask) \/ GoTo(t, r, next)
    BY <1>1 DEF FindBeforeFire, Finished
  <2>. QED BY <1>0, <1>1, <2>1, <2>2, TaskStep DEF FindBeforeFire
<1>2. CASE FindToResolve(t, r)
  <2>1. CASE Finished(t, r)
    BY <1>0, <1>2, <2>1, TaskStep DEF FindToResolve, Finished
  <2>2. CASE \E i \in OpenOf(r) :
               GoTo(t, r, [at |-> "update", id |-> i, seen |-> incidents[i].timeline])
    <3>1. PICK i \in OpenOf(r) :
            GoTo(t, r, [at |-> "update", id |-> i, seen |-> incidents[i].timeline])
      BY <2>2
    <3> DEFINE next == [at |-> "update", id |-> i, seen |-> incidents[i].timeline]
    <3>2. i \in DOMAIN incidents /\ incidents[i] \in Incident
      BY ElementOfSeq DEF OpenOf, TInv, TypeOK
    <3>3. i \in 0 .. MaxIncidents
      BY <3>2, LenProperties, IncidentsAssumption DEF TInv, TypeOK
    <3>4. next \in Task /\ next.at = "update" /\ next.id \in DOMAIN incidents
      BY <3>2, <3>3 DEF Task, Incident
    <3>. QED BY <1>0, <1>2, <3>1, <3>4, TaskStep DEF FindToResolve
  <2>. QED BY <1>2, <2>1, <2>2 DEF FindToResolve
<1>. QED BY <1>1, <1>2

\* What the three actions that write the table do to it.
LEMMA CreateProperties ==
  ASSUME TInv, NEW t \in Ticks, NEW r \in Rules, CreateIncident(t, r)
  PROVE  /\ incidents' \in Seq(Incident)
         /\ Len(incidents') = Len(incidents) + 1
         /\ Len(incidents') <= MaxIncidents
         /\ DOMAIN incidents' = 1 .. (Len(incidents) + 1)
         /\ DOMAIN incidents = 1 .. Len(incidents)
         /\ incidents'[Len(incidents) + 1] =
              [rule |-> r, status |-> "triggered",
               timeline |-> <<[actor |-> "system", action |-> "triggered"]>>]
         /\ \A i \in DOMAIN incidents : incidents'[i] = incidents[i]
<1> DEFINE e == [actor |-> "system", action |-> "triggered"]
           row == [rule |-> r, status |-> "triggered", timeline |-> <<e>>]
<1>1. e \in Entry
  BY DEF Entry
<1>2. <<e>> \in Seq(Entry) \ {<<>>}
  BY <1>1
<1>3. row \in Incident
  BY <1>2 DEF Incident, OpenStatus
<1> HIDE DEF e, row
<1>4. incidents \in Seq(Incident) /\ incidents' = Append(incidents, row)
  BY DEF TInv, TypeOK, CreateIncident, row, e
<1>5. /\ incidents' \in Seq(Incident)
      /\ Len(incidents') = Len(incidents) + 1
      /\ \A i \in 1 .. Len(incidents) : incidents'[i] = incidents[i]
      /\ incidents'[Len(incidents) + 1] = row
  BY <1>3, <1>4, AppendProperties
<1>6. Len(incidents) < MaxIncidents /\ Len(incidents) \in Nat
  BY <1>4, LenProperties DEF CreateIncident
<1>7. DOMAIN incidents' = 1 .. Len(incidents') /\ DOMAIN incidents = 1 .. Len(incidents)
  BY <1>4, <1>5, LenProperties
<1>. QED BY <1>5, <1>6, <1>7, IncidentsAssumption DEF row, e

\* What a write does to the row and to the others.
LEMMA WriteProperties ==
  ASSUME TInv, NEW id \in DOMAIN incidents,
         NEW status \in OpenStatus \cup {"resolved"},
         NEW seen \in Seq(Entry), NEW entry \in Entry,
         WriteRow(id, status, seen, entry)
  PROVE  /\ incidents' \in Seq(Incident)
         /\ Len(incidents') = Len(incidents)
         /\ DOMAIN incidents' = DOMAIN incidents
         /\ incidents'[id] = [rule |-> incidents[id].rule, status |-> status,
                              timeline |-> Append(seen, entry)]
         /\ \A i \in DOMAIN incidents : i # id => incidents'[i] = incidents[i]
<1>1. incidents \in Seq(Incident) /\ incidents[id] \in Incident
  BY ElementOfSeq DEF TInv, TypeOK
<1>2. Append(seen, entry) \in Seq(Entry) \ {<<>>}
  BY AppendProperties
<1> DEFINE row == [rule |-> incidents[id].rule, status |-> status,
                   timeline |-> Append(seen, entry)]
<1>3. row \in Incident
  BY <1>1, <1>2 DEF Incident
<1>4. incidents' = [incidents EXCEPT ![id] = row]
  BY DEF WriteRow
<1> HIDE DEF row
<1>5. /\ incidents' \in Seq(Incident)
      /\ Len(incidents') = Len(incidents)
      /\ incidents'[id] = row
      /\ \A i \in DOMAIN incidents : i # id => incidents'[i] = incidents[i]
  BY <1>1, <1>3, <1>4, ExceptSeq, LenProperties
<1>6. DOMAIN incidents' = DOMAIN incidents
  BY <1>4
<1>. QED BY <1>3, <1>5, <1>6 DEF row

LEMMA CreateKeepsTInv ==
  ASSUME TInv, NEW t \in Ticks, NEW r \in Rules, CreateIncident(t, r)
  PROVE  TInv'
<1>1. GoTo(t, r, NoTask) /\ NoTask \in Task /\ NoTask.at # "update"
  BY NoTaskIsTask DEF CreateIncident, Finished, NoTask
<1>2. UNCHANGED <<breaching, enabled, changes, failures, fetching, request, audit, applied>>
  BY DEF CreateIncident, environment
<1>3. TypeOK'
  BY <1>1, <1>2, GoToProperties, CreateProperties DEF TInv, TypeOK
<1>4. DOMAIN incidents \subseteq DOMAIN incidents'
  <2>1. /\ DOMAIN incidents' = 1 .. (Len(incidents) + 1)
        /\ DOMAIN incidents = 1 .. Len(incidents)
    BY CreateProperties
  <2>2. Len(incidents) \in Nat
    BY LenProperties DEF TInv, TypeOK
  <2>. QED BY <2>1, <2>2
<1>5. Pending'
  BY <1>1, <1>2, <1>4, GoToProperties DEF TInv, Pending
<1>. QED BY <1>3, <1>5 DEF TInv

\* maybeResolve() writes a resolved row.
LEMMA AutoResolveWrites ==
  ASSUME TInv, NEW t \in Ticks, NEW r \in Rules, AutoResolve(t, r)
  PROVE  /\ task[t][r].id \in DOMAIN incidents
         /\ task[t][r].seen \in Seq(Entry)
         /\ [actor |-> "system", action |-> "auto-resolved"] \in Entry
         /\ WriteRow(task[t][r].id, "resolved", task[t][r].seen,
                   [actor |-> "system", action |-> "auto-resolved"])
<1>1. task[t][r].id \in DOMAIN incidents
  BY DEF AutoResolve, TInv, Pending
<1>2. task[t][r].seen \in Seq(Entry)
  BY DEF TInv, TypeOK, Task
<1>. QED BY <1>1, <1>2 DEF AutoResolve, Entry

LEMMA AutoResolveKeepsTInv ==
  ASSUME TInv, NEW t \in Ticks, NEW r \in Rules, AutoResolve(t, r)
  PROVE  TInv'
<1>1. GoTo(t, r, NoTask) /\ NoTask \in Task /\ NoTask.at # "update"
  BY NoTaskIsTask DEF AutoResolve, Finished, NoTask
<1>2. UNCHANGED <<breaching, enabled, changes, failures, fetching, request, audit, applied>>
  BY DEF AutoResolve, environment
<1>3. /\ incidents' \in Seq(Incident)
      /\ Len(incidents') = Len(incidents)
      /\ DOMAIN incidents' = DOMAIN incidents
  BY AutoResolveWrites, WriteProperties
<1>4. TypeOK'
  BY <1>1, <1>2, <1>3, GoToProperties DEF TInv, TypeOK
<1>5. Pending'
  BY <1>1, <1>2, <1>3, GoToProperties DEF TInv, Pending
<1>. QED BY <1>4, <1>5 DEF TInv

\* The write of a request, whether or not it is answered.
LEMMA UpdateWrites ==
  ASSUME TInv, NEW q \in Requests, request[q].at = "update", Update(q)
  PROVE  /\ request[q].id \in DOMAIN incidents
         /\ request[q].action \in Actions
         /\ request[q].seen \in Seq(Entry)
         /\ StatusAfter[request[q].action] \in OpenStatus \cup {"resolved"}
         /\ [actor |-> q, action |-> request[q].action] \in Entry
         /\ WriteRow(request[q].id, StatusAfter[request[q].action], request[q].seen,
                   [actor |-> q, action |-> request[q].action])
<1>1. request[q].id \in DOMAIN incidents /\ request[q].action \in Actions
  BY DEF TInv, Pending
<1>2. request[q].seen \in Seq(Entry)
  BY DEF TInv, TypeOK, Request
<1>3. StatusAfter[request[q].action] \in OpenStatus \cup {"resolved"}
  <2>1. /\ StatusAfter["acknowledge"] = "acknowledged"
        /\ StatusAfter["snooze"] = "snoozed"
        /\ StatusAfter["resolve"] = "resolved"
    BY DEF StatusAfter
  <2>2. request[q].action \in {"acknowledge", "snooze", "resolve"}
    BY <1>1, IncidentsAssumption
  <2>3. CASE request[q].action = "acknowledge"
    BY <2>1, <2>3 DEF OpenStatus
  <2>4. CASE request[q].action = "snooze"
    BY <2>1, <2>4 DEF OpenStatus
  <2>5. CASE request[q].action = "resolve"
    BY <2>1, <2>5
  <2>. QED BY <2>2, <2>3, <2>4, <2>5
<1>4. [actor |-> q, action |-> request[q].action] \in Entry
  BY <1>1 DEF Entry
<1>. QED BY <1>1, <1>2, <1>3, <1>4 DEF Update

\* A request only moves forward; the others stay where they are.
LEMMA RequestStep ==
  ASSUME TInv, NEW q \in Requests,
         HandleRequest(q)
  PROVE  /\ request' \in [Requests -> Request]
         /\ \A p \in Requests : p # q => request'[p] = request[p]
         /\ request'[q].id \in DOMAIN incidents
         /\ request'[q].action \in Actions
         /\ request[q].at # "new" => request'[q].action = request[q].action
         /\ UNCHANGED <<environment, failures, fetching, task>>
<1>1. CASE \E id \in 1 .. MaxIncidents, a \in Actions : FindIncident(q, id, a)
  <2>1. PICK id \in 1 .. MaxIncidents, a \in Actions : FindIncident(q, id, a)
    BY <1>1
  <2> DEFINE next == [at |-> "update", action |-> a, id |-> id,
                      seen |-> incidents[id].timeline]
  <2>2. id \in DOMAIN incidents /\ request' = [request EXCEPT ![q] = next]
        /\ request[q].at = "new"
    BY <2>1 DEF FindIncident
  <2>3. incidents[id] \in Incident
    BY <2>2, ElementOfSeq DEF TInv, TypeOK
  <2>4. next \in Request
    BY <2>3, IncidentsAssumption DEF Request, Incident
  <2>. QED BY <2>1, <2>2, <2>4 DEF TInv, TypeOK, FindIncident
<1>2. ASSUME NEW next \in {"audit", "failed", "done"}, request[q].at # "new",
             request' = [request EXCEPT ![q].at = next]
      PROVE  /\ request' \in [Requests -> Request]
             /\ \A p \in Requests : p # q => request'[p] = request[p]
             /\ request'[q].id \in DOMAIN incidents
             /\ request'[q].action \in Actions
             /\ request'[q].action = request[q].action
  <2>1. request[q] \in Request
    BY DEF TInv, TypeOK
  <2>2. [request[q] EXCEPT !.at = next] \in Request
    BY <2>1 DEF Request
  <2>3. request[q].id \in DOMAIN incidents /\ request[q].action \in Actions
    BY <1>2 DEF TInv, Pending
  <2>. QED BY <1>2, <2>1, <2>2, <2>3 DEF TInv, TypeOK
<1>3. CASE UpdateCommits(q)
  BY <1>2, <1>3 DEF UpdateCommits
<1>4. CASE UpdateRejected(q)
  BY <1>2, <1>4 DEF UpdateRejected
<1>5. CASE RecordAudit(q)
  BY <1>2, <1>5 DEF RecordAudit
<1>. QED BY <1>1, <1>3, <1>4, <1>5 DEF HandleRequest

\* No request changes which rows there are.
LEMMA RequestTable ==
  ASSUME TInv, NEW q \in Requests, HandleRequest(q)
  PROVE  /\ incidents' \in Seq(Incident)
         /\ Len(incidents') = Len(incidents)
         /\ DOMAIN incidents' = DOMAIN incidents
<1>1. CASE incidents' = incidents
  BY <1>1 DEF TInv, TypeOK
<1>2. CASE request[q].at = "update" /\ Update(q)
  BY <1>2, UpdateWrites, WriteProperties
<1>. QED
  BY <1>1, <1>2 DEF HandleRequest, FindIncident, UpdateCommits, UpdateRejected, RecordAudit

LEMMA RequestKeepsTInv ==
  ASSUME TInv, NEW q \in Requests, HandleRequest(q)
  PROVE  TInv'
<1>1. /\ audit' \in [rows : SUBSET Requests, notices : SUBSET Requests]
      /\ applied' \subseteq Requests
  BY DEF HandleRequest, FindIncident, UpdateCommits, UpdateRejected, Update, RecordAudit,
         TInv, TypeOK
<1>2. TypeOK'
  BY <1>1, RequestStep, RequestTable DEF TInv, TypeOK, environment
<1>3. Pending'
  BY RequestStep, RequestTable DEF TInv, Pending
<1>. QED BY <1>2, <1>3 DEF TInv

LEMMA NextKeepsTInv == TInv /\ [Next]_vars => TInv'
<1> SUFFICES ASSUME TInv, [Next]_vars PROVE TInv'
  OBVIOUS
<1>1. CASE \E r \in Rules : ConditionChanges(r) \/ ToggleRule(r)
  BY <1>1, EnvironmentKeepsTInv
<1>2. CASE \E t \in Ticks : CronFires(t) \/ FetchRules(t) \/ FetchFails(t)
  BY <1>2, FetchKeepsTInv
<1>3. CASE \E t \in Ticks, r \in Rules : EvaluateRule(t, r) \/ EvaluationFails(t, r)
  BY <1>3, CountKeepsTInv, FindKeepsTInv, CreateKeepsTInv, AutoResolveKeepsTInv
     DEF EvaluateRule
<1>4. CASE \E q \in Requests :
             HandleRequest(q)
  BY <1>4, RequestKeepsTInv
<1>5. CASE UNCHANGED vars
  BY <1>5 DEF vars, environment, TInv, TypeOK, Pending
<1>. QED BY <1>1, <1>2, <1>3, <1>4, <1>5 DEF Next

\* The variables keep their types, and handlers only write rows that exist.
THEOREM IncidentsTypeCorrect == Spec => []TypeOK
<1>1. Init => TInv
  BY InitTInv
<1>2. TInv => TypeOK
  BY DEF TInv
<1>. QED BY <1>1, <1>2, NextKeepsTInv, PTL DEF Spec

-----------------------------------------------------------------------------
(* The audit trail. *)

\* A committed transition was written, answered or not; what is audited is answered.
AuditSteps ==
  /\ Audited \subseteq applied
  /\ \A q \in Requests : request[q].at = "done" => q \in Audited
  /\ \A q \in Requests : request[q].at \in {"audit", "done"} => q \in applied
  /\ \A q \in applied : request[q].at \in {"audit", "failed"} \/ q \in Audited
  /\ \A q \in applied : request[q].at \in {"audit", "failed", "done"}

\* The copies that handlers hold name no more than the table does.
NamesWithin(timeline, S) ==
  \A k \in DOMAIN timeline : timeline[k].actor \in Requests => timeline[k].actor \in S
OnlyApplied(timeline) == NamesWithin(timeline, applied)
AuditNames ==
  /\ \A i \in DOMAIN incidents : OnlyApplied(incidents[i].timeline)
  /\ \A t \in Ticks, r \in Rules : OnlyApplied(task[t][r].seen)
  /\ \A q \in Requests : OnlyApplied(request[q].seen)

AInv == TInv /\ AuditSteps /\ AuditNames

LEMMA AInvIsEnough == AInv => AuditFollowsChanges
BY DEF AInv, AuditSteps, AuditNames, OnlyApplied, NamesWithin, AuditFollowsChanges, Audited,
       NamedIn

\* The steps of a request, but for the names in the table.
LEMMA RequestKeepsAudit ==
  ASSUME AInv, NEW q \in Requests, HandleRequest(q)
  PROVE  AuditSteps'
<1>0. /\ request \in [Requests -> Request] /\ applied \subseteq Requests
      /\ audit \in [rows : SUBSET Requests, notices : SUBSET Requests]
      /\ AuditSteps
  BY DEF AInv, TInv, TypeOK
<1>1. CASE \E id \in 1 .. MaxIncidents, a \in Actions : FindIncident(q, id, a)
  BY <1>0, <1>1 DEF FindIncident, AuditSteps, Audited
<1>2. CASE UpdateCommits(q)
  BY <1>0, <1>2 DEF UpdateCommits, Update, AuditSteps, Audited
<1>3. CASE UpdateRejected(q)
  BY <1>0, <1>3 DEF UpdateRejected, Update, AuditSteps, Audited
<1>4. CASE RecordAudit(q)
  <2>1. /\ request[q].at = "audit" /\ request'[q].at = "done" /\ applied' = applied
        /\ \A p \in Requests : p # q => request'[p] = request[p]
    BY <1>0, <1>4 DEF RecordAudit
  <2>2. Audited' = Audited \cup {q}
    BY <1>0, <1>4 DEF RecordAudit, Audited
  <2>. QED BY <1>0, <2>1, <2>2 DEF AuditSteps
<1>. QED BY <1>1, <1>2, <1>3, <1>4 DEF HandleRequest

\* A step that writes no timeline and only copies those of the table.
LEMMA CopiesKeepNames ==
  ASSUME AInv, incidents' = incidents, applied \subseteq applied',
         \A t \in Ticks, r \in Rules :
           \/ task'[t][r].seen = task[t][r].seen
           \/ task'[t][r].seen = <<>>
           \/ \E i \in DOMAIN incidents : task'[t][r].seen = incidents[i].timeline,
         \A q \in Requests :
           \/ request'[q].seen = request[q].seen
           \/ \E i \in DOMAIN incidents : request'[q].seen = incidents[i].timeline
  PROVE  AuditNames'
<1>1. /\ NamesWithin(<<>>, applied')
      /\ \A tl : NamesWithin(tl, applied) => NamesWithin(tl, applied')
  BY DEF NamesWithin
<1>. QED BY <1>1 DEF AInv, AuditNames, OnlyApplied

\* A step that writes one row, and no copy.
LEMMA WriteKeepsNames ==
  ASSUME AInv, applied \subseteq applied',
         NEW id \in DOMAIN incidents, NEW status \in OpenStatus \cup {"resolved"},
         NEW seen \in Seq(Entry), NEW entry \in Entry,
         WriteRow(id, status, seen, entry), OnlyApplied(seen),
         entry.actor \in Requests => entry.actor \in applied',
         \A t \in Ticks, r \in Rules :
           task'[t][r].seen = task[t][r].seen \/ task'[t][r].seen = <<>>,
         \A q \in Requests : request'[q].seen = request[q].seen
  PROVE  AuditNames'
<1>1. \A tl : NamesWithin(tl, applied) => NamesWithin(tl, applied')
  BY DEF NamesWithin
<1>2. NamesWithin(Append(seen, entry), applied')
  <2>1. /\ Append(seen, entry) \in Seq(Entry) /\ DOMAIN seen = 1 .. Len(seen)
        /\ DOMAIN Append(seen, entry) = 1 .. (Len(seen) + 1) /\ Len(seen) \in Nat
        /\ Append(seen, entry)[Len(seen) + 1] = entry
        /\ \A k \in 1 .. Len(seen) : Append(seen, entry)[k] = seen[k]
    BY AppendProperties, LenProperties
  <2>2. \A k \in 1 .. (Len(seen) + 1) : k \in 1 .. Len(seen) \/ k = Len(seen) + 1
    BY <2>1
  <2>. QED BY <2>1, <2>2 DEF OnlyApplied, NamesWithin
<1>3. /\ DOMAIN incidents' = DOMAIN incidents
      /\ incidents'[id].timeline = Append(seen, entry)
      /\ \A i \in DOMAIN incidents : i # id => incidents'[i] = incidents[i]
  <2>1. /\ DOMAIN incidents' = DOMAIN incidents
        /\ incidents'[id] = [rule |-> incidents[id].rule, status |-> status,
                             timeline |-> Append(seen, entry)]
        /\ \A i \in DOMAIN incidents : i # id => incidents'[i] = incidents[i]
    BY WriteProperties DEF AInv
  <2>. QED BY <2>1
<1>4. \A i \in DOMAIN incidents' : NamesWithin(incidents'[i].timeline, applied')
  BY <1>1, <1>2, <1>3 DEF AInv, AuditNames, OnlyApplied
<1>5. NamesWithin(<<>>, applied')
  BY DEF NamesWithin
<1>. QED BY <1>1, <1>4, <1>5 DEF AInv, AuditNames, OnlyApplied

LEMMA RequestKeepsNames ==
  ASSUME AInv, NEW q \in Requests, HandleRequest(q)
  PROVE  AuditNames'
<1>0. /\ request \in [Requests -> Request] /\ TInv
      /\ task' = task /\ applied \subseteq applied'
      /\ \A tick \in Ticks, r \in Rules : task'[tick][r].seen = task[tick][r].seen
  BY RequestStep
     DEF AInv, TInv, TypeOK, HandleRequest, FindIncident, UpdateCommits, UpdateRejected,
         Update, RecordAudit
<1>1. CASE \E id \in 1 .. MaxIncidents, a \in Actions : FindIncident(q, id, a)
  <2>1. PICK id \in 1 .. MaxIncidents, a \in Actions : FindIncident(q, id, a)
    BY <1>1
  <2>2. /\ incidents' = incidents /\ id \in DOMAIN incidents
        /\ request'[q].seen = incidents[id].timeline
        /\ \A p \in Requests : p # q => request'[p] = request[p]
    BY <1>0, <2>1 DEF FindIncident
  <2>. QED BY <1>0, <2>2, CopiesKeepNames
<1>2. ASSUME request[q].at = "update", Update(q),
             \A p \in Requests : request'[p].seen = request[p].seen
      PROVE  AuditNames'
  <2>. DEFINE id == request[q].id
              status == StatusAfter[request[q].action]
              entry == [actor |-> q, action |-> request[q].action]
  <2>1. /\ id \in DOMAIN incidents
        /\ status \in OpenStatus \cup {"resolved"}
        /\ request[q].seen \in Seq(Entry)
        /\ entry \in Entry
        /\ WriteRow(id, status, request[q].seen, entry)
    BY <1>0, <1>2, UpdateWrites
  <2>2. OnlyApplied(request[q].seen) /\ entry.actor \in applied'
    BY <1>2 DEF AInv, AuditNames, Update
  <2>. HIDE DEF id, status, entry
  <2>. QED BY <1>0, <1>2, <2>1, <2>2, WriteKeepsNames
<1>3. ASSUME incidents' = incidents, \A p \in Requests : request'[p].seen = request[p].seen
      PROVE  AuditNames'
  BY <1>0, <1>3, CopiesKeepNames
<1>4. CASE UpdateCommits(q) \/ UpdateRejected(q) \/ RecordAudit(q)
  <2>1. \A p \in Requests : request'[p].seen = request[p].seen
    <3>1. request[q] \in Request
      BY <1>0
    <3>2. PICK next : request' = [request EXCEPT ![q].at = next]
      BY <1>4 DEF UpdateCommits, UpdateRejected, RecordAudit
    <3>3. request'[q].seen = request[q].seen
      BY <1>0, <3>1, <3>2 DEF Request
    <3>. QED BY <1>0, <3>2, <3>3
  <2>. QED BY <1>2, <1>3, <1>4, <2>1 DEF UpdateCommits, UpdateRejected, RecordAudit
<1>. QED BY <1>1, <1>4 DEF HandleRequest

LEMMA EvaluatorKeepsNames ==
  ASSUME AInv, NEW t \in Ticks, NEW r \in Rules, EvaluateRule(t, r) \/ EvaluationFails(t, r)
  PROVE  AuditNames'
<1>0. /\ TInv /\ UNCHANGED <<request, applied>> /\ NoTask.seen = <<>>
      /\ task \in [Ticks -> [Rules -> Task]]
  BY DEF AInv, TInv, TypeOK, NoTask, EvaluateRule, EvaluationFails, CountLogs, FindBeforeFire,
         CreateIncident, FindToResolve, AutoResolve
<1>1. \A next : GoTo(t, r, next) =>
        \A u \in Ticks, x \in Rules : task'[u][x] = task[u][x] \/ task'[u][x] = next
  BY <1>0 DEF GoTo
<1>2. CASE \/ CountLogs(t, r) \/ EvaluationFails(t, r) \/ FindBeforeFire(t, r)
           \/ FindToResolve(t, r) /\ Finished(t, r)
  <2>1. incidents' = incidents /\ \E next : GoTo(t, r, next) /\ next.seen = <<>>
    BY <1>2 DEF CountLogs, EvaluationFails, FindBeforeFire, FindToResolve, Finished, NoTask
  <2>. QED BY <1>0, <1>1, <2>1, CopiesKeepNames
<1>3. CASE FindToResolve(t, r) /\ ~Finished(t, r)
  <2>1. PICK i \in OpenOf(r) :
          GoTo(t, r, [at |-> "update", id |-> i, seen |-> incidents[i].timeline])
    BY <1>3 DEF FindToResolve
  <2>2. i \in DOMAIN incidents /\ incidents' = incidents
    BY <1>3, <2>1 DEF OpenOf, FindToResolve
  <2>. QED BY <1>0, <1>1, <2>1, <2>2, CopiesKeepNames
<1>4. CASE CreateIncident(t, r)
  <2>1. /\ DOMAIN incidents' = 1 .. (Len(incidents) + 1)
        /\ DOMAIN incidents = 1 .. Len(incidents) /\ Len(incidents) \in Nat
        /\ incidents'[Len(incidents) + 1] =
              [rule |-> r, status |-> "triggered",
               timeline |-> <<[actor |-> "system", action |-> "triggered"]>>]
        /\ \A i \in DOMAIN incidents : incidents'[i] = incidents[i]
    BY <1>0, <1>4, CreateProperties, LenProperties DEF TInv, TypeOK
  <2>2. OnlyApplied(incidents'[Len(incidents) + 1].timeline)
    BY <2>1, IncidentsAssumption DEF OnlyApplied, NamesWithin
  <2>3. \A i \in DOMAIN incidents' : OnlyApplied(incidents'[i].timeline)
    <3>1. \A i \in DOMAIN incidents' : i \in DOMAIN incidents \/ i = Len(incidents) + 1
      BY <2>1
    <3>. QED BY <2>1, <2>2, <3>1 DEF AInv, AuditNames
  <2>4. \A u \in Ticks, x \in Rules : OnlyApplied(task'[u][x].seen)
    <3>1. OnlyApplied(NoTask.seen)
      BY DEF OnlyApplied, NamesWithin, NoTask
    <3>. QED BY <1>1, <1>4, <3>1 DEF CreateIncident, Finished, AInv, AuditNames
  <2>. QED BY <1>0, <2>3, <2>4 DEF AInv, AuditNames, OnlyApplied
<1>5. CASE AutoResolve(t, r)
  <2>. DEFINE entry == [actor |-> "system", action |-> "auto-resolved"]
  <2>1. /\ task[t][r].id \in DOMAIN incidents
        /\ task[t][r].seen \in Seq(Entry)
        /\ entry \in Entry
        /\ WriteRow(task[t][r].id, "resolved", task[t][r].seen, entry)
    BY <1>0, <1>5, AutoResolveWrites
  <2>2. OnlyApplied(task[t][r].seen) /\ entry.actor \notin Requests
    BY IncidentsAssumption DEF AInv, AuditNames
  <2>3. \A u \in Ticks, x \in Rules :
          task'[u][x].seen = task[u][x].seen \/ task'[u][x].seen = <<>>
    BY <1>0, <1>1, <1>5 DEF AutoResolve, Finished
  <2>. HIDE DEF entry
  <2>. QED BY <1>0, <2>1, <2>2, <2>3, WriteKeepsNames
<1>. QED BY <1>2, <1>3, <1>4, <1>5 DEF EvaluateRule

LEMMA NextKeepsAInv == AInv /\ [Next]_vars => AInv'
<1> SUFFICES ASSUME AInv, [Next]_vars PROVE AuditSteps' /\ AuditNames'
  BY NextKeepsTInv DEF AInv
<1>1. ASSUME NEW q \in Requests, HandleRequest(q) PROVE AuditSteps' /\ AuditNames'
  BY <1>1, RequestKeepsAudit, RequestKeepsNames
<1>2. ASSUME UNCHANGED <<request, audit, applied>> PROVE AuditSteps'
  BY <1>2 DEF AInv, AuditSteps, Audited
<1>3. ASSUME NEW t \in Ticks, NEW r \in Rules, EvaluateRule(t, r) \/ EvaluationFails(t, r)
      PROVE  AuditSteps' /\ AuditNames'
  BY <1>2, <1>3, EvaluatorKeepsNames
     DEF EvaluateRule, EvaluationFails, CountLogs, FindBeforeFire, CreateIncident,
         FindToResolve, AutoResolve
<1>4. ASSUME UNCHANGED <<incidents, request, audit, applied>>,
             \A t \in Ticks, r \in Rules :
               task'[t][r].seen = task[t][r].seen \/ task'[t][r].seen = <<>>
      PROVE  AuditSteps' /\ AuditNames'
  BY <1>2, <1>4, CopiesKeepNames
<1>5. ASSUME NEW t \in Ticks, CronFires(t) \/ FetchRules(t) \/ FetchFails(t)
      PROVE  AuditSteps' /\ AuditNames'
  <2>1. \A u \in Ticks, r \in Rules :
          task'[u][r].seen = task[u][r].seen \/ task'[u][r].seen = <<>>
    BY <1>5 DEF AInv, TInv, TypeOK, CronFires, FetchRules, FetchFails, NoTask
  <2>. QED BY <1>4, <1>5, <2>1 DEF CronFires, FetchRules, FetchFails
<1>. QED
  BY <1>1, <1>3, <1>4, <1>5 DEF Next, vars, ConditionChanges, ToggleRule

\* Whatever interleaves and whichever writes are rejected after they were committed: the
\* trail, the notices and the timelines name committed transitions only, an answered one
\* has a row or a notice, and what has neither is about to have one or was a 500.
THEOREM IncidentsAuditFollowsChanges == Spec => []AuditFollowsChanges
<1>1. Init => AInv
  <2>. SUFFICES ASSUME Init PROVE AInv
    OBVIOUS
  <2>1. AuditSteps
    BY DEF Init, AuditSteps, Audited
  <2>2. AuditNames
    BY DEF Init, AuditNames, OnlyApplied, NamesWithin, NoTask
  <2>. QED BY <2>1, <2>2, InitTInv DEF AInv
<1>2. AInv => AuditFollowsChanges
  BY AInvIsEnough
<1>. QED BY <1>1, <1>2, NextKeepsAInv, PTL DEF Spec

-----------------------------------------------------------------------------
(* The status that a row shows. *)

SInv == TInv /\ StatusMatchesTimeline

\* A row whose status is the one its last action sets.
StatusFrom(last) ==
  CASE last = "triggered" -> "triggered"
    [] last = "auto-resolved" -> "resolved"
    [] OTHER -> StatusAfter[last]

LEMMA LastOfAppend ==
  ASSUME NEW seen \in Seq(Entry), NEW entry \in Entry
  PROVE  Last(Append(seen, entry)) = entry
BY AppendProperties, LenProperties DEF Last

LEMMA NextKeepsSInv == SInv /\ [Next]_vars => SInv'
<1> SUFFICES ASSUME SInv, [Next]_vars PROVE StatusMatchesTimeline'
  BY NextKeepsTInv DEF SInv
<1>1. StatusMatchesTimeline <=>
        \A i \in DOMAIN incidents :
          incidents[i].status = StatusFrom(Last(incidents[i].timeline).action)
  BY DEF StatusMatchesTimeline, StatusFrom
<1>2. StatusMatchesTimeline' <=>
        \A i \in DOMAIN incidents' :
          incidents'[i].status = StatusFrom(Last(incidents'[i].timeline).action)
  BY DEF StatusMatchesTimeline, StatusFrom
<1>3. CASE incidents' = incidents
  BY <1>1, <1>2, <1>3 DEF SInv
<1>4. ASSUME NEW t \in Ticks, NEW r \in Rules, CreateIncident(t, r)
      PROVE  StatusMatchesTimeline'
  <2> DEFINE e == [actor |-> "system", action |-> "triggered"]
  <2>1. Last(<<e>>) = e
    BY DEF Last
  <2>2. StatusFrom(e.action) = "triggered"
    BY DEF StatusFrom
  <2>3. ASSUME NEW i \in DOMAIN incidents'
        PROVE  incidents'[i].status = StatusFrom(Last(incidents'[i].timeline).action)
    <3>0. TInv
      BY DEF SInv
    <3>1. CASE i = Len(incidents) + 1
      <4>1. incidents'[i] = [rule |-> r, status |-> "triggered", timeline |-> <<e>>]
        BY <1>4, <3>0, <3>1, CreateProperties
      <4>2. incidents'[i].status = "triggered" /\ incidents'[i].timeline = <<e>>
        BY <4>1
      <4>3. Last(incidents'[i].timeline) = e
        BY <2>1, <4>2
      <4>. QED BY <2>2, <4>2, <4>3
    <3>2. CASE i \in DOMAIN incidents
      BY <1>1, <1>4, <3>2, CreateProperties DEF SInv
    <3>3. Len(incidents) \in Nat
      BY LenProperties DEF SInv, TInv, TypeOK
    <3>4. /\ DOMAIN incidents' = 1 .. (Len(incidents) + 1)
          /\ DOMAIN incidents = 1 .. Len(incidents)
      BY <1>4, <3>0, CreateProperties
    <3>5. i = Len(incidents) + 1 \/ i \in DOMAIN incidents
      BY <2>3, <3>3, <3>4
    <3>. QED BY <3>1, <3>2, <3>5
  <2>. QED BY <1>2, <2>3
<1>5. ASSUME NEW id \in DOMAIN incidents, NEW status \in OpenStatus \cup {"resolved"},
             NEW seen \in Seq(Entry), NEW entry \in Entry,
             WriteRow(id, status, seen, entry), status = StatusFrom(entry.action)
      PROVE  StatusMatchesTimeline'
  <2>1. incidents'[id].status = StatusFrom(Last(incidents'[id].timeline).action)
    <3>1. TInv
      BY DEF SInv
    <3>2. incidents'[id] = [rule |-> incidents[id].rule, status |-> status,
                            timeline |-> Append(seen, entry)]
      BY <1>5, <3>1, WriteProperties
    <3>3. incidents'[id].status = status /\ incidents'[id].timeline = Append(seen, entry)
      BY <3>2
    <3>4. Last(incidents'[id].timeline) = entry
      BY <3>3, LastOfAppend
    <3>. QED BY <1>5, <3>3, <3>4
  <2>2. \A i \in DOMAIN incidents : i # id => incidents'[i] = incidents[i]
    BY <1>5, WriteProperties DEF SInv
  <2>3. DOMAIN incidents' = DOMAIN incidents
    BY <1>5, WriteProperties DEF SInv
  <2>. QED BY <1>1, <1>2, <2>1, <2>2, <2>3 DEF SInv
<1>6. ASSUME NEW t \in Ticks, NEW r \in Rules, AutoResolve(t, r)
      PROVE  StatusMatchesTimeline'
  <2>1. StatusFrom("auto-resolved") = "resolved"
    BY DEF StatusFrom
  <2>. QED BY <1>5, <1>6, <2>1, AutoResolveWrites DEF SInv
<1>7. ASSUME NEW q \in Requests, request[q].at = "update", Update(q)
      PROVE  StatusMatchesTimeline'
  <2>1. StatusFrom(request[q].action) = StatusAfter[request[q].action]
    BY <1>7, UpdateWrites, IncidentsAssumption DEF SInv, StatusFrom
  <2>2. TInv
    BY DEF SInv
  <2> DEFINE status == StatusAfter[request[q].action]
             entry == [actor |-> q, action |-> request[q].action]
  <2>3. /\ request[q].id \in DOMAIN incidents
        /\ status \in OpenStatus \cup {"resolved"}
        /\ request[q].seen \in Seq(Entry)
        /\ entry \in Entry
        /\ WriteRow(request[q].id, status, request[q].seen, entry)
    BY <1>7, <2>2, UpdateWrites
  <2>4. status = StatusFrom(entry.action)
    BY <2>1
  <2> HIDE DEF status, entry
  <2>. QED BY <1>5, <2>3, <2>4
<1>. QED
  BY <1>3, <1>4, <1>6, <1>7
     DEF Next, vars, ConditionChanges, ToggleRule, CronFires, FetchRules,
         FetchFails, EvaluateRule, EvaluationFails, CountLogs, FindBeforeFire,
         FindToResolve, HandleRequest, FindIncident, UpdateCommits, UpdateRejected,
         RecordAudit

\* The status column never contradicts the timeline column, although writers
\* overwrite each other.
THEOREM IncidentsStatusMatchesTimeline == Spec => []StatusMatchesTimeline
<1>1. Init => SInv
  BY InitTInv DEF Init, SInv, StatusMatchesTimeline
<1>2. SInv => StatusMatchesTimeline
  BY DEF SInv
<1>. QED BY <1>1, <1>2, NextKeepsSInv, PTL DEF Spec

-----------------------------------------------------------------------------
(* How many incidents of a rule can be open. *)

BInv == AInv /\ OpenIncidentsBounded

BoundOf(r) ==
  Cardinality(OpenOf(r)) + Cardinality(Creating(r))
    <= Cardinality(Ticks) + Cardinality(Reopeners)

LEMMA Finiteness ==
  ASSUME TInv, NEW r \in Rules
  PROVE  /\ IsFiniteSet(OpenOf(r)) /\ Cardinality(OpenOf(r)) \in Nat
         /\ IsFiniteSet(Creating(r)) /\ Cardinality(Creating(r)) \in Nat
         /\ IsFiniteSet(Reopeners) /\ Cardinality(Reopeners) \in Nat
         /\ Cardinality(Ticks) \in Nat
         /\ Cardinality(Creating(r)) <= Cardinality(Ticks)
<1>1. IsFiniteSet(DOMAIN incidents)
  <2>1. DOMAIN incidents = 1 .. Len(incidents) /\ Len(incidents) \in Nat
    BY LenProperties DEF TInv, TypeOK
  <2>2. Len(incidents) \in Int /\ 1 \in Int
    BY <2>1
  <2>. QED BY <2>1, <2>2, FS_Interval
<1>2. OpenOf(r) \in SUBSET DOMAIN incidents
  BY DEF OpenOf
<1>3. Creating(r) \in SUBSET Ticks
  BY DEF Creating
<1>4. Reopeners \in SUBSET Requests
  BY DEF Reopeners, TInv, TypeOK
<1>5. IsFiniteSet(Ticks) /\ IsFiniteSet(Requests)
  BY IncidentsAssumption
<1>6. IsFiniteSet(OpenOf(r))
  BY <1>1, <1>2, FS_Subset
<1>7. IsFiniteSet(Creating(r)) /\ Cardinality(Creating(r)) <= Cardinality(Ticks)
  BY <1>3, <1>5, FS_Subset
<1>8. IsFiniteSet(Reopeners)
  BY <1>4, <1>5, FS_Subset
<1>. QED BY <1>5, <1>6, <1>7, <1>8, FS_CardinalityType

\* A step that opens nothing, starts no creation and forgets no reopener.
LEMMA ShrinkingKeepsBound ==
  ASSUME TInv, TInv', NEW r \in Rules, BoundOf(r),
         OpenOf(r)' \subseteq OpenOf(r), Creating(r)' \subseteq Creating(r),
         Reopeners \subseteq Reopeners'
  PROVE  BoundOf(r)'
<1>1. /\ Cardinality(OpenOf(r)') <= Cardinality(OpenOf(r))
      /\ Cardinality(Creating(r)') <= Cardinality(Creating(r))
  BY Finiteness, FS_Subset
<1>2. IsFiniteSet(Reopeners')
  <2>1. Reopeners' \in SUBSET Requests
    BY DEF Reopeners, TInv, TypeOK
  <2>. QED BY <2>1, IncidentsAssumption, FS_Subset
<1>3. Cardinality(Reopeners) <= Cardinality(Reopeners')
  BY <1>2, FS_Subset
<1>4. IsFiniteSet(OpenOf(r)') /\ IsFiniteSet(Creating(r)')
  BY Finiteness, FS_Subset
<1>5. /\ Cardinality(OpenOf(r)') \in Nat /\ Cardinality(Creating(r)') \in Nat
      /\ Cardinality(Reopeners') \in Nat
  BY <1>2, <1>4, FS_CardinalityType
<1>. QED BY <1>1, <1>3, <1>5, Finiteness DEF BoundOf

\* Steps of the table's readers, and of anything that leaves the table alone.
LEMMA ReadersKeepBound ==
  ASSUME AInv, AInv', NEW r \in Rules, BoundOf(r), incidents' = incidents,
         UNCHANGED <<request, applied>>,
         Creating(r)' \subseteq Creating(r) \/ OpenOf(r) = {}
  PROVE  BoundOf(r)'
<1>1. OpenOf(r)' = OpenOf(r) /\ Reopeners' = Reopeners
  BY DEF OpenOf, Reopeners
<1>2. TInv /\ TInv'
  BY DEF AInv
<1>3. CASE Creating(r)' \subseteq Creating(r)
  BY <1>1, <1>2, <1>3, ShrinkingKeepsBound
<1>4. CASE OpenOf(r) = {}
  <2>1. Cardinality(OpenOf(r)') = 0
    BY <1>1, <1>4, FS_EmptySet
  <2>2. Creating(r)' \in SUBSET Ticks
    BY DEF Creating
  <2>3. Cardinality(Creating(r)') <= Cardinality(Ticks) /\ IsFiniteSet(Creating(r)')
    BY <2>2, IncidentsAssumption, FS_Subset
  <2>4. Cardinality(Creating(r)') \in Nat
    BY <2>3, FS_CardinalityType
  <2>. QED BY <1>1, <1>2, <2>1, <2>3, <2>4, Finiteness DEF BoundOf
<1>. QED BY <1>3, <1>4

LEMMA GrowByOne ==
  ASSUME NEW S, IsFiniteSet(S), NEW x, NEW T \in SUBSET (S \cup {x})
  PROVE  Cardinality(T) \in Nat /\ Cardinality(T) <= Cardinality(S) + 1
<1>1. /\ IsFiniteSet(S \cup {x})
      /\ Cardinality(S \cup {x}) = IF x \in S THEN Cardinality(S) ELSE Cardinality(S) + 1
  BY FS_AddElement
<1>2. IsFiniteSet(T) /\ Cardinality(T) <= Cardinality(S \cup {x})
  BY <1>1, FS_Subset
<1>3. /\ Cardinality(T) \in Nat /\ Cardinality(S) \in Nat
  BY <1>2, FS_CardinalityType
<1>. QED BY <1>1, <1>2, <1>3

\* A creation turns one pending creation into one open incident.
LEMMA CreateKeepsBound ==
  ASSUME AInv, AInv', NEW t \in Ticks, NEW s \in Rules, NEW r \in Rules,
         BoundOf(r), CreateIncident(t, s)
  PROVE  BoundOf(r)'
<1> DEFINE n == Len(incidents) + 1
<1>1. TInv /\ TInv'
  BY DEF AInv
<1>2. /\ DOMAIN incidents' = 1 .. n /\ DOMAIN incidents = 1 .. Len(incidents)
      /\ Len(incidents) \in Nat
      /\ incidents'[n].rule = s
      /\ \A i \in DOMAIN incidents : incidents'[i] = incidents[i]
  <2>1. Len(incidents) \in Nat
    BY <1>1, LenProperties DEF TInv, TypeOK
  <2>2. /\ DOMAIN incidents' = 1 .. n /\ DOMAIN incidents = 1 .. Len(incidents)
        /\ \A i \in DOMAIN incidents : incidents'[i] = incidents[i]
    BY <1>1, CreateProperties
  <2>3. incidents'[n] =
          [rule |-> s, status |-> "triggered",
           timeline |-> <<[actor |-> "system", action |-> "triggered"]>>]
    BY <1>1, CreateProperties
  <2>4. incidents'[n].rule = s
    BY <2>3
  <2>. QED BY <2>1, <2>2, <2>4
<1>3. /\ task[t][s].at = "create" /\ task'[t][s].at = "none"
      /\ \A u \in Ticks, x \in Rules : u # t \/ x # s => task'[u][x] = task[u][x]
      /\ UNCHANGED <<request, applied>>
  BY <1>1, GoToProperties, NoTaskIsTask DEF CreateIncident, Finished, NoTask, TInv
<1>4. Reopeners' = Reopeners
  BY <1>3 DEF Reopeners
<1>5. CASE r # s
  <2>1. OpenOf(r)' \subseteq OpenOf(r)
    BY <1>2, <1>5 DEF OpenOf
  <2>2. Creating(r)' \subseteq Creating(r)
    BY <1>3, <1>5 DEF Creating
  <2>. QED BY <1>1, <1>4, <2>1, <2>2, ShrinkingKeepsBound
<1>6. CASE r = s
  <2>1. OpenOf(r)' \in SUBSET (OpenOf(r) \cup {n})
    BY <1>2 DEF OpenOf
  <2>2. Creating(r)' = Creating(r) \ {t} /\ t \in Creating(r)
    BY <1>3, <1>6 DEF Creating
  <2>4. Cardinality(OpenOf(r)') <= Cardinality(OpenOf(r)) + 1
        /\ Cardinality(OpenOf(r)') \in Nat
    BY <1>1, <2>1, Finiteness, GrowByOne
  <2>5. Cardinality(Creating(r)') = Cardinality(Creating(r)) - 1
    BY <1>1, <2>2, Finiteness, FS_RemoveElement
  <2>. QED BY <1>1, <1>4, <2>4, <2>5, Finiteness DEF BoundOf
<1>. QED BY <1>5, <1>6

\* A request that puts an incident back among the open ones is counted once.
LEMMA RequestKeepsBound ==
  ASSUME AInv, AInv', NEW q \in Requests, NEW r \in Rules,
         BoundOf(r), HandleRequest(q)
  PROVE  BoundOf(r)'
<1>1. TInv /\ TInv' /\ applied \subseteq Requests
  BY DEF AInv, TInv, TypeOK
<1>2. \A p \in applied : request[p].at # "new" /\ request[p].at # "update"
  BY DEF AInv, AuditSteps
<1>3. Creating(r)' = Creating(r)
  BY <1>1, RequestStep DEF Creating
<1>4. applied \subseteq applied'
  BY DEF HandleRequest, FindIncident, UpdateCommits, UpdateRejected, Update, RecordAudit
<1>5. Reopeners \subseteq Reopeners'
  BY <1>1, <1>2, <1>4, RequestStep DEF Reopeners
<1>6. CASE request[q].at = "update" /\ Update(q)
  <2>1. /\ request[q].id \in DOMAIN incidents
        /\ DOMAIN incidents' = DOMAIN incidents
        /\ incidents'[request[q].id].rule = incidents[request[q].id].rule
        /\ incidents'[request[q].id].status = StatusAfter[request[q].action]
        /\ \A i \in DOMAIN incidents : i # request[q].id => incidents'[i] = incidents[i]
    <3> DEFINE id == request[q].id
               status == StatusAfter[request[q].action]
               seen == request[q].seen
               entry == [actor |-> q, action |-> request[q].action]
    <3>1. /\ id \in DOMAIN incidents /\ status \in OpenStatus \cup {"resolved"}
          /\ seen \in Seq(Entry) /\ entry \in Entry
          /\ WriteRow(id, status, seen, entry)
      BY <1>1, <1>6, UpdateWrites
    <3> HIDE DEF id, status, seen, entry
    <3>2. /\ DOMAIN incidents' = DOMAIN incidents
          /\ incidents'[id] = [rule |-> incidents[id].rule, status |-> status,
                               timeline |-> Append(seen, entry)]
          /\ \A i \in DOMAIN incidents : i # id => incidents'[i] = incidents[i]
      BY <1>1, <3>1, WriteProperties
    <3>3. incidents'[id].rule = incidents[id].rule /\ incidents'[id].status = status
      BY <3>2
    <3>. QED BY <3>1, <3>2, <3>3 DEF id, status
  <2>2. CASE request[q].action = "resolve"
    <3>1. StatusAfter[request[q].action] = "resolved"
      BY <2>2 DEF StatusAfter
    <3>2. OpenOf(r)' \subseteq OpenOf(r)
      BY <2>1, <3>1 DEF OpenOf, OpenStatus
    <3>. QED BY <1>1, <1>3, <1>5, <3>2, ShrinkingKeepsBound
  <2>3. CASE request[q].action # "resolve"
    <3>1. q \notin Reopeners
      BY <1>2, <1>6 DEF Reopeners
    <3>2. Reopeners \cup {q} \subseteq Reopeners'
      <4>1. q \in applied' /\ request'[q].action # "resolve"
        BY <1>1, <1>6, <2>3, RequestStep DEF Update
      <4>. QED BY <1>5, <4>1 DEF Reopeners
    <3>3. Cardinality(Reopeners') >= Cardinality(Reopeners) + 1
          /\ Cardinality(Reopeners') \in Nat
      <4>1. IsFiniteSet(Reopeners') /\ Cardinality(Reopeners') \in Nat
        <5>1. Reopeners' \in SUBSET Requests
          BY <1>1 DEF Reopeners, TInv, TypeOK
        <5>. QED BY <5>1, IncidentsAssumption, FS_Subset, FS_CardinalityType
      <4>2. Cardinality(Reopeners \cup {q}) = Cardinality(Reopeners) + 1
        BY <1>1, <3>1, Finiteness, FS_AddElement
      <4>3. Cardinality(Reopeners \cup {q}) <= Cardinality(Reopeners')
        BY <3>2, <4>1, FS_Subset
      <4>. QED BY <4>1, <4>2, <4>3
    <3>4. OpenOf(r)' \in SUBSET (OpenOf(r) \cup {request[q].id})
      BY <2>1 DEF OpenOf
    <3>5. /\ Cardinality(OpenOf(r)') <= Cardinality(OpenOf(r)) + 1
          /\ Cardinality(OpenOf(r)') \in Nat
      BY <1>1, <3>4, Finiteness, GrowByOne
    <3>. QED BY <1>1, <1>3, <3>3, <3>5, Finiteness DEF BoundOf
  <2>. QED BY <2>2, <2>3
<1>7. CASE ~(request[q].at = "update" /\ Update(q))
  <2>1. incidents' = incidents
    BY <1>7 DEF HandleRequest, FindIncident, UpdateCommits, UpdateRejected, RecordAudit
  <2>. QED BY <1>1, <1>3, <1>5, <2>1, ShrinkingKeepsBound DEF OpenOf
<1>. QED BY <1>6, <1>7

\* The evaluator's own steps, creation apart.
LEMMA EvaluationKeepsBound ==
  ASSUME AInv, AInv', NEW t \in Ticks, NEW s \in Rules, NEW r \in Rules, BoundOf(r),
         \/ CountLogs(t, s) \/ EvaluationFails(t, s)
         \/ FindBeforeFire(t, s) \/ FindToResolve(t, s)
  PROVE  BoundOf(r)'
<1>1. TInv
  BY DEF AInv
<1>2. UNCHANGED <<incidents, request, applied>>
  BY DEF CountLogs, EvaluationFails, FindBeforeFire, FindToResolve
<1>3. task \in [Ticks -> [Rules -> Task]]
  BY <1>1 DEF TInv, TypeOK
<1>4. CASE FindBeforeFire(t, s) /\ OpenOf(s) = {}
  <2>1. r = s \/ Creating(r)' \subseteq Creating(r)
    BY <1>3, <1>4 DEF FindBeforeFire, GoTo, Finished, Creating
  <2>. QED BY <1>2, <1>4, <2>1, ReadersKeepBound
<1>5. CASE ~(FindBeforeFire(t, s) /\ OpenOf(s) = {})
  <2>1. PICK next : GoTo(t, s, next) /\ next.at # "create"
    <3>1. CASE CountLogs(t, s)
      BY <3>1 DEF CountLogs, NoTask
    <3>2. CASE EvaluationFails(t, s)
      BY <3>2 DEF EvaluationFails, Finished, NoTask
    <3>3. CASE FindBeforeFire(t, s)
      BY <1>5, <3>3 DEF FindBeforeFire, Finished, NoTask
    <3>4. CASE FindToResolve(t, s)
      <4>1. CASE Finished(t, s)
        BY <4>1 DEF Finished, NoTask
      <4>2. CASE \E i \in OpenOf(s) :
                   GoTo(t, s, [at |-> "update", id |-> i, seen |-> incidents[i].timeline])
        <5>1. PICK i \in OpenOf(s) :
                GoTo(t, s, [at |-> "update", id |-> i, seen |-> incidents[i].timeline])
          BY <4>2
        <5> DEFINE next == [at |-> "update", id |-> i, seen |-> incidents[i].timeline]
        <5>2. GoTo(t, s, next) /\ next.at # "create"
          BY <5>1
        <5> HIDE DEF next
        <5>. QED BY <5>2
      <4>. QED BY <3>4, <4>1, <4>2 DEF FindToResolve
    <3>. QED BY <3>1, <3>2, <3>3, <3>4
  <2>2. Creating(r)' \subseteq Creating(r)
    BY <1>3, <2>1 DEF GoTo, Creating
  <2>. QED BY <1>2, <2>2, ReadersKeepBound
<1>. QED BY <1>4, <1>5

LEMMA NextKeepsBInv == BInv /\ [Next]_vars => BInv'
<1> SUFFICES ASSUME BInv, [Next]_vars PROVE OpenIncidentsBounded'
  BY NextKeepsAInv DEF BInv
<1>0. AInv /\ AInv' /\ TInv /\ TInv'
  BY NextKeepsAInv, NextKeepsTInv DEF BInv, AInv
<1> SUFFICES ASSUME NEW r \in Rules PROVE BoundOf(r)'
  BY DEF OpenIncidentsBounded, BoundOf
<1>00. BoundOf(r)
  BY DEF BInv, OpenIncidentsBounded, BoundOf
<1>1. CASE UNCHANGED <<incidents, task, request, applied>>
  BY <1>0, <1>00, <1>1, ReadersKeepBound DEF Creating
<1>2. ASSUME NEW t \in Ticks, FetchRules(t)
      PROVE  BoundOf(r)'
  <2>1. Creating(r)' \subseteq Creating(r)
    BY <1>0, <1>2 DEF FetchRules, Creating, NoTask, TInv, TypeOK
  <2>. QED BY <1>0, <1>00, <1>2, <2>1, ReadersKeepBound DEF FetchRules
<1>3. ASSUME NEW t \in Ticks, NEW s \in Rules,
             EvaluateRule(t, s) \/ EvaluationFails(t, s)
      PROVE  BoundOf(r)'
  <2>1. CASE CreateIncident(t, s)
    BY <1>0, <1>00, <2>1, CreateKeepsBound
  <2>2. CASE AutoResolve(t, s)
    <3> DEFINE id == task[t][s].id
               seen == task[t][s].seen
               entry == [actor |-> "system", action |-> "auto-resolved"]
    <3>1. /\ id \in DOMAIN incidents /\ seen \in Seq(Entry) /\ entry \in Entry
          /\ WriteRow(id, "resolved", seen, entry)
      BY <1>0, <2>2, AutoResolveWrites
    <3> HIDE DEF id, seen, entry
    <3>2. /\ DOMAIN incidents' = DOMAIN incidents
          /\ incidents'[id] = [rule |-> incidents[id].rule, status |-> "resolved",
                               timeline |-> Append(seen, entry)]
          /\ \A i \in DOMAIN incidents : i # id => incidents'[i] = incidents[i]
      BY <1>0, <3>1, WriteProperties
    <3>3. incidents'[id].status = "resolved"
      BY <3>2
    <3>4. OpenOf(r)' \subseteq OpenOf(r)
      BY <3>2, <3>3 DEF OpenOf, OpenStatus
    <3>5. Creating(r)' \subseteq Creating(r)
      BY <1>0, <2>2, GoToProperties, NoTaskIsTask
         DEF AutoResolve, Finished, Creating, NoTask, TInv
    <3>6. Reopeners' = Reopeners
      BY <2>2 DEF AutoResolve, Reopeners
    <3>. QED BY <1>0, <1>00, <3>4, <3>5, <3>6, ShrinkingKeepsBound
  <2>3. CASE ~CreateIncident(t, s) /\ ~AutoResolve(t, s)
    BY <1>0, <1>00, <1>3, <2>3, EvaluationKeepsBound DEF EvaluateRule
  <2>. QED BY <2>1, <2>2, <2>3
<1>4. ASSUME NEW q \in Requests, HandleRequest(q)
      PROVE  BoundOf(r)'
  BY <1>0, <1>00, <1>4, RequestKeepsBound
<1>. QED
  BY <1>1, <1>2, <1>3, <1>4
     DEF Next, vars, ConditionChanges, ToggleRule, CronFires, FetchFails

LEMMA InitBInv == Init => BInv
<1> SUFFICES ASSUME Init PROVE BInv
  OBVIOUS
<1>1. TInv
  BY InitTInv
<1>2. AInv
  <2>1. AuditSteps
    BY DEF Init, AuditSteps, Audited
  <2>2. AuditNames
    BY DEF Init, AuditNames, OnlyApplied, NamesWithin, NoTask
  <2>. QED BY <1>1, <2>1, <2>2 DEF AInv
<1>3. ASSUME NEW r \in Rules PROVE BoundOf(r)
  <2>1. OpenOf(r) = {} /\ Creating(r) = {} /\ Reopeners = {}
    BY DEF Init, OpenOf, Creating, Reopeners, NoTask
  <2>. QED BY <1>1, <2>1, Finiteness, FS_EmptySet DEF BoundOf
<1>. QED BY <1>2, <1>3 DEF BInv, OpenIncidentsBounded, BoundOf

\* However many ticks overlap and whatever the requests do, a rule has at most
\* as many open incidents as there are ticks and requests to answer for them.
THEOREM IncidentsBounded == Spec => []OpenIncidentsBounded
<1>1. BInv => OpenIncidentsBounded
  BY DEF BInv
<1>. QED BY <1>1, InitBInv, NextKeepsBInv, PTL DEF Spec

\* What the comment in maybeFireIncident() promises holds as long as no tick
\* starts before the one before it is over and no request acknowledges or
\* snoozes an incident.
THEOREM OneOpenWithoutOverlap ==
  ASSUME NEW t, Ticks = {t}, Actions \subseteq {"resolve"}
  PROVE  Spec => []OneOpenIncidentPerRule
<1>1. BInv => OneOpenIncidentPerRule
  <2> SUFFICES ASSUME BInv, NEW i \in DOMAIN incidents, NEW j \in DOMAIN incidents,
                      incidents[i].rule = incidents[j].rule,
                      incidents[i].status \in OpenStatus,
                      incidents[j].status \in OpenStatus
               PROVE  i = j
    BY DEF OneOpenIncidentPerRule
  <2> DEFINE r == incidents[i].rule
  <2>1. TInv /\ AInv
    BY DEF BInv, AInv
  <2>2. r \in Rules
    <3>1. incidents[i] \in Incident
      BY <2>1, ElementOfSeq DEF TInv, TypeOK
    <3>. QED BY <3>1 DEF Incident
  <2>3. Reopeners = {}
    <3>1. \A q \in applied : q \in Requests /\ request[q].at # "new"
      BY <2>1 DEF AInv, AuditSteps, TInv, TypeOK
    <3>. QED BY <2>1, <3>1 DEF Reopeners, TInv, Pending
  <2>4. Cardinality(Ticks) = 1 /\ Cardinality(Reopeners) = 0
    BY <2>3, FS_Singleton, FS_EmptySet
  <2>5. Cardinality(OpenOf(r)) <= 1
    BY <2>1, <2>2, <2>4, Finiteness DEF BInv, OpenIncidentsBounded
  <2>6. {i, j} \in SUBSET OpenOf(r)
    BY DEF OpenOf
  <2>7. CASE i # j
    <3>1. Cardinality({i, j}) = 2
      <4>1. IsFiniteSet({i}) /\ Cardinality({i}) = 1
        BY FS_Singleton
      <4>2. Cardinality({i} \cup {j}) = Cardinality({i}) + 1
        BY <2>7, <4>1, FS_AddElement
      <4>3. {i} \cup {j} = {i, j}
        OBVIOUS
      <4>. QED BY <4>1, <4>2, <4>3
    <3>2. Cardinality({i, j}) <= Cardinality(OpenOf(r))
      BY <2>1, <2>2, <2>6, Finiteness, FS_Subset
    <3>. QED BY <2>1, <2>2, <2>5, <3>1, <3>2, Finiteness
  <2>. QED BY <2>7
<1>. QED BY <1>1, InitBInv, NextKeepsBInv, PTL DEF Spec
==============================================================================
