------------------------------ MODULE IncidentView ------------------------------
(***************************************************************************)
(* The incidents half of the Alerts page (incident-list.tsx): the polled   *)
(* list, its buttons, and on the other side alerts incidents.controller.ts *)
(* as far as a tab sees it - Incidents.tla has the overlap of its reads    *)
(* and writes.  The evaluator opens and closes incidents and another       *)
(* responder acts on them meanwhile.                                       *)
(* Operators whose names begin with Bad are seeded faults.                 *)
(***************************************************************************)
EXTENDS Naturals, Sequences, SequencesExt

CONSTANTS
  Incidents,   \* ids of incidents
  MaxCalls,    \* bound: PATCH requests of the tab
  MaxChanges   \* bound: changes by the evaluator or by somebody else

Cache == INSTANCE QueryCache

VARIABLES
  role,        \* the identity of the tab
  status,      \* Incident rows: the status, or "none" without a row
  list,        \* the ['incidents'] entry of the query cache
  calls,       \* PATCH requests of the tab; the last is the one useMutation tracks
  changed,     \* history: a change that is not of an awaited request, since a read
  changes      \* bound counter

vars == <<role, status, list, calls, changed, changes>>

Becomes == [acknowledge |-> "acknowledged", snooze |-> "snoozed", resolve |-> "resolved"]

\* GET /incidents: all of them for administrators, none for anybody else.
Listed ==
  [i \in {j \in Incidents : role = "admin" /\ status[j] # "none"} |-> status[i]]

Rows == UNION {DOMAIN shown : shown \in {rows \in list.data : ~list.error}}
Awaited(i) == \E c \in DOMAIN calls : calls[c].id = i /\ calls[c].awaited
Unapplied(c) == calls[c].at = "sent"

\* The buttons of a row that shows this status.
isOpen(shown) == shown \in {"triggered", "snoozed"}
Offered(shown) ==
  {action \in DOMAIN Becomes :
     CASE action = "acknowledge" -> isOpen(shown)
       [] action = "snooze"      -> isOpen(shown) \/ shown = "acknowledged"
       [] action = "resolve"     -> shown # "resolved"}

\* Only the row of the last mutation is busy, and only while that is under way.
rowPending(i) == calls # <<>> /\ Last(calls).awaited /\ Last(calls).id = i

Init ==
  /\ role \in {"admin", "operator"}
  /\ status \in [Incidents -> {"none", "triggered"}]
  /\ list = Cache!FirstLoad
  /\ calls = <<>> /\ changed = FALSE /\ changes = 0

-----------------------------------------------------------------------------
(* IncidentList. *)

\* What was clicked before it is known what becomes of an earlier click on the
\* same row is not quiet, and neither is that earlier one.
mutate(i, action) ==
  /\ role # "viewer" /\ ~rowPending(i)
  /\ \E shown \in list.data : action \in Offered(shown[i])
  /\ Len(calls) < MaxCalls
  /\ calls' = Append([c \in DOMAIN calls |->
                        [calls[c] EXCEPT !.quiet = @ /\ ~(calls[c].id = i /\ Unapplied(c))]],
                     [id |-> i, action |-> action, at |-> "sent", awaited |-> TRUE,
                      quiet |-> Cache!Settled(list) /\ ~changed /\ ~Awaited(i)])
  /\ UNCHANGED <<role, status, list, changed, changes>>

\* Every ten seconds, unless a fetch is under way.
refetchInterval ==
  /\ list.fetch = "idle"
  /\ list' = [list EXCEPT !.fetch = "sent"]
  /\ UNCHANGED <<role, status, calls, changed, changes>>

Done(c) == calls' = [calls EXCEPT ![c].awaited = FALSE]

\* A seeded fault: the list is left to the next poll.
BadOnSuccess(c) ==
  /\ calls[c].awaited /\ calls[c].at = "answer"
  /\ Done(c)
  /\ UNCHANGED <<role, status, list, changed, changes>>

onSuccess(c) ==
  /\ calls[c].awaited /\ calls[c].at = "answer"
  /\ Done(c)
  /\ list' = Cache!Invalidate(list)
  /\ UNCHANGED <<role, status, changed, changes>>

\* A network error at any point: a toast, and what the server did stays unseen.
onError(c) ==
  /\ calls[c].awaited
  /\ Done(c)
  /\ changed' = (changed \/ ~Unapplied(c))
  /\ UNCHANGED <<role, status, list, changes>>

listArrives ==
  /\ list.fetch = "answered"
  /\ list' = Cache!Deliver(list)
  /\ UNCHANGED <<role, status, calls, changed, changes>>

listFails ==
  /\ list.fetch # "idle"
  /\ list' = Cache!Fail(list)
  /\ UNCHANGED <<role, status, calls, changed, changes>>

-----------------------------------------------------------------------------
(* IncidentsController. *)

Disturbed(i, but) ==
  [c \in DOMAIN calls |->
     [calls[c] EXCEPT !.quiet = @ /\ ~(c # but /\ calls[c].id = i /\ Unapplied(c))]]

\* The status becomes that of the action, whatever it was; the audit row follows,
\* and the answer.
transition(c) ==
  /\ Unapplied(c)
  /\ LET i == calls[c].id
     IN  /\ status' = [status EXCEPT ![i] = Becomes[calls[c].action]]
         /\ calls' = [Disturbed(i, c) EXCEPT ![c].at = "answer"]
  /\ changed' = (changed \/ ~calls[c].awaited)
  /\ UNCHANGED <<role, list, changes>>

listIncidents ==
  /\ list.fetch = "sent"
  /\ list' = Cache!Answer(list, Listed)
  /\ changed' = FALSE
  /\ UNCHANGED <<role, status, calls, changes>>

\* The evaluator opens an incident or resolves it, or a responder acts on it.
SomeoneChanges(i) ==
  /\ changes < MaxChanges /\ changes' = changes + 1
  /\ \E new \in IF status[i] = "none" THEN {"triggered"}
                ELSE {Becomes[action] : action \in Offered(status[i])} :
       status' = [status EXCEPT ![i] = new]
  /\ calls' = Disturbed(i, 0) /\ changed' = TRUE
  /\ UNCHANGED <<role, list>>

Next ==
  \/ \E i \in Rows, action \in DOMAIN Becomes : mutate(i, action)
  \/ refetchInterval \/ listIncidents \/ listArrives \/ listFails
  \/ \E c \in DOMAIN calls : transition(c) \/ onSuccess(c) \/ onError(c)
  \/ \E i \in Incidents : SomeoneChanges(i)

Spec == Init /\ [][Next]_vars

-----------------------------------------------------------------------------
(* Properties. *)

\* transition() has no guard, so a resolved incident could be acknowledged; the
\* buttons keep it out.  A click on a list that is settled and has seen every
\* change finds the incident in a state for which the action is offered, unless
\* somebody else acts on that incident before the request is applied.
TransitionsAreLegal ==
  [][\A c \in DOMAIN calls :
       (calls[c].quiet /\ Unapplied(c) /\ calls'[c].at # "sent") =>
         calls[c].action \in Offered(status[calls[c].id])]_vars

\* A settled row of which no transition is awaited shows the table, once a poll
\* has seen what others changed.
QuietListIsCurrent ==
  (Cache!Settled(list) /\ ~changed) =>
    \A shown \in list.data :
      /\ DOMAIN shown = DOMAIN Listed
      /\ \A i \in DOMAIN shown : ~Awaited(i) => shown[i] = Listed[i]
==============================================================================
