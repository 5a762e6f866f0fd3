---------------------------- MODULE ChannelRegistry ----------------------------
(***************************************************************************)
(* The channels half of the Alerts page (channel-registry.tsx): the list,  *)
(* the admin's form and the test-fire buttons; alerts.channels.controller  *)
(* and the ChannelRouterService, whose channels live in the memory of the  *)
(* process.  A channel is its id and the severities it takes; name, type   *)
(* and endpoint are filled in with the id and are left out.                *)
(***************************************************************************)
EXTENDS Naturals, Sequences, SequencesExt, FiniteSets

CONSTANTS
  Ids,          \* ids the admin may type
  MaxCalls,     \* bound: requests of the tab
  MaxRestarts   \* bound: restarts of the process

Cache == INSTANCE QueryCache

Severities == {"critical", "warning"}
Blank == "" \* an empty field
DEFAULT_CHANNELS ==
  <<[id |-> "slack-critical", severities |-> Severities],
    [id |-> "webhook-critical", severities |-> {"critical"}],
    [id |-> "email-mock", severities |-> {"critical"}]>>
EMPTY_DRAFT == [id |-> Blank, severities |-> Severities]

VARIABLES
  role,       \* the identity of the tab
  draft,      \* the form
  calls,      \* POST /alerts/channels and POST .../:id/test, as they were sent
  list,       \* the ['alert-channels'] entry of the query cache
  channels,   \* the registry in memory
  audited,    \* creations with an audit row or a failure notice
  restarts,   \* bound counter, and what a call or the list can have missed
  unsure      \* history: an answer was lost, or a refetch joined the first load

vars == <<role, draft, calls, list, channels, audited, restarts, unsure>>

Waiting(kind) == \E c \in DOMAIN calls : calls[c].kind = kind /\ calls[c].awaited
Registered == {channels[k].id : k \in DOMAIN channels}

Init ==
  /\ role \in {"viewer", "operator", "admin"}
  /\ draft = EMPTY_DRAFT /\ calls = <<>>
  /\ list = IF role = "viewer" THEN [Cache!FirstLoad EXCEPT !.fetch = "idle"]
                               ELSE Cache!FirstLoad
  /\ channels = DEFAULT_CHANNELS
  /\ audited = {} /\ restarts = 0 /\ unsure = FALSE

Send(kind, ch) ==
  /\ Len(calls) < MaxCalls
  /\ calls' = Append(calls, [kind |-> kind, channel |-> ch, at |-> "sent",
                             awaited |-> TRUE, ok |-> FALSE])

Type ==
  /\ role = "admin"
  /\ \E id \in Ids : draft' = [draft EXCEPT !.id = id]
  /\ UNCHANGED <<role, calls, list, channels, audited, restarts, unsure>>

toggleSeverity(s) ==
  /\ role = "admin"
  /\ draft' = [draft EXCEPT !.severities = (@ \ {s}) \cup ({s} \ @)]
  /\ UNCHANGED <<role, calls, list, channels, audited, restarts, unsure>>

onSubmit ==
  /\ role = "admin" /\ ~Waiting("create")
  /\ draft.id # Blank /\ draft.severities # {}
  /\ Send("create", draft)
  /\ UNCHANGED <<role, draft, list, channels, audited, restarts, unsure>>

\* One button per row of the list; all of them wait while one test is pending.
sendTest(ch) ==
  /\ role # "viewer" /\ ~Waiting("test")
  /\ ~list.error /\ \E rows \in list.data : \E k \in DOMAIN rows : rows[k] = ch
  /\ Send("test", ch)
  /\ UNCHANGED <<role, draft, list, channels, audited, restarts, unsure>>

-----------------------------------------------------------------------------
(* AlertsChannelsController and ChannelRouterService. *)

\* Push, whether or not the id is taken; the audit row comes after.
addChannel(c) ==
  /\ calls[c].kind = "create" /\ calls[c].at = "sent"
  /\ channels' = Append(channels, calls[c].channel)
  /\ calls' = [calls EXCEPT ![c].at = "audit"]
  /\ UNCHANGED <<role, draft, list, audited, restarts, unsure>>

record(c) ==
  /\ calls[c].at = "audit"
  /\ audited' = audited \cup {c}
  /\ calls' = [calls EXCEPT ![c].at = "answer", ![c].ok = TRUE]
  /\ UNCHANGED <<role, draft, list, channels, restarts, unsure>>

\* testFire(): the first channel of that id.
testFire(c) ==
  /\ calls[c].kind = "test" /\ calls[c].at = "sent"
  /\ calls' = [calls EXCEPT ![c].at = "answer",
                            ![c].ok = calls[c].channel.id \in Registered]
  /\ UNCHANGED <<role, draft, list, channels, audited, restarts, unsure>>

\* The process restarts: the registry is the default one again, and requests
\* under way never get an answer of it.
Restart ==
  /\ restarts < MaxRestarts
  /\ restarts' = restarts + 1
  /\ channels' = DEFAULT_CHANNELS
  /\ calls' = [c \in DOMAIN calls |-> [calls[c] EXCEPT !.at = "over"]]
  /\ list' = IF list.fetch = "sent" THEN Cache!Fail(list) ELSE list
  /\ UNCHANGED <<role, draft, audited, unsure>>

-----------------------------------------------------------------------------
(* The answers. *)

Done(c) == calls' = [calls EXCEPT ![c].awaited = FALSE]

\* The draft is emptied, with whatever was typed since the form was sent.
onSuccess(c) ==
  /\ calls[c].awaited /\ calls[c].at = "answer"
  /\ Done(c)
  /\ IF calls[c].kind = "create"
     THEN /\ draft' = EMPTY_DRAFT
          /\ list' = Cache!Invalidate(list)
          /\ unsure' = (unsure \/ Cache!Joins(list))
     ELSE UNCHANGED <<draft, list, unsure>>
  /\ UNCHANGED <<role, channels, audited, restarts>>

onError(c) ==
  /\ calls[c].awaited
  /\ Done(c)
  /\ unsure' = (unsure \/ calls[c].kind = "create")
  /\ UNCHANGED <<role, draft, list, channels, audited, restarts>>

listChannels ==
  /\ list.fetch = "sent"
  /\ list' = Cache!Answer(list, channels)
  /\ UNCHANGED <<role, draft, calls, channels, audited, restarts, unsure>>

listArrives ==
  /\ list.fetch = "answered"
  /\ list' = Cache!Deliver(list)
  /\ UNCHANGED <<role, draft, calls, channels, audited, restarts, unsure>>

Next ==
  \/ Type \/ onSubmit \/ Restart \/ listChannels \/ listArrives
  \/ \E s \in Severities : toggleSeverity(s)
  \/ \E rows \in list.data : \E k \in DOMAIN rows : sendTest(rows[k])
  \/ \E c \in DOMAIN calls :
       addChannel(c) \/ record(c) \/ testFire(c) \/ onSuccess(c) \/ onError(c)

Spec == Init /\ [][Next]_vars

-----------------------------------------------------------------------------
(* Properties. *)

\* "Test delivery failed" for a channel that the list shows means that the
\* process has restarted and forgotten it: nothing else removes a channel.
TestFailsOnlyAfterRestart ==
  \A c \in DOMAIN calls :
    calls[c].kind = "test" /\ calls[c].at = "answer" /\ ~calls[c].ok => restarts > 0
==============================================================================
