------------------------------ MODULE AlertRules -------------------------------
(***************************************************************************)
(* The rules half of the Alerts page: the form (rule-form.tsx), the list   *)
(* with its enable / disable buttons (rule-list.tsx), the query cache they *)
(* share, and on the other side alerts.rules.controller.ts with the table. *)
(* One tab, whose identity is chosen when it opens.  Requests of the tab   *)
(* are in flight together, may be answered in any order or never, and the  *)
(* administrator goes on typing meanwhile.                                 *)
(***************************************************************************)
EXTENDS RuleShapes, Sequences, SequencesExt

CONSTANTS
  Lines,       \* log lines a rule may be evaluated on
  Channels,    \* notification channels the form offers
  Drafts,      \* drafts that typing may lead to, beside the presets
  MaxCalls,    \* bound: POST and PATCH requests
  MaxEdits     \* bound: changes of the form

Cache == INSTANCE QueryCache

VARIABLES
  role,        \* the identity of the tab
  draft,       \* the form: its draft,
  chosen,      \* and the channels ticked
  edits,       \* bound counter
  calls,       \* the requests of the tab, in the order they were sent
  pendingId,   \* the row the list shows as busy, or 0
  list,        \* the ['alert-rules'] entry of the query cache
  rules,       \* the AlertRule table
  audited,     \* calls with an audit row or a failure notice
  unsure       \* history: an answer was lost, or a refetch joined the first load

form == <<draft, chosen, edits>>
vars == <<role, form, calls, pendingId, list, rules, audited, unsure>>

canEdit == role # "viewer"
Waiting(kind) == \E c \in DOMAIN calls : calls[c].kind = kind /\ calls[c].awaited
Rows(i) == {shown[i] : shown \in {rows \in list.data : ~list.error /\ i \in DOMAIN rows}}

Init ==
  /\ role \in {"viewer", "operator"}
  /\ draft = ErrorSpike /\ chosen = {} /\ edits = 0
  /\ calls = <<>> /\ pendingId = 0
  /\ list = Cache!FirstLoad
  /\ rules \in {<<>>, <<[expr |-> buildExpr(Heartbeat), threshold |-> 0,
                         forDuration |-> "1m", severity |-> "critical",
                         channels |-> Channels, isEnabled |-> TRUE]>>}
  /\ audited = {} /\ unsure = FALSE

-----------------------------------------------------------------------------
(* useRuleForm(). *)

\* A preset replaces the draft and unticks the channels.
applyPreset ==
  /\ edits < MaxEdits
  /\ \E d \in RULE_PRESETS : draft' = d
  /\ chosen' = {} /\ edits' = edits + 1
  /\ UNCHANGED <<role, calls, pendingId, list, rules, audited, unsure>>

\* One patch of the draft, to another draft that may be typed; the name is left out.
Edit(fields) ==
  /\ edits < MaxEdits
  /\ draft' \in Drafts \ {draft}
  /\ \E f \in fields : draft' = [draft EXCEPT ![f] = draft'[f]]
  /\ edits' = edits + 1
  /\ UNCHANGED <<role, chosen, calls, pendingId, list, rules, audited, unsure>>

\* The groups of fields of the form; a level is switched on or off.
MetricSeverityFields == Edit({"metric", "severity"})
LevelToggles == Edit({"levels"}) /\ \E level \in Level :
                  draft.levels \cup draft'.levels = (draft.levels \cap draft'.levels) \cup {level}
LogKeyField == Edit({"logKey", "grouped"})
ThresholdFields == Edit({"comparator", "threshold", "window", "forDuration"})

toggleChannel(ch) ==
  /\ canEdit
  /\ edits < MaxEdits
  /\ chosen' = (chosen \ {ch}) \cup ({ch} \ chosen)
  /\ edits' = edits + 1
  /\ UNCHANGED <<role, draft, calls, pendingId, list, rules, audited, unsure>>

Send(kind, i, body) ==
  calls' = Append(calls, [kind |-> kind, rule |-> i, body |-> body,
                          at |-> "sent", awaited |-> TRUE])

\* The button is disabled for viewers, while a creation is pending and while a
\* field is invalid; the mutation carries the draft of this moment.
onSubmit ==
  /\ canEdit /\ ~Waiting("create") /\ FormAccepts(draft)
  /\ Len(calls) < MaxCalls
  /\ Send("create", 0,
          [expr |-> buildExpr(draft), threshold |-> draft.threshold,
           forDuration |-> draft.forDuration, severity |-> draft.severity,
           channels |-> chosen, isEnabled |-> TRUE])
  /\ UNCHANGED <<role, form, pendingId, list, rules, audited, unsure>>

\* The button of a row of the list: PATCH with the opposite of what it shows.
toggle(i) ==
  /\ canEdit /\ pendingId # i
  /\ Len(calls) < MaxCalls
  /\ \E row \in Rows(i) :
       Send("patch", i, [row EXCEPT !.isEnabled = ~@])
  /\ pendingId' = i
  /\ UNCHANGED <<role, form, list, rules, audited, unsure>>

-----------------------------------------------------------------------------
(* AlertsRulesController. *)

Reaches(c, stage) == calls' = [calls EXCEPT ![c].at = stage]

create(c) ==
  /\ calls[c].kind = "create" /\ calls[c].at = "sent"
  /\ canEdit /\ SchemaAccepts(calls[c].body)
  /\ rules' = Append(rules, calls[c].body)
  /\ Reaches(c, "audit")
  /\ UNCHANGED <<role, form, pendingId, list, audited, unsure>>

\* 403 for a viewer, 400 for what the schema does not take.
refuse(c) ==
  /\ calls[c].kind = "create" /\ calls[c].at = "sent"
  /\ ~(canEdit /\ SchemaAccepts(calls[c].body))
  /\ Reaches(c, "refused")
  /\ UNCHANGED <<role, form, pendingId, list, rules, audited, unsure>>

\* updateRuleSchema is createRuleSchema.partial(), where `channels` keeps its
\* default: a body that only has isEnabled also sets channels to [].
patch(c) ==
  /\ calls[c].kind = "patch" /\ calls[c].at = "sent"
  /\ rules' = [rules EXCEPT ![calls[c].rule].isEnabled = calls[c].body.isEnabled,
                            ![calls[c].rule].channels = {}]
  /\ Reaches(c, "audit")
  /\ UNCHANGED <<role, form, pendingId, list, audited, unsure>>

\* audit.record() is fail-soft: a row or a notice, and the answer follows.
record(c) ==
  /\ calls[c].at = "audit"
  /\ audited' = audited \cup {c}
  /\ Reaches(c, "answer")
  /\ UNCHANGED <<role, form, pendingId, list, rules, unsure>>

-----------------------------------------------------------------------------
(* The answers: onSuccess / onError, then onSettled. *)

Done(c) == calls' = [calls EXCEPT ![c].awaited = FALSE]
onSettled(c) ==
  pendingId' = IF calls[c].kind = "patch" THEN 0 ELSE pendingId

onSuccess(c) ==
  /\ calls[c].awaited /\ calls[c].at = "answer"
  /\ Done(c) /\ onSettled(c)
  /\ list' = Cache!Invalidate(list)
  /\ unsure' = (unsure \/ Cache!Joins(list))
  /\ UNCHANGED <<role, form, rules, audited>>

\* A refusal, or a network error at any point: the server may still go on.
onError(c) ==
  /\ calls[c].awaited
  /\ Done(c) /\ onSettled(c)
  /\ unsure' = (unsure \/ calls[c].at # "refused")
  /\ UNCHANGED <<role, form, list, rules, audited>>

listRules ==
  /\ list.fetch = "sent"
  /\ list' = Cache!Answer(list, rules)
  /\ UNCHANGED <<role, form, calls, pendingId, rules, audited, unsure>>

listArrives ==
  /\ list.fetch = "answered"
  /\ list' = Cache!Deliver(list)
  /\ UNCHANGED <<role, form, calls, pendingId, rules, audited, unsure>>

listFails ==
  /\ list.fetch # "idle"
  /\ list' = Cache!Fail(list)
  /\ UNCHANGED <<role, form, calls, pendingId, rules, audited, unsure>>

Next ==
  \/ applyPreset \/ MetricSeverityFields \/ LevelToggles \/ LogKeyField
  \/ ThresholdFields \/ onSubmit
  \/ \E ch \in Channels : toggleChannel(ch)
  \/ \E i \in DOMAIN rules : toggle(i)
  \/ \E c \in DOMAIN calls :
       create(c) \/ refuse(c) \/ patch(c) \/ record(c) \/ onSuccess(c) \/ onError(c)
  \/ listRules \/ listArrives \/ listFails

Spec == Init /\ [][Next]_vars

-----------------------------------------------------------------------------
(* Properties. *)

\* Whatever creations and toggles overlapped, and however their answers and the
\* refetches crossed, a list with nothing in flight shows the table - unless an
\* answer was lost, or a mutation finished before the list had first loaded.
QuietListIsCurrent ==
  (Cache!Settled(list) /\ ~unsure /\ \A c \in DOMAIN calls : ~calls[c].awaited)
    => list.data = {rules}

\* The shapes the evaluator knows, as the form prints them.
SupportedShape(expr) ==
  \/ expr.levels = {"error", "fatal"} /\ expr.logKey = NoKey
  \/ OnlyKey(expr, "rate")
  \/ IsAbsence(expr)

\* Of a saved rule of a supported shape the evaluator counts what the series of the
\* form's preview hold between them, as far as their bounds go together: the preview
\* is of the api and of the window, the evaluator is of every service and of the
\* duration that was saved.
SupportedShapesCountWhatIsDrawn ==
  \A i \in DOMAIN rules :
    LET rule == rules[i] IN
    SupportedShape(rule.expr) =>
      {l \in Counted(rule, Lines) : l.service = "api" /\ l.age <= Minutes[rule.expr.window]}
        = {l \in UNION Drawn(rule.expr, Lines) : l.age <= Minutes[rule.forDuration]}

\* "Any FATAL: count(level = fatal) over 1m >= 1" is one of the four shapes that
\* the evaluator says it supports and the form offers as a preset: a rule made
\* from a preset breaches on lines of its own, and on those alone.
PresetsBreachOnTheirLines ==
  \A i \in DOMAIN rules, table \in SUBSET Lines :
    rules[i].expr.comparator # "==" /\ isBreaching(rules[i], table) =>
      \E l \in table : InSubject(rules[i].expr, l)
==============================================================================
