-------------------------------- MODULE Console --------------------------------
(***************************************************************************)
(* The views of the console, each with the handlers and the data behind    *)
(* it.  A tab shows one view at a time and leaving it unmounts it, and the *)
(* views meet in nothing but the database, of which each module keeps what *)
(* its own view reads.  So a behaviour of the console is a behaviour of    *)
(* one of its views, while the others stay as they were at the start.      *)
(* LogReads is the list over Postgres with its export and its contexts.    *)
(***************************************************************************)
EXTENDS LogReads, TailBuffer

CONSTANTS
  Lines, Channels, Drafts, MaxEdits,                     \* AlertRules
  Ids,                                                   \* ChannelRegistry
  Ages, Windows, RETENTION_DAYS,                         \* Retention
  Urls, MaxLines,                                        \* TailView
  MINUTE, Table, LokiTable, Texts, Instants, Clock,      \* Explorer
  DefaultService, TopN, MaxClicks,
  NS_PER_MS, BatchSizes, LokiSpan, MaxMs, MaxBatches,    \* LokiList
  BURST_PAD, RANGE, QUANTUM, MaxFires, MaxDispatches,    \* Playground
  MaxClock,
  Incidents, MaxChanges,                                 \* IncidentView
  TOP_N, MaxRequests, Begin, Until,                      \* Overview
  Tenants, BadTenant, TrailLimit, MaxActs, MaxPicks,     \* Governance
  MaxCalls, MaxRestarts                                  \* bounds of several views

\* Bounds and sizes are numbers; ages and windows are whole days, and the table that is
\* swept is finite.
ASSUME StreamAssumption == MaxLines \in Nat /\ MaxRestarts \in Nat
ASSUME SweepAssumption ==
  /\ Ages \subseteq Nat /\ IsFiniteSet(Ages)
  /\ Windows \subseteq Nat \ {0} /\ RETENTION_DAYS \in Nat \ {0}
ASSUME TriggerAssumption ==
  BURST_PAD \in Nat /\ RANGE \in Nat /\ QUANTUM \in Nat \ {0}
ASSUME LokiListAssumption ==
  NS_PER_MS \in Nat /\ BatchSizes \subseteq Nat \ {0} /\ LokiSpan \in Nat
ASSUME HealthAssumption == Begin \in Int

VARIABLES
  page,   \* the view that is open
  ruleRole, ruleDraft, chosen, edits, ruleCalls, pendingId, ruleList, rules,
  ruleAudited, ruleUnsure,
  channelRole, channelDraft, channelCalls, channelList, channels, channelAudited,
  channelRestarts, channelUnsure,
  retentionDays, aged, sweeping, reading, retentionCalls, audit, retentionQuery,
  ttlInput, everInForce, retentionUnsure, overlapped, auditedBefore,
  retentionRestarts,
  tailUrl, enabled, source, failed, pending, raf, buffer, tailRows, tailPinned,
  explicitPause, newCount, prevCount, received, seenAt, disturbed, tailLines,
  tailRestarts,
  url, text, focused, tick, clicks,
  lokiClock, lineTime, pushed, pushing, entries, lokiReading, lokiWindow, startNs,
  endNs, listed, held,
  card, isFiring, firedAt, result, fires, workerCalls, written, waiting, loki, clock,
  incidentRole, incidentStatus, incidentList, incidentCalls, incidentChanged,
  incidentChanges,
  healthClock, served, buffered, stored, strip, storedThen,
  panel, identity, cached, trail, exported, picks

Rules == INSTANCE AlertRules WITH
  role <- ruleRole, draft <- ruleDraft, calls <- ruleCalls, list <- ruleList,
  audited <- ruleAudited, unsure <- ruleUnsure
Registry == INSTANCE ChannelRegistry WITH
  role <- channelRole, draft <- channelDraft, calls <- channelCalls,
  list <- channelList, audited <- channelAudited, restarts <- channelRestarts,
  unsure <- channelUnsure
Retain == INSTANCE Retention WITH
  rows <- aged, calls <- retentionCalls, query <- retentionQuery,
  unsure <- retentionUnsure, restarts <- retentionRestarts
Stream == INSTANCE TailView WITH
  url <- tailUrl, rows <- tailRows, pinned <- tailPinned, lines <- tailLines,
  restarts <- tailRestarts
Filter == INSTANCE Explorer
Loki == INSTANCE LokiList WITH
  Span <- LokiSpan, clock <- lokiClock, reading <- lokiReading, window <- lokiWindow
Trigger == INSTANCE Playground WITH calls <- workerCalls, lines <- written
Respond == INSTANCE IncidentView WITH
  role <- incidentRole, status <- incidentStatus, list <- incidentList,
  calls <- incidentCalls, changed <- incidentChanged, changes <- incidentChanges
Health == INSTANCE Overview WITH clock <- healthClock
Govern == INSTANCE Governance WITH Limit <- TrailLimit, entries <- cached

\* What may be typed into the form of a rule is a draft, what is counted are lines.
ASSUME RulesAssumption == Drafts \subseteq Rules!RuleDraft /\ Lines \subseteq Rules!Line

\* ApplicationLog has finitely many rows; each of them, and each entry of Loki, has a
\* level, a key, a message and a time; the name of the service is not empty, and
\* instants are numbers.
ASSUME FilterAssumption ==
  /\ \A row \in Table \cup LokiTable :
       /\ row.level \in Filter!Level /\ row.logKey \in Filter!LogKeys
       /\ row.message \in Filter!Messages /\ row.time \in Int
  /\ IsFiniteSet(Table) /\ DefaultService # Filter!Unset
  /\ Clock \in Seq(Int) \ {<<>>} /\ Instants \subseteq Int

\* A minute has two halves; the sizes of answers and panels are numbers.
ASSUME ChartsAssumption == MINUTE \in Nat \ {0, 1} /\ TOP_N \in Nat /\ TopN \in Nat

\* A tenant has a name, and none that the server keeps for itself.
ASSUME GovernAssumption ==
  /\ Tenants \cap {Govern!Unset, Govern!NO_TENANT_SENTINEL} = {}
  /\ TrailLimit \in Nat

ruleVars == <<ruleRole, ruleDraft, chosen, edits, ruleCalls, pendingId, ruleList,
              rules, ruleAudited, ruleUnsure>>
channelVars == <<channelRole, channelDraft, channelCalls, channelList, channels,
                 channelAudited, channelRestarts, channelUnsure>>
retentionVars == <<retentionDays, aged, sweeping, reading, retentionCalls, audit,
                   retentionQuery, ttlInput, everInForce, retentionUnsure,
                   overlapped, auditedBefore, retentionRestarts>>
tailVars == <<tailUrl, enabled, source, failed, pending, raf, buffer, tailRows,
              tailPinned, explicitPause, newCount, prevCount, received, seenAt,
              disturbed, tailLines, tailRestarts>>
filterVars == <<url, text, focused, tick, clicks>>
postgresVars == vars
lokiVars == <<lokiClock, lineTime, pushed, pushing, entries, lokiReading,
              lokiWindow, startNs, endNs, listed, held>>
triggerVars == <<card, isFiring, firedAt, result, fires, workerCalls, written,
                 waiting, loki, clock>>
incidentVars == <<incidentRole, incidentStatus, incidentList, incidentCalls,
                  incidentChanged, incidentChanges>>
healthVars == <<healthClock, served, buffered, stored, strip, storedThen>>
governVars == <<panel, identity, cached, trail, exported, picks>>
consoleVars == <<page, ruleVars, channelVars, retentionVars, tailVars, filterVars,
                 postgresVars, lokiVars, triggerVars, incidentVars, healthVars,
                 governVars>>

-----------------------------------------------------------------------------
(* A view that is not open is in one of its initial states, always the same. *)

ConsoleInit ==
  /\ page \in {"rules", "channels", "retention", "tail", "filter", "postgres",
               "loki", "trigger", "incidents", "overview", "governance"}
  /\ Rules!Init /\ (page # "rules" => ruleRole = "viewer" /\ rules = <<>>)
  /\ Registry!Init /\ (page # "channels" => channelRole = "viewer")
  /\ Retain!Init
  /\ Stream!Init /\ (page # "tail" => tailUrl = CHOOSE to \in Urls : TRUE)
  /\ Filter!Init /\ (page # "filter" => url = Filter!Home)
  /\ Init /\ (page # "postgres" => now = 1 /\ rows = {})
  /\ Loki!Init
  /\ Trigger!Init /\ (page # "trigger" => card = "level")
  /\ Respond!Init
  /\ page # "incidents" =>
       incidentRole = "operator" /\ incidentStatus = [i \in Incidents |-> "none"]
  /\ Health!Init
  /\ Govern!Init /\ (page # "governance" => panel = "views" /\ identity.role = "viewer")

ConsoleNext ==
  \/ /\ page = "rules" /\ Rules!Next
     /\ UNCHANGED <<page, channelVars, retentionVars, tailVars, filterVars,
                    postgresVars, lokiVars, triggerVars, incidentVars,
                    healthVars, governVars>>
  \/ /\ page = "channels" /\ Registry!Next
     /\ UNCHANGED <<page, ruleVars, retentionVars, tailVars, filterVars,
                    postgresVars, lokiVars, triggerVars, incidentVars,
                    healthVars, governVars>>
  \/ /\ page = "retention" /\ Retain!Next
     /\ UNCHANGED <<page, ruleVars, channelVars, tailVars, filterVars,
                    postgresVars, lokiVars, triggerVars, incidentVars,
                    healthVars, governVars>>
  \/ /\ page = "tail" /\ Stream!Next
     /\ UNCHANGED <<page, ruleVars, channelVars, retentionVars, filterVars,
                    postgresVars, lokiVars, triggerVars, incidentVars,
                    healthVars, governVars>>
  \/ /\ page = "filter" /\ Filter!Next
     /\ UNCHANGED <<page, ruleVars, channelVars, retentionVars, tailVars,
                    postgresVars, lokiVars, triggerVars, incidentVars,
                    healthVars, governVars>>
  \/ /\ page = "postgres" /\ Next
     /\ UNCHANGED <<page, ruleVars, channelVars, retentionVars, tailVars,
                    filterVars, lokiVars, triggerVars, incidentVars,
                    healthVars, governVars>>
  \/ /\ page = "loki" /\ Loki!Next
     /\ UNCHANGED <<page, ruleVars, channelVars, retentionVars, tailVars,
                    filterVars, postgresVars, triggerVars, incidentVars,
                    healthVars, governVars>>
  \/ /\ page = "trigger" /\ Trigger!Next
     /\ UNCHANGED <<page, ruleVars, channelVars, retentionVars, tailVars,
                    filterVars, postgresVars, lokiVars, incidentVars,
                    healthVars, governVars>>
  \/ /\ page = "incidents" /\ Respond!Next
     /\ UNCHANGED <<page, ruleVars, channelVars, retentionVars, tailVars,
                    filterVars, postgresVars, lokiVars, triggerVars,
                    healthVars, governVars>>
  \/ /\ page = "overview" /\ Health!Next
     /\ UNCHANGED <<page, ruleVars, channelVars, retentionVars, tailVars,
                    filterVars, postgresVars, lokiVars, triggerVars,
                    incidentVars, governVars>>
  \/ /\ page = "governance" /\ Govern!Next
     /\ UNCHANGED <<page, ruleVars, channelVars, retentionVars, tailVars,
                    filterVars, postgresVars, lokiVars, triggerVars,
                    incidentVars, healthVars>>

ConsoleSpec == ConsoleInit /\ [][ConsoleNext]_consoleVars

-----------------------------------------------------------------------------
(* The properties of the views; each is stated where its view is modelled. *)

\* rule-list.tsx, channel-registry.tsx, retention-panel.tsx and incident-list.tsx: a
\* panel that has nothing under way shows the server as it is, and a channel that is
\* shown is there to be tested until the process restarts.
QuietViewsAreCurrent ==
  /\ page = "rules" => Rules!QuietListIsCurrent
  /\ page = "channels" => Registry!TestFailsOnlyAfterRestart
  /\ page = "retention" => Retain!QuietPanelIsCurrent
  /\ page = "incidents" => Respond!QuietListIsCurrent

\* evaluateRule() counts what the form's preview draws, for the supported shapes and as
\* far as the window, the duration and the service of the two go together.
SupportedShapesCountWhatIsDrawn ==
  page = "rules" => Rules!SupportedShapesCountWhatIsDrawn

\* sweep() deletes no row that is younger than every window ever in force.
NoRowLeavesEarly == page = "retention" => Retain!NoRowLeavesEarly

\* PATCH /maintenance/retention: the window in force is one that this process has audited,
\* the last one unless two changes overlapped, or else that of the environment.
AuditNamesTheWindow == page = "retention" => Retain!AuditNamesTheWindow

\* useLogStream: every row of a tail that is on was sent for its URL.
NoForeignRows == page = "tail" => Stream!NoForeignRows

\* useLogStream and useFollowMode: the rows are the newest, and a paused tail's badge has
\* their number as long as the buffer was neither cleared nor full since the pause.
ShowsTheNewest == page = "tail" => Stream!ShowsTheNewest

\* LogsService, LogEventBus and query-compile.ts make the same of a filter, apart from the
\* keys that LIKE 'PAY_%' takes for the preset's and the others do not.
SourcesAgree == page = "filter" => Filter!SourcesAgree

\* QueryBar: submitting what the bar shows leaves the query as it is.
ResubmitKeepsTheQuery == page = "filter" => Filter!ResubmitKeepsTheQuery

\* The charts count the rows of the list over Postgres; the one over Loki has others.
PanelsCountTheList == page = "filter" => Filter!PanelsCountTheList

\* detail-drawer.tsx and facet-rail.tsx: a pivot from a row leads to the listed rows that
\* say the same, and a facet to as many rows over Postgres as the number beside it says.
NarrowingKeepsTheRows ==
  page = "filter" => Filter!PivotKeepsTheRow /\ Filter!FacetsCountTheList

\* LogsLokiService: pages over Loki repeat no entry that has a timestamp of its own, and
\* skip none but the one right below the end of a page.
LokiListIsStable == page = "loki" => Loki!LokiListIsStable

\* TriggerCard and DownstreamService: "View in Explorer" leads to the rows that Loki has
\* of the request, a minute after their stamps, and the outcomes of a dispatch are what
\* the worker did.
TriggersTellTheTruth ==
  page = "trigger" => Trigger!LinkLeadsToTheFire /\ Trigger!DispatchTellsTheTruth

\* incident-list.tsx and transition(): a click on a settled list that has seen every change
\* takes the incident through a change that its buttons offer, unless somebody else acts on
\* that incident before the request is applied.
TransitionsAreLegal == Respond!TransitionsAreLegal

\* prisma-log.destination.ts, /metrics and the overview: each tile tells of the failures,
\* the errors and the slow lines that its query found, and of nothing else.
TilesTellWhatIsStored ==
  page = "overview" => /\ Health!FailuresTurnTheStripRed /\ Health!FatalErrorNamesErrors
                       /\ Health!SlowLinesAreSeen

\* rbac.context.ts and the query keys: tenants and roles stay apart on the
\* Maintenance page, and what one writes one reads.
TenantsStayApart ==
  page = "governance" => Govern!NothingForeignIsShown /\ Govern!WhatOneWritesOneReads
================================================================================
