# A TLA+ model of nest-logger-example

Specifications, model-checking configurations and machine-checked proofs for this
repository: the log destinations of `apps/api`, its alerting, its read API over the log
table, its retention and audit, the live tail that runs from a log call to a dashboard
tab, and the views of the console in `apps/web`, each with the handlers and the data
behind it.

TLC explores every behaviour of small instances; TLAPS proves the safety
properties for all values of the constants. Paths below are relative to the repository's
root; `PROJECT.json` maps every definition to the lines it stands for.

1. [The system](#1-the-system) - parts, state, operations, interactions, hard behaviours
2. [Plan](#2-plan) - modules, in order, and how they compose
3. [The modules](#3-the-modules) - how state and actions correspond to the code
4. [The runs](#4-the-runs) - what each shows, bounds, fairness
5. [The proofs](#5-the-proofs) - what holds for every instance, and why
6. [Where the code and its documents differ](#6-where-the-code-and-its-documents-differ)
7. [What is only model-checked, and what is not modelled](#7-limits)

---

## 1. The system

`apps/api` is one NestJS process. Every log line goes through the logger library to a
list of *destinations* (`apps/api/src/logger/logger.config.ts`): Loki over HTTP,
Postgres over Prisma (warn and above), an in-process bus for the live tail, and in
development a rolling file. The same process serves the stored lines back: paged
lists, exports, context, aggregates, a Server-Sent-Events tail. A cron evaluates alert
rules against the stored rows and opens and resolves incidents, which operators
transition over HTTP. A nightly sweep deletes old rows. `apps/worker` is a second,
almost stateless service that the API calls. `apps/web` is a Next.js dashboard.

### Components

| Component | State | Operations | What makes it correct |
|---|---|---|---|
| Prisma destination (`destinations/prisma-log.destination.ts`) | buffer, timer, `flushChain` | onInit, write, timer tick, flush (await), onShutdown (two awaits) | every line is stored or reported, once; batches do not overlap and keep their order; shutdown drains; no line waits for ever |
| Loki destination (`destinations/loki.destination.ts`) | the same, and the batch clock | the same, with a size guard, a 10 s abort and computed timestamps | the same; timestamps follow the clock |
| Live-tail bus and SSE (`logs/log-event.bus.ts`, `logs/logs.sse.controller.ts`, `destinations/event-bus.destination.ts`) | subscriptions, one replay generator per connection | publish, replay query, merge | after any breaks and reconnects a tail shows what it owes, in order, and what it does not owe has a reason |
| Live-tail client (`apps/web/lib/use-event-source.ts`, the proxy `apps/web/app/api/logs/stream/route.ts`) | EventSource, Last-Event-ID, shown rows | open, retry, refused, idle stop, resubscribe | as above, end to end |
| Read API (`logs/logs.controller.ts`, `logs.export.service.ts`, `logs.context.service.ts`) | none of its own; a cursor per reader | list page, count + export batches, anchor / before / after | pages never repeat or skip what was there all along, whatever moves underneath |
| Query compiler (`logs/logs.service.ts`, and again in the bus, the aggregates and `apps/web/lib/query-compile.ts`) | none | windows, keyset cursors, field filters, LogQL | the renderings of a query select the same rows |
| Loki list (`logs.loki.service.ts`, `loki.client.ts`) | none; a cursor per reader | page after page of timestamps | pages neither repeat nor skip an entry |
| Facets, aggregates (`logs.facets.service.ts`, `logs.aggregate.service.ts`) | none | one statement each | what panels count is what the list has; bucket grids that join |
| Alert evaluator (`alerts/alerts.evaluator.service.ts`) | the Incident table | cron tick: rules, count, find, create / resolve | one incident per breach; a breach is reported, a quiet rule is cleared |
| Incident controller (`alerts/incidents.controller.ts`) | the Incident table | PATCH: read, update, audit | the timeline and the status agree; each change is audited |
| Alert rules and channels (`alerts.rules.controller.ts`, `alerts.channels.controller.ts`, `channel-router.service.ts`; on the page `rule-form.tsx`, `rule-list.tsx`, `channel-registry.tsx`) | a table; an in-memory channel list; forms and query cache | list, create, toggle, test-fire | a rule counts what its preview drew; the lists show the server |
| Saved views, RBAC (`views.controller.ts`, `rbac.context.ts`; on the page `use-rbac.ts`, `audit-table.tsx`, `redaction-hero.tsx`, `export-panel.tsx`) | a table; the identity in the URL | headers to role, tenant and restriction | tenants and roles stay apart |
| Audit (`governance/audit.service.ts`) | AuditLog table | record, fail-soft | nothing is audited that did not happen; a change that was answered has a row or a notice |
| Retention (`governance/retention.sweep.service.ts`, `maintenance.controller.ts`) | an in-memory window, the last sweep | sweep, read and set the window | the window in force is one that this process has audited, or the environment's |
| Process lifecycle (`main.ts`, `instrumentation.ts`, `prisma.service.ts`) | `isShuttingDown` | signals, `app.close()`, span flush, exit | destinations drained, then spans, then exit; once |
| Demo domain, dispatch, worker (`trigger/`, `orders/`, `payments/`, `pii-demo/`, `downstream.service.ts`, `apps/worker`; on the page `trigger-card.tsx`) | none | a fired route logs and answers; two calls with a 3 s deadline | the answer is true, and the link leads to the lines |
| Explorer filter (`lib/filters.ts`, `query-bar.tsx`, `facet-rail.tsx`, `detail-drawer.tsx`, charts and pickers) | the URL, the text of the bar | a dozen controls | what a control promises is what the query selects |
| Explorer table (`use-event-source.ts`, `use-follow-mode.ts`) | ring buffer, pending frame, badge | message, frame, scroll, pause, clear | the rows are the newest of this filter |
| Overview (`health-strip.tsx`, `slo-gauge.tsx`, other charts) | entries of the query cache | refetch | tiles tell what is stored |
| Rolling file (`rolling-file.destination.ts`), config, logger wiring, validation, static pages | small or none | see `PROJECT.json` | - |

### Interactions

- Logger -> destinations: synchronous `write()` calls, in registration order. A
  destination may never throw and may never log from its own write path.
- Destinations -> stores: asynchronous, batched, fail-soft. A failure is a notice on
  stderr and nothing else; there is no retry anywhere.
- `EventBusLogDestination` -> `LogEventBus` -> every open SSE response: synchronous, at
  the time of the write; the same line reaches Postgres seconds later, with its batch,
  or never (below `warn`, or the batch failed).
- A reconnecting browser -> SSE controller -> a Postgres query: the replay reads the
  store that the Prisma destination is still filling.
- Readers, destinations and the retention sweep share `ApplicationLog` with no
  transactions: each statement is atomic, a sequence of them is not.
- Evaluator ticks and PATCH handlers share `Incident` in the same way.
- Signals -> `app.close()` -> `onShutdown()` of each destination, last registered first.
- A panel of the console -> a query cache entry -> a handler: several requests of one tab
  are in flight at once; a mutation that succeeds invalidates the entry it changed.
- The filter lives in the URL: every control writes it, every request is made of it.
- Identity travels in headers with each request; answers come back under the cache key
  of the identity that asked.

### What is hard here

- *Interleaving on one event loop.* Every `await` is a point where any other turn can
  run: a flush that is in flight and the writes, ticks and flushes around it; the two
  awaits of `onShutdown()`; two cron ticks; a PATCH and a tick.
- *Reads that are stale when used*: the open-incident check before a create, the
  timeline copied before an update, the export's count before its pages, the replay
  query before the buffered batch; a list under a button; a status counted under one
  window and reported under the next; a strip of tiles whose queries straddle a flush.
- *Memory that a restart forgets*: the retention window, the channels.
- *Loss without retry*: rejected writes that may have committed, pushes stored in part,
  broken connections, audit rows that fail after the change, reconnections without a cursor.
- *One meaning written several times*: a filter compiled for Postgres, raw SQL, Loki, the
  bus and the preview; a rule drawn as LogQL and read back by regular expressions.
- *Ordering*: batches, merged replay and live lines, timestamps computed per batch, late
  rows inserted below a cursor.
- *Limits*: batch size, body size, replay `take`, page size, export cap, millisecond
  ties between synthetic and stored ids.
- *Things that must happen*: a partial batch must leave, a shutdown must end, a breach
  must be reported, a tail must catch up.

`PROJECT.json` lists these one by one under `hazards`, at their lines, with the
properties that answer for them.

---

## 2. Plan

Most important behaviour first.

1. **Batched destinations**: `LogSink` (what a buffering destination promises),
   `FlushChain` (the machinery both destinations share), `PrismaLogDestination` and
   `LokiDestination` on top of it, both shown to implement `LogSink`. Proofs of the
   accounting, the serialization, the order, the drain, the timestamps and both
   refinements.
2. **Incidents**: the evaluator and the PATCH handler on one table. Proofs of the bound
   on open incidents, of the agreement of status and timeline, of the audit.
3. **Live tail**: bus, replay, merge, EventSource, Last-Event-ID, end to end. Proofs of
   the order per source and of the statement that explains every missing line.
4. **Paged reads**: list, export and context while rows are inserted and swept. Proofs
   that nothing that was there all along is missed.
5. **Process shutdown**: the signal handlers, `app.close()`, the order in which
   destinations drain, the span flush, with one `LogSink` per destination, so that what
   is proved of the destinations carries over. Proofs of all its safety properties.
6. **Views of the console**, each a module of its own from the click to the store:
   `AlertRules` (on `RuleShapes`), `ChannelRegistry`, `IncidentView`, `Retention`,
   `Governance`, `TailView` (on `TailBuffer`), `Explorer` (on `LogQueries` and `Charts`),
   `LokiList`, `Playground`, `Overview` (on `Charts`). All that keep server data use
   `QueryCache`. Proofs of the inductive invariant of each view, and of the sums that
   charts and tiles are made of.
7. **`Console`** composes them with `LogReads`: a tab shows one view at a time. Proof that
   it implements each view, so that their theorems are theorems about it.

What would come next, were it worth it: the drawer's context query under a switched
identity (it needs `Governance` and the drawer in one module), the start-up of both
services, and the rolling file once the library's order of opening is known.

---

## 3. The modules

One action is one turn of the event loop or one atomic database statement; what a
handler does between two awaits is never split. Names follow the source. Operators
that begin with `Bad` are seeded faults: each is a plausible bug in the operator that
follows it, and the property it is meant for must fail when it is put in its place.
Request bodies that the validation pipe refuses are never sent.

### `LogSink` - what a destination promises

`accepted`, `promised` and `settled` lines and a `mode`. A line settles once, by being
stored or by being covered by a notice. `Close` (the resolution of `onShutdown()`) is
only possible when every line accepted before `onShutdown()` was called has settled.
Lines written later are accepted, and nothing is promised about them: that is what the
code does, since `write()` never looks at the shutdown.

### `FlushChain`, `PrismaLogDestination`, `LokiDestination`

The two destinations share their buffer, timer and chain line for line, so the
machinery is one module and each destination adds its own `flush()`.

| Model | Code |
|---|---|
| `buffer`, `timer` | `this.buffer`, `this.flushTimer` |
| `links` | callbacks chained on `flushChain` that have not started |
| `inflight` | calls of `flush()` suspended at `createMany` / `fetch`, with their batch |
| `phase`, `ahead` | how far `onShutdown()` is, and how many flushes its `await this.flushChain` still waits for |
| `Write`, `TimerTick`, `OnInit` | `write()`, the interval callback, `onInit()` |
| `StartChained(refused)` | a chained flush up to its await: takes the whole buffer |
| `BeginShutdown`, `StartDrain(refused)` | the two turns of `onShutdown()`; its own flush is *not* on the chain |
| `Finish(f, kept, failed)` | the turn after the await, success or catch branch |
| `stored`, `reported`, `upto` | history: what the store has, what stderr was told, what was accepted before the shutdown |

`ahead` exists because reactions on one promise run in the order they were registered:
`onShutdown()` resumes before any flush chained after it, and only waits for those
chained before. `PrismaLogDestination` refuses single lines (`toRow()` returning null)
and `createMany` is all or nothing, though a failed call may have committed.
`LokiDestination` refuses a whole batch over `maxBodyBytes`, may store any part of a
failed push, and stamps the k-th line of a batch with `now * NsPerMs + (k - 1)`.

### `Shutdown`

How the API process ends, composed from one abstract sink per destination
(`accepted[s]`, `promised[s]`, `settled[s]`, `mode[s]`: the state of a `LogSink`).

| Model | Code |
|---|---|
| `handlers` | the two `process.once` listeners of `main.ts` |
| `stage` | `isShuttingDown`, and how far the chain `app.close()` / `otelSdk.shutdown()` / `process.exit(0)` is |
| `Signal(sig)` | the listener, which runs once and starts the chain if none is running; or, with no listener left, the kill |
| `HttpClosed` | Nest's `app.close()` waiting for open responses, tails included |
| `BeginClose(s)`, `Close(s)` | `onShutdown()` of a destination, last registered first |
| `Disconnect`, `DisconnectFails` | `PrismaService.onApplicationShutdown()`, before or after the destinations; a rejection skips what follows |
| `SpansDone` | `otelSdk.shutdown()` settles and the `finally` exits |

Destinations are numbered in the order `buildDestinations` registers them. The order of
Nest's shutdown steps and of the logger library's drain is external: it is taken from
what `main.ts`, `docs/DEPLOYMENT.md` and `test/destinations.lifecycle.e2e-spec.ts` rely on.

### `Incidents`

`incidents` is the table; `task[t][r]` is `evaluateRule()` of tick `t` for rule `r`,
`request[q]` a PATCH handler: where it is, and the row it read (`seen`). `WriteRow`
replaces the timeline by the one *read* plus an entry, as both writers do. The cron can
start a tick while another is under way (`Ticks` bounds how many). Whether a rule
breaches is one environment bit; the expression parser and the counting query are data.
A rejected query of the evaluator ends the tick for that rule; a rejected update is a
500 before the audit; a rejected audit insert is a notice. A rejected write may have been
committed before its answer was lost: then the incident has changed and neither a row nor
a notice says so, or the audit has both the row and the notice of its loss.

### `LiveTail`

From `write()` to the row on the screen, for one tab. `log` is everything written,
`stored` the rows of Postgres (`FlushBatch` stores a prefix of the buffer, or loses it).
`Connect` subscribes the live feed and, with a cursor, sends the replay query;
`QueryAnswers` takes its snapshot; `YieldRow` writes one replayed row into the response,
between any live ones; `Deliver` is `onmessage`: it shows the row and moves
Last-Event-ID. `Drop` loses what is in flight, `Refuse` is an error answer after which an
EventSource gives up, `IdleStop` the hook's guard, `Resubscribe` a changed URL (which
forgets the cursor, and may carry a `to`). A cursor is a line and whether its id was the
synthetic `live-...`, which sorts after every row id of its millisecond. `KeepAlive` is the
event of type "ping" that an idle connection gets every 15 seconds: the hook does not
listen to it, but Nest's SSE stream gives it an id from a counter, so it replaces
Last-Event-ID by one that `decodeCursor()` refuses, and the connection made with it
(`PingId`) replays nothing. The action is its arrival, which is possible whenever the
connection is open; the id of the next line replaces its own.

`excused` records, when they happen, the reasons for which a tail is not bound to show
a line: not stored when the replay was answered, past the window or the `take`, tied
with a live cursor, overtaken by a live line when the connection broke, or written before a
connection that has no cursor to resume from, be it the first one or one after a
keep-alive. The property is then that there is *no other* reason.

### `LogReads`

A row is its place in the keyset order (time, id). `Insert` may put a row anywhere at or
before the present, since batches are late; `Sweep` deletes everything older than a
cutoff; a deleted id is never reused. `ListPage`, `ExportBatch`, `ContextBefore` and
`ContextAfter` are one statement each. A default window moves with the clock for the
list (each page is a new request) and is fixed for an export (its where clause is built
once). `Steady` is the yardstick: rows that were in the window when the reader started
and still are. One reader is followed at a time; readers do not write.

### The views of the console

Each of the modules below follows one view: what the user does, the request that it
sends, the handler, the store as far as this view reads it, what others do to it
meanwhile, the answer and what is shown. A request that the handler serves with several
database statements takes several steps.

| Module | State | Actions | Abstracted |
|---|---|---|---|
| `QueryCache` | one entry of TanStack Query's cache: data, the state of its one fetch, the answer on its way, an error | operators: `Answer`, `Deliver`, `Fail`, `Refetch`, `Invalidate`, which cancels a fetch under way but joins a first load | retries and garbage collection |
| `RuleShapes` | - | `buildExpr`, `Drawn` (the series of the previewed LogQL, over its range and by its grouping), `parseExpr`, `parseDuration`, `Counted`, `isBreaching`: a rule as drawn, as stored, and as evaluated | an expression is the fields that are printed; a regular expression is a condition on them |
| `AlertRules` | draft, ticked channels, requests, busy row, list, `AlertRule` table, audit | typing, presets, create, toggle (PATCH with partial update), answers lost or out of order | names, annotations |
| `ChannelRegistry` | draft, requests, list, the process's channels | add, test-fire, restart | endpoint, type, name |
| `IncidentView` | identity, `Incident` rows, list, requests | transitions, the evaluator and other responders, polls | the two halves of the handler, which `Incidents` has |
| `Retention` | the window in force, rows, the sweep and the GET under way, requests, audit, panel | `sweep` / `deleteMany`, `getStatus` / `count` / `returnStatus`, PATCH in three steps, restart, typing, saving | a row is its age |
| `Governance` | identity, cache entries by key, audit trail and views, exports | switching identity, opening a panel, audited changes, saving a view, same-record comparison, export | contents of events |
| `TailBuffer`, `TailView` | EventSource, pending frame, ring buffer, rows, badge | message, frame, error, idle stop, resubscribe, clear, scroll, pause, jump | the wire, which `LiveTail` has |
| `LogQueries` | - | `buildPrismaWhere`, `extractFilters` and its SQL, `buildLogQl`, `matches`, `toSqlWhere`, tenant restrictions | a compiled query is a set of clauses: column, values let through |
| `Charts` | - | `resolveBucket`, `generate_series`, `volume`, `latency`, `statusMix`, facets and what panels make of them | a share is a fraction, a percentile a number of hundredths of a millisecond |
| `Explorer` | the URL, the text and focus of the query bar, the clock | every control of the Explorer and the Overview that changes the filter; what is `Listed` depends on the source | both tables are constant: `LokiTable` has info and above, `Table`, of Postgres, warn and above |
| `LokiList` | batches pushed and stored, one list with its window and cursor | push, page (`query_range`, whose end is exclusive), failed page | log lines are entries with stamp and time |
| `Playground` | card, result, fires with their lines, the lines that wait for Loki and the rows it has, the two worker calls | fire, handler, worker, deadline, answer, push or loss of a batch, clock; what a page behind the link lists (`Linked`), whenever it was opened | contents of the lines; a push takes no time |
| `Overview` | requests served, buffered and stored lines, cache entries of the strip | serve (the line of the interceptor or of the application), catch (that of the exception filter), flush, each query, the clock, which changes the window and the keys | one service, one relative range |
| `Console` | all of the above and the open page | `Next` of the view that is open | see below |

**`Console`.** Leaving a page unmounts it, and views share nothing but the database and
the URL. Each module keeps what its own view reads of the database, and the changes that
others make to it as environment actions. So a behaviour of the composition is a behaviour
of one view, the others staying in an initial state: one model-checking run covers all
views, and each property of `Console` is the property of a view under the condition that
the view is open. What actors of two views do to the same rows - a sweep under a list,
ticks under a transition - is inside the module of the view that suffers it.

**Some readings of the code.** Where a list or a link can be read in two ways, the modules
follow the handler:

- *Which list.* The Explorer lists from Loki by default (`LogsController.list()`), while
  facets, charts and the overview aggregate Postgres only. A pivot is held against the list
  that is shown, a facet or a panel against the list over Postgres.
- *Which window.* `useLogQuery()` rounds the present down to the half minute and refreshes it
  every half minute from the moment the page was opened. So the end of a link's range lies
  up to a minute behind, and Loki leaves the end out.
- *Which rows.* The API's lines reach Loki with the batch they were buffered in, stamped
  when it is pushed, or never; those of the worker have no destination at all.
- *Which line.* A failed request writes a line in the interceptor and one in the exception
  filter, and a batch may be flushed between the two; a request that goes well may write
  one of the application at warn or error.

**Reading a history variable.** `unsure`, `changed`, `disturbed`, `overlapped` and
`auditedBefore` record what happened, never influence a step, and name the exceptions of a
property. An exception is only there where the code has it: an answer that is lost leaves
a list stale until the next refetch, a first load is joined and not cancelled by an
invalidation, two PATCH requests may be audited in the other order, a restart puts the
environment's window back in force. `storedThen` is no exception but a yardstick: what the
table held when the query of a tile was answered.

### Proof modules

| Module | What it proves |
|---|---|
| `DestinationProofs` | the shared chain, one lemma per action, for any set of refused lines; then both destinations on top of it |
| `ShutdownProofs`, `IncidentsProofs`, `LiveTailProofs`, `LogReadsProofs`, `RetentionProofs` | the module they are named after |
| `PanelProofs` | of `Console`, the panels that change what the server keeps - rules, channels, incidents, governance - and the filter with its panels; induction over finite sets, and sums |
| `ConsoleProofs` | the tail's view, the Loki list, the triggers and the Overview, and the composition: what each view promises, as a theorem about `ConsoleSpec` |

---

## 4. The runs

`tlc -workers 2 -config <cfg> <module>`; the cfg of a run is named in `PROJECT.json`.

| Run | Instance | What it shows |
|---|---|---|
| `prisma` | 5 lines, batches of 2, 2 queued flushes, lines 2 and 3 unparsable | accounting, one request at a time and stored order until the final flush, shutdown drains, refinement of `LogSink`; and, fairly, promised lines settle and shutdown ends |
| `loki` | 4 lines, batches of 2, 2 lines per body, 2 ns per ms, 2 clock values | refinement with the size guard and partial pushes; timestamps follow the clock; promised lines settle and shutdown ends because a push is aborted |
| `incidents` | 1 rule, 2 overlapping ticks, 1 requester with all three actions, 3 incidents, 2 changes, 1 failure | status agrees with the timeline; nothing is audited that was not applied, and what was answered is audited or its loss reported, although any write may fail before or after it commits; the bound on open incidents; a lasting breach is open again and again; a lasting quiet ends with none open |
| `live_tail` | 4 lines, 2 milliseconds, `take` of 2, keep-alives at any time (2.8 million states, about three minutes) | nothing is missing without one of the recorded reasons, replayed and live rows are each in order, an open connection catches up |
| `shutdown` | 2 destinations, 3 lines each, 1 request and 1 tail, all three signals | the handler exits last, request lines are promised, each destination behaves as a `LogSink`, and a shutdown waits for nothing but an open tail |
| `console` | the bounds of `MCConsole.cfg` (3.6 million states, about three minutes) | the eighteen properties below |
| `incidents_overlap`, `incidents_lost_update`, `live_tail_gap`, `rule_presets`, `volume_chart`, `loki_list_seam` | smaller | the disagreements of section 6 |

The properties of `console`:

| Property | View | What it says |
|---|---|---|
| `ListMissesNothing`, `ExportCutsOnlyTheTail`, `ContextIsNearest` | `LogReads` | a list or an export misses no row that was there all along, but for those past the cap; the context has the nearest rows |
| `QuietViewsAreCurrent` | rules, channels, retention, incidents | a panel with nothing under way shows the server; a channel that is shown can be tested until the process restarts |
| `SupportedShapesCountWhatIsDrawn` | rules | of a rule of a supported shape the evaluator counts the lines that the series of the preview hold between them, among the api's lines that lie within both the previewed window and the saved duration - the two may differ, see section 6 |
| `NoRowLeavesEarly`, `AuditNamesTheWindow` | retention | no sweep takes a row younger than every window that was in force; with no PATCH under way the window in force is the environment's if this process has audited none (after a restart too, whatever the last row of the trail says), else one it has audited, the last one unless the newest change came in the middle of another |
| `NoForeignRows`, `ShowsTheNewest` | tail | rows belong to the URL of the render, are the newest, in order; a reader who follows has no badge, and the badge of one who does not is the number of rows since, until rows are evicted or cleared |
| `SourcesAgree` | filter | SQL, raw SQL, LogQL, bus and preview select the same rows: raw and previewed SQL apart from the preset `PAY_*`, whose `LIKE 'PAY_%'` takes any letter for its underscore; LogQL for its service and without a free text; the tail where it is restricted to the filter's tenant |
| `ResubmitKeepsTheQuery`, `NarrowingKeepsTheRows`, `PanelsCountTheList` | filter | the bar's text means the query; a pivot leads to the rows of the list, whichever its source, that say the same; a facet's number is the length of the list over Postgres that it leads to; bars, stacks and slices add up to the rows of the list over Postgres, and the tenants' bars with their "other" to the rows that have a tenant, if the facets have them all |
| `LokiListIsStable` | Loki list | of the entries that share their stamp with none, none is on two pages, and none is skipped but the one right below the end of a full page |
| `TriggersTellTheTruth` | triggers | the link of a result leads to every row that Loki has of the fire, from a minute after its stamp until it is a quarter of an hour old (the ticks of a burst: if they were pushed within a minute of the answer); a dispatch is "ok" only if the worker did it, and is logged once |
| `TransitionsAreLegal` | incidents | a click on a settled list that has seen every change is a change that the console offers for the status the incident then has, unless somebody else acts on it before the request is applied; other clicks may be stale |
| `TilesTellWhatIsStored` | overview | each tile tells of the lines that were stored when its own query was answered, half a request included: the Errors tile, gauge and chart are red for failures and nothing else, FATAL+ERROR for server failures, for refusals that the filter told of and for error lines of the application, and nothing else; slow lines show, unless `TOP_N` keys are as frequent |
| `TenantsStayApart` | governance | a panel shows an identity what the server would give it, and what one writes one reads |

### Why the bounds are enough

- Destinations: five lines and batches of two give two full batches and a remainder, so
  a running flush, a queued one and a part-filled buffer exist at once, with a shutdown
  at any point and lines written after it. `MaxLinks` only bounds what the *timer* adds;
  full batches chain without limit. Two refused neighbours give a batch with nothing to
  send and two that are mixed. For Loki four lines reach three in one buffer (over the
  body limit of two) and two batches within a millisecond.
- Incidents: an interleaving needs two actors on one rule. Two ticks and a requester
  cover tick/tick and tick/request; two requests on one timeline are in
  `incidents_lost_update`. Rules do not interact, so one is enough. Three incidents are
  what the bound allows for two ticks and one reopening.
- Live tail: a line before the cursor, two rows in one replay, one past `take`; two
  milliseconds for ties and windows. Connections break and come back any number of
  times.
- Reads: five places hold more than two pages and more than the cap, with room to
  insert between, below and above, and to sweep.
- Shutdown: two destinations so that one drains while the other still accepts; three
  lines so that a promised, a late and a settled line coexist; every signal may come
  twice.
- Views: two requests of a tab (or two changes by others) are what a race needs; one
  restart, since a process forgets the same each time; one edit of a draft between
  requests and two in `console`; three clicks on the filter, enough to set a field, pick
  a facet or a row in the result and use a third control on that; a ring buffer of two
  with four messages, so that rows are evicted while others wait for a frame; three
  nanoseconds per millisecond and batches of up to three lines, so that a batch fills
  its millisecond; rows that differ in every column a filter can name, with empty
  ones, an `UNKNOWN` key, a key that `LIKE 'PAY_%'` takes by its wildcard and a second
  service, and for Loki one more of level info; two batches that may share a
  millisecond, so that a list has seams inside a batch and between batches.
- Ages 1, 3 and 5 under windows of 2 and 4 days (4 is the default) put a row on each side
  of each window. One minute is four ticks, so that a window may start off a bucket, and
  the quantum of "now" is half a minute as in the code's proportion. The clock of the
  Overview passes the end of one quantum: before it lines are written that the window does
  not reach yet, after it the window starts on a bucket and has lines on both sides of a
  bucket's edge; every flush, loss and answer may fall on either side.

Where a bound is reached the environment stops (no more lines, changes or clock), never
the code under study. `CHECK_DEADLOCK FALSE` stands where a system may then really stop
(destinations after a shutdown, a process that has exited, incidents when requests are
used up, a tab whose clicks are); the live tail never stops, and its run checks for
deadlock.

### Fairness

- Destinations: weak fairness of the timer, of the chained flush, of the shutdown's
  resumption and of the *end* of each request in flight, successful or not. Node runs
  timers and reactions; Loki's requests are ended by the abort timer (only failure is
  assumed); Prisma answers or rejects. No line has to be written, no shutdown requested.
- Incidents: every tick under way proceeds, and the cron fires again. Queries are
  answered; at most `MaxFailures` of them are rejected. No request has to be made.
- Shutdown: requests end, hooks and the span exporter settle, destinations close (what
  `ShutdownCompletes` shows of them). A tail need not end and no signal need arrive.
- Live tail: the query is answered, the generator is pulled, the wire delivers. Nothing
  obliges a connection to be made, to last or to break, hence `CatchesUp` says
  "settles, or is no longer open".
- Views: none. A user owes no click and a network no answer, so the properties of
  `console` are about what holds whenever nothing is under way.

---

## 5. The proofs

All are `THEOREM Spec => []P` (or refinement) for every value of the constants that
satisfies the module's assumptions, checked by TLAPS with Z3, Zenon and LS4. No
assumption is made beyond the ones the modules state: sizes are positive naturals;
Loki's batches are no longer than a millisecond has nanoseconds (1.5 MB against a
million); "system" is not a requester; ticks and requests are finite. `Console` adds what
its views need: batches are not empty; what is typed into the form of a rule is a draft;
a tenant has a name that the server does not keep for itself; ages are whole days and the
swept table is finite, as `ApplicationLog` is, each row of which has a numeric time, and a
level, a key and a message of the model's alphabets; instants are numbers, a minute has two
halves, and the sizes of answers and panels are natural numbers; the OTel service name is
not empty (`env.schema.ts` refuses that). TLC evaluates them in every run of `MCConsole`.

**Destinations.** `EveryLineAccountedFor`, `ShutdownDrains` and the order are not
inductive. `FlushChain!IInv` adds what makes them so:

- `BufferIsNewest` and `InFlightAfterStored`: the buffer is newer than all that left it,
  and a batch in flight newer than all that is stored. Their order survives because a
  chained flush starts only when none is running (`OnePerStarter`) and a shutdown flush
  only exists while draining.
- `RunningIsAwaited`: a chained flush that runs while `onShutdown()` waits is one it
  waits for. When `ahead` is zero nothing is in flight, so all unsettled promised lines
  are in the buffer, which the final flush takes: `DrainCovers`, and then
  `ShutdownDrains` when it ends.

`DestinationProofs` proves preservation once, for any set of refused lines and any part
of a failed batch stored; the two destinations instantiate it (`PrismaInvariant`,
`LokiInvariant`), and get type correctness, accounting, `PrismaSerialized`,
`PrismaInOrder`, the drains, and `...ImplementsLogSink`: each step of `Next` is a step
of `LogSink` or a stutter, with `BeginShutdown` as `BeginClose`, and the step that
closes settling its last batch and closing at once.

**Incidents.** `IncidentsBounded` needs no fairness but needs counting: each tick that
may still create holds a place, and each create moves one place from `Creating` to
`OpenOf`; a tick can take a place only when there is no open incident. The number of
reopened incidents is charged to the requests that reopened them. A corollary states
when the documentation's sentence is true: `OneOpenWithoutOverlap` - one tick at a time
and requests that only resolve. `IncidentsStatusMatchesTimeline` rests on every writer
replacing status and last entry together, and on a handler's `id` being a row that
exists. `IncidentsAuditFollowsChanges` follows the handler's position: a request is
`applied` when its update commits, whether or not the answer says so, and from there to
its own end it is in the audit step, has failed, or has a row or a notice.

**Reads.** `LogReadsInvariant` says that what a scan has got lies at or above its cursor
and that everything steady above the cursor has been got: an insert above the cursor is
not steady (it was not there at the start), an insert below it is still to come, a sweep
only removes. From it: pages descend, the list is complete, the export is complete but
for the tail cut at its cap, and the context is the nearest, for any page size, cap and
window.

**Shutdown.** `ExitComesLast` and `ServedLinesArePromised` rest on the position of the
sequence: no destination is asked to close before the hooks run (`OpenUntilHooks`), the
hooks run only when no request is open (`HooksAfterRequests`), an open destination
promises all it accepted, and a closed one has settled all it promised. The refinement
`ShutdownSinksKeepTheirPromise` is one `LogSink` per destination: a log call is an
`Accept` of some of them, the steps of `main.ts` are stutters of all.

**Destinations, timestamps.** `LokiStampsFollowTheClock` needs that the batches of one
millisecond stay inside it (`InsideItsMillisecond`), which is the size guard's doing: the
bytes of a body bound its lines below the nanoseconds of a millisecond.
`PrismaFullBatchIsScheduled` is the part of `IInv` that says that a full buffer always
has a flush to come.

**Live tail.** The events of a tail are those shown and, behind them, those on the wire.
`Ordered` says that among them a live event is newer than all before it and a replayed one
than all replayed before it; `ReplayIsAhead`, that the replay under way lies above all that
was replayed, which rests on the keyset clause being strict. What a connection owes is
split in three: an open one owes its live feed from the first line it heard (`LiveFeed`)
and, of what came before, what is shown, excused, on the wire, in the answer or still
behind the cursor of an unanswered query (`ReplayDue`); one that is to be made owes what is
behind the cursor (`ReconnectDue`), and nothing if its last event was a keep-alive, so that
the connection is made without a cursor. Each step that can lose a line - the query's
snapshot, its `take`, a window, a broken connection with older rows still to come, a
connection with nothing to resume from - excuses it at that moment, so
`LiveTailMissesAreExplained` is the invariant read in a settled state.

**Console.** A step of the console is, for each view, a step of it or a stutter, and the
state it starts in is an initial state of each (`ConsoleImplementsViews`). So the
invariant of a view holds of the console whichever page is open, and what the view
promises is a theorem about `ConsoleSpec`, under the name of the property that the run
`console` checks. `Retention` is proved in its own module and instantiated; the other
views' invariants are:

- *Rules* (`RulesInv`): a row of the table is one that the schema let in, with the
  expression that `buildExpr()` makes of a draft, so that the evaluator's subject is the
  preview's whatever the draft was, and the series of a grouped preview hold together what
  an ungrouped one selects. A request that is no longer awaited is one that was
  applied or refused; unless one that was applied is still awaited - its answer
  invalidates - the answer on its way and the idle list are the table (`RulesFresh`).
- *Channels* (`RegistryInv`): until the first restart, whatever was listed is registered,
  and a test under way names a registered channel, so that it finds it
  (`RegistryRemembers`).
- *Incidents* (`RespondInv`): a listed row was in the table, and the first click comes
  after the first list. What is shown, and the answer on its way, is fresh unless an
  applied call is still unseen or something else changed since (`RespondFresh`). So a click
  on a settled list with nothing changed is made under the server's status, and as long as
  no other change or click on the incident takes its `quiet` away, it is one that the page
  offers for the status the incident has when it is applied (`RespondLegal`).
- *Governance* (`GovernInv`): each cache entry, each answer on its way and each export
  was read under the identity of its key.
- *Tail* (`StreamInv`): the rows followed by the pending batch are the end of what the
  source has delivered, so after a frame the rows are the end of that again, cut to the
  ring buffer (`PushKeepsTheEnd`); the badge is the difference to the length at which the
  list was left, as long as nothing was cut or cleared.
- *Loki list* (`LokiInv`): the ids below an entry, down to the millisecond of its push, are
  taken, so that entries that share their id with none are in the order of time. Such an
  entry is in one page at most; while the reader pages, it is in none if it lies below the
  end of the next page, and if it lies at or above that end and was there when the list
  began, it is in one or right below the last row of one (`AtSeam`).
- *Triggers* (`TriggerInv`): a line that waits or is in Loki is one that the API wrote for a
  request it has taken, and its stamp is not older than the click; the link of a result has
  an id of its fire, or no id at all, or for a burst a window that reaches from before the
  click to a minute after the answer. The end of a relative range lies less than two quanta
  behind the clock whenever the page was opened (`RangesEndNow`). A call to the worker is ok only
  after the worker has written what it writes for a task, and a call that is over has
  exactly one outcome, of its own kind.
- *Filter* (`UrlInv`, and `SourcesAgree` in every state): a compiled query is read row by
  row (`WhereAdmits`, `StreamSelectorAdmits`, `TailIsTheList`), whatever the filter, the
  table and the instant. `NarrowedList` says what a value taken from a listed row does in
  its field: the new list is the rows of the old one with this value, whatever the field
  held before. Pivots and facets are instances. `TextIsReadBack` says that the text of the
  bar prints each token once, so that the last token of a field is the only one. `UrlInv`
  also keeps the times of the URL numbers, without which no window is one.
- *Panels of the filter* (`PanelsCount`): a bar is the size of the set of rows with its
  bucket and level, these sets are disjoint, and where the series starts on a bucket each
  listed row is in one of them. So bars, stacks and slices add up to the size of their
  union (`SumOverCounts`), and the tenants' bars to the rows with a tenant, however the
  facets are cut between "top" and "other".
- *Overview* (`HealthInv`): each line, waiting or stored, is one of a request that was
  served, with the key, level and numbers of its kind, and a request has one slow line
  (`HealthLines`); the data of an entry is what its query makes of the lines that were
  stored when it was answered, `storedThen` (`HealthRead`). Nothing is assumed of the
  other line of a request, which a flush may have kept or lost. A stored line has a status
  only if it is of a failure, of its interceptor or its filter: so what tells of a failure
  reads 100 % (`ErrRateIs`, `RatesTell`) for the tile and the sparkline, and the server's
  error rate is red where a line of the interceptor is among them (`ErrorRateTells`). A
  mean of
  percentiles is at most the top of the heatmap because the k-th smallest duration grows
  with k (`NthGrows`) and interpolation stays between its neighbours (`Interpolates`). The
  slow counter is the number of slow requests, by the bijection of a request with its
  slow line, or its key was pushed out by `TOP_N` others (`SlowTold`).

**Sums.** Counts are folds over sets, and the library's induction theorems take an operator
as a parameter, which the provers cannot be given. Induction over finite sets is therefore
stated for a *set* that is closed under adding an element (`NumbersByInduction`,
`SubsetsByInduction`), from the well-foundedness of the natural numbers. From it: a sum
over a finite set exists and is what its recursion says (`SumsExist`), it splits over
disjoint unions (`SumsSplit`), a sum of sizes of disjoint sets is the size of the union
(`SumsCount`), and a sum lies between its number of terms times their bounds
(`SumOverBounds`).

**Retention.** The window in force is found in the one request between its assignment and
its audit, or else at the end of what this process has audited (`WindowIsTold`), as long as
requests do not overlap. A sweep's cutoff was in force once (`CutoffsWereInForce`), so it
takes no row that all windows keep. A panel with nothing in flight neither holds nor awaits
a status of another window (`NothingStaleIsComing`): a status that was torn by a PATCH is
dropped by the invalidation that answers the PATCH. The theorems are stated for finite
tables of ages in days and positive windows.

---

## 6. Where the code and its documents differ

Six runs are expected to end in a counterexample; `PROJECT.json` quotes the lines.

- `incidents_overlap`: "one open incident per rule at a time" - two ticks can both find
  none and both create one. `IncidentsBounded` says how far it can go, and
  `PersistentQuietIsClosed` that later ticks clear all of them, one per tick.
- `incidents_lost_update`: "every transition is appended to the immutable timeline" -
  two concurrent transitions write back copies, and one entry is lost. The audit trail
  still has it (`IncidentsAuditFollowsChanges`).
- `live_tail_gap`: replay by Last-Event-ID "so no lines are missed on reconnect" - the
  keep-alive is an event with an id that is no cursor, so a connection that was quiet for
  15 seconds before it broke is resumed with no replay at all (the trace of the run); and
  with a cursor, rows of its millisecond, rows still in the Prisma buffer, and rows past
  the `to` of a relative range are missed. `MissesAreExplained` is the statement that does
  hold.
- `rule_presets`: "Any FATAL" is named among the supported shapes and offered as a
  preset, but the form stores it in a spelling the evaluator does not recognise; the rule
  counts every line. `SupportedShapesCountWhatIsDrawn` holds of the other three.
- `volume_chart`: the counted buckets are truncated to whole units, the zero-filled ones
  start where the window does; they join only when it starts on one.
  `PanelsCountTheList` holds for windows that do, with buckets as long as bars.
- `loki_list_seam`: "the next page queries `end = cursorNs - 1` (strictly older)" - with an
  end that is called inclusive (`logs.loki.service.ts:104`) and is not: the next page starts
  two nanoseconds below the last row, and the lines of a batch are stamped one nanosecond
  apart, so a seam within a batch skips one line. `LokiListIsStable` says that nothing
  else is skipped, and nothing repeated.

Statements of documents that are in the modules without a run, because their failure
is the same as one above or rests on an assumption that the code leaves open:
`FlushesNeverRace` (`onShutdown()` calls `flush()` outside the chain; until then
`PrismaSerialized` is proved), `ClosedIsQuiet` (lines written after the shutdown began may
be left when it resolves), `UniqueStamps` (two Loki batches of one millisecond share
stamps, which Loki accepts), and `TruncationIsFlagged` (the header is decided by a count
taken before the pages; a late row in between pushes an older one out without it).

Statements of the repository that the modules show to be no more than partly true, without
a run of their own; each names the exception in the property that comes closest:

- *Errors tile.* "Share of requests that failed" (`feature-info-content.tsx:54`): the
  denominator is taken from the stored lines (`health-strip.tsx:126`), and requests that
  succeed store none with a status, so any failure reads 100 %. `TilesTellWhatIsStored`
  says what the tile is good for: whether any request failed.
- *Ruler YAML.* "Render the equivalent Loki ruler YAML group" (`ruler-yaml.ts:140`): the
  YAML counts over `[window]` and by `logKey`, the evaluator all keys together over
  `forDuration` (`alerts.evaluator.service.ts:124`) and never reads the window. With the
  5m and 2m of a preset the two breach at different times; hence "within both" in
  `SupportedShapesCountWhatIsDrawn`.
- *Stale clicks.* "Each gated by the current state (e.g. can't resolve an already-resolved
  incident)" (`phase-13-dashboard-ops.md:426`): the gate is the row as it was last polled,
  up to ten seconds ago, and `transition()` (`incidents.controller.ts:126`) has none, so a
  click on an incident that the evaluator or another responder has changed since is
  applied as it is, and may open a resolved incident again. Hence "a settled list that has
  seen every change" in `TransitionsAreLegal`; what it can lead to is counted in
  `OpenIncidentsBounded`.
- *Badge.* "Count of rows that arrived while paused" (`use-follow-mode.ts:24`): it adds
  differences of the number of rows (`use-follow-mode.ts:64`), which stand still once the
  ring buffer is full. Hence the exception in `ShowsTheNewest`.
- *Just fired.* The link's range "includes now and the just-fired request is visible"
  (`explorer-link.ts:6`): the end of a range is rounded down (`filters.ts:164`), and the
  rows lie outside it for up to a minute. Hence "from a minute after its stamp" in
  `TriggersTellTheTruth`.
- *Both services.* "So both api + worker rows appear" (`trigger-grid.tsx:178`): the worker
  has a logger without a destination (`apps/worker/src/app.module.ts:23`), so no list has a
  row of it. `TriggersTellTheTruth` speaks of the rows that Loki has.
- *Unrecorded changes.* "Every sensitive or state-changing action must call `record()` so the
  action is persisted" (`audit.service.ts:4`): an update that is rejected after it was
  committed (`incidents.controller.ts:144`) ends the handler before `record()`. Hence "that
  was answered" in `AuditFollowsChanges`.

Things a reader of the code should know of, met while modelling and not the subject of a
property:

- If `$disconnect()` is rejected, the API's `app.close()` is, and its chain skips the span
  flush; `apps/worker/src/main.ts` has a `.catch()` for this case, `apps/api/src/main.ts`
  has not, hence the exception in `ExitComesLast`. An open live tail holds `app.close()`
  up for as long as its client stays, hence the condition of `ShutdownEnds`.
- The trigger cards name some keys that the handlers do not write:
  `PII_NESTED_ATTEMPT` for `PII_NESTED_PROBE`, `PII_HUGE_ATTEMPT` for `PII_HUGE_PAYLOAD`,
  and `LOGGER_DESTINATION_WRITE_FAILED`, which the Loki-fault handler never emits itself
  (`trigger-grid.tsx`).
- `maintenance.controller.ts` and `audit.service.ts`: the audit is fail-soft, so a change
  may have a notice on stderr in place of a row. An operator without a tenant writes
  audited changes that he cannot read back. No mutation of the console invalidates the
  audit table.
- The tail of an administrator ignores the tenant he has chosen: the proxy sends only the
  role's restriction (`app/api/logs/stream/route.ts`). `rule.channels` is stored and
  never used by the router, and nothing ever notifies `resolved`.
- `alerts.rules.controller.ts`: a PATCH with nothing but `isEnabled` resets `channels`,
  because the validator's default survives `.partial()`.
- Once an absolute range disables a tail that was on, its rows stay in the table under
  whatever filter comes next; `NoForeignRows` speaks of a tail that is on.
- Raising the log level above info drops the line that reports it (`admin.service.ts`).

---

## 7. Limits

**Only model-checked.** Liveness under fairness (`PromisedLinesSettle`, `PushesSettle`,
`ShutdownCompletes`, `PersistentBreachIsOpen`, `PersistentQuietIsClosed`, `CatchesUp`,
`ShutdownEnds`) is beyond TLAPS here and holds on the instances of section 4. Every other
property of a passing run is a theorem.

**Abstractions that bound what is claimed.**

- In the destinations, the reads, the tail and the incidents, lines and rows carry no
  content: whether a row matches a query, a tenant or a level is decided before the
  models start. `LogQueries`, `Explorer`, `Overview` and `Governance` have the content
  and leave out the moving table.
- Strings are a few that the code can tell apart, among them wildcards, quotes, keys that
  break the convention and empty values. Properties about filters hold for those, not for
  every text.
- The clock does not step back.
- `LiveTail` takes a tail to reconnect within the default window of an hour: the replay
  clause of a stream without `from` would leave older rows out. It follows one tab; row ids
  of one millisecond grow in insertion order there (`LogReads` makes no such assumption).
- That the keep-alive's id is a number, that Loki's `end` is exclusive and that EventSource
  keeps the last id it was sent is the behaviour of Nest, Loki and the browser, not code of
  this repository.
- `Playground` takes the interval of an open page to fire on time; a browser slows timers
  of a tab in the background, so there the "minute" of a link may be longer. A push to Loki
  takes no time in it; `LokiDestination` has its steps.
- The store of `LogReads` is Postgres with statements that are atomic at read committed.
- One tab at a time; what other tabs do is in the environment of the view.
- `IncidentView` applies a transition in one step. That two handlers overlap, or that a
  transition is applied to an incident that was resolved meanwhile, is in `Incidents`, which
  refuses nothing, as the controller does.

**Not modelled**, with the reasons in `PROJECT.json`: the rolling file, configuration and
logger wiring, validation pipe, filter, interceptors and health, static pages and drawing;
and parts of components that are: start-up, the proxy route `GET /logs/loki` (no page uses
it), `notify()`'s mock deliveries, the admin log-level switch. The logger library, NestJS,
Prisma, Postgres, Loki, TanStack Query and the browser's EventSource are external: they
appear only as far as this repository's code relies on them.
