------------------------------- MODULE Explorer --------------------------------
(***************************************************************************)
(* The filter of the console.  It lives in the URL, which a dozen controls *)
(* of the Explorer and the Overview change - the query bar with its own    *)
(* text, facets, charts, pickers - and useLogQuery() makes the LogQuery of *)
(* it that every request carries; a relative range is resolved against the *)
(* clock.  The table does not change here: LogReads.tla has that.          *)
(* Operators whose names begin with Bad are seeded faults.                 *)
(***************************************************************************)
EXTENDS LogQueries, Charts, Sequences, SequencesExt

CONSTANTS
  Table,         \* the rows of ApplicationLog
  LokiTable,     \* the entries of Loki as rows, at the time they were stamped with
  Texts,         \* what may be typed into the query bar, as tokens
  Instants,      \* what may be picked as an absolute bound, in whole minutes
  Clock,         \* the instants of the behaviour, in order
  DefaultService,\* OTEL_SERVICE_NAME
  TOP_N,         \* values that a facet query returns at most
  TopN,          \* bars of the Top tenants panel
  MaxClicks      \* bound: uses of a control

NOW_QUANTUM == MINUTE \div 2
RANGES == {"15m", "6h", "24h"}
RANGE_MS == [r \in RANGES |-> CASE r = "15m" -> 15 * MINUTE [] r = "6h" -> 6 * HOUR
                                [] r = "24h" -> 24 * HOUR]

VARIABLES
  url,      \* the state of the URL
  text,     \* the query bar: its text, as tokens,
  focused,  \* and whether it has the focus
  tick,     \* position in Clock
  clicks    \* bound counter

vars == <<url, text, focused, tick, clicks>>
now == Clock[tick]

-----------------------------------------------------------------------------
(* useLogQuery(). *)

\* An unknown preset resolves to nothing; the API then defaults to the last hour.
useLogQuery(u) ==
  LET quantized == now - (now % NOW_QUANTUM)
      relative  == u.range \in RANGES
  IN  [level |-> parseLevelToken(u.level), logKey |-> u.logKey, service |-> u.service,
       tenantId |-> u.tenantId, traceId |-> u.traceId, requestId |-> u.requestId, q |-> u.q,
       source |-> u.source, role |-> u.role,
       from |-> IF relative THEN quantized - RANGE_MS[u.range] ELSE u.from,
       to   |-> IF relative THEN quantized ELSE u.to]
query == useLogQuery(url)

Home == [range |-> Unset, from |-> 0, to |-> 0, source |-> "loki", tenantId |-> Unset,
         role |-> "admin", level |-> NoLevel, logKey |-> Unset, service |-> Unset,
         q |-> Unset, traceId |-> Unset, requestId |-> Unset]

\* Links from the Trigger Center and from an incident.
explorerHref(target) ==
  IF target.from # 0
  THEN [Home EXCEPT !.traceId = target.traceId, !.requestId = target.requestId,
                    !.logKey = target.logKey, !.from = target.from]
  ELSE [Home EXCEPT !.traceId = target.traceId, !.requestId = target.requestId,
                    !.logKey = target.logKey, !.range = "15m"]
Targets ==
  {[traceId |-> "t1", requestId |-> Unset, logKey |-> Unset, from |-> 0],
   [traceId |-> Unset, requestId |-> "r1", logKey |-> Unset, from |-> 0]}
  \cup [traceId : {Unset}, requestId : {Unset}, logKey : {"PAYMENT_CHARGE_FAILED"},
        from : Instants]

-----------------------------------------------------------------------------
(* QueryBar: from the query to text, and back. *)

Token(field, op, value) ==
  IF value = Unset THEN <<>> ELSE <<[field |-> field, value |-> <<op, value>>]>>

\* A seeded fault: the operator of a level is not printed.
BadQueryToText(q) ==
  Token("level", "", q.level[2]) \o Token("logKey", ":", q.logKey)
    \o Token("service", ":", q.service) \o Token("tenantId", ":", q.tenantId)
    \o Token("traceId", ":", q.traceId) \o Token("msg", "~", q.q)

queryToText(q) ==
  Token("level", q.level[1], q.level[2]) \o Token("logKey", ":", q.logKey)
    \o Token("service", ":", q.service) \o Token("tenantId", ":", q.tenantId)
    \o Token("traceId", ":", q.traceId) \o Token("msg", "~", q.q)

\* Of several tokens for a field the last counts; of several keys the last valid one.
LastOf(tokens, wanted) ==
  LET places == {k \in DOMAIN tokens : tokens[k] \in wanted}
  IN  IF places = {} THEN NoLevel ELSE tokens[Max(places)].value

\* Bare words are the free text only without a `msg ~ "..."`.
parseQueryText(tokens) ==
  LET Of(f) == {t \in Range(tokens) : t.field = f}
      Field(f) == LastOf(tokens, Of(f))
      msg == Field("msg")
  IN  [level    |-> Field("level"),
       logKey   |-> LastOf(tokens, {t \in Of("logKey") : isValidLogKey(t.value[2])})[2],
       service  |-> Field("service")[2],
       tenantId |-> Field("tenantId")[2],
       traceId  |-> Field("traceId")[2],
       q        |-> IF msg = NoLevel THEN Field("word")[2] ELSE UpToQuote(msg[2])]

\* setQuery() with the six fields of the bar: requestId and the range stay.
Submitted(tokens, u) ==
  LET parsed == parseQueryText(tokens)
  IN  [u EXCEPT !.level = parsed.level, !.logKey = parsed.logKey,
                !.service = parsed.service, !.tenantId = parsed.tenantId,
                !.traceId = parsed.traceId, !.q = parsed.q]

-----------------------------------------------------------------------------
(* The controls.  The text of the bar follows a changed query, but not while it *)
(* has the focus; using another control takes the focus away.                   *)

Init ==
  /\ url \in {Home} \cup {explorerHref(target) : target \in Targets}
  /\ tick = 1 /\ clicks = 0
  /\ text = queryToText(query) /\ focused = FALSE

Use(newUrl, focus) ==
  /\ clicks < MaxClicks /\ clicks' = clicks + 1
  /\ url' = newUrl /\ focused' = focus /\ UNCHANGED tick
  /\ text' = IF ~focus /\ queryToText(query') # queryToText(query)
             THEN queryToText(query') ELSE text

Type(typed) ==
  /\ clicks < MaxClicks /\ clicks' = clicks + 1
  /\ text' = typed /\ focused' = TRUE
  /\ UNCHANGED <<url, tick>>

blur ==
  /\ focused /\ focused' = FALSE
  /\ UNCHANGED <<url, text, tick, clicks>>

\* Enter keeps the focus, the Search button takes it.
submit == \E focus \in {focused, FALSE} : Use(Submitted(text, url), focus)

\* LogsController.list(): facets and charts are always about Postgres, the table shows
\* what the source of the query has; the end of a range is not part of it in Loki.
Rows(q) == Selected(Table, ListWhere(q), Window(q, now, HOUR))
Listed(q) ==
  IF q.source = "loki"
  THEN Selected(LokiTable, LokiList(q, Restriction(q), DefaultService),
                [Window(q, now, HOUR) EXCEPT !.to = @ - 1])
  ELSE Rows(q)
Shown == Listed(query)

FACETS == {"level", "service", "logKey", "tenantId"}
apply(u, field, value) ==
  [u EXCEPT ![field] = IF field = "level" THEN <<"", value>> ELSE value]

\* FacetRail: a click adds the value, Alt-click on the active one removes it.
FacetClick(field) ==
  \/ \E facet \in facetCounts(Table, query, field, Window(query, now, HOUR), TOP_N) :
       Use(apply(url, field, facet.value), FALSE)
  \/ Use(apply(url, field, Unset), FALSE)

\* OverviewContent and LevelDonut.
Bars == volume(Aggregated(Table, query, Restriction(query), Window(query, now, HOUR)),
               Window(query, now, HOUR),
               resolveBucket(Window(query, now, HOUR).from, Window(query, now, HOUR).to))
pickSlice == \E s \in slices(Bars) : Use([url EXCEPT !.level = <<"", s.level>>], FALSE)
\* TopBar: a click on a bar hands its value on.
TopBar(bars) == {bar.value : bar \in bars}

ErrorQuery == [query EXCEPT !.level = <<">=", "error">>]
pickTopError ==
  \E key \in TopBar(facetCounts(Table, ErrorQuery, "logKey", Window(query, now, HOUR), TOP_N)) :
    Use([url EXCEPT !.logKey = key, !.level = <<">=", "error">>], FALSE)

sumCounts(facets) == MapThenSumSet(LAMBDA f : f.count, facets)

\* Top tenants: the values after the N most frequent become one bar more, which cannot
\* be picked - nor can a tenant of its name.
rollupOther(facets, N) ==
  LET Beats(top) == \A f \in top, g \in facets \ top : f.count >= g.count
      kept == CHOOSE top \in SUBSET facets :
                Cardinality(top) = Min({N, Cardinality(facets)}) /\ Beats(top)
  IN  [top |-> kept, other |-> sumCounts(facets \ kept)]
TenantBars ==
  rollupOther(facetCounts(Table, query, "tenantId", Window(query, now, HOUR), TOP_N), TopN)
pickTopTenant ==
  \E tenant \in TopBar(TenantBars.top) \ {"other"} : Use([url EXCEPT !.tenantId = tenant], FALSE)

\* The drawer of a row: "filter for" a field that has a value, and from the Trace
\* tab "All logs for this trace".  It covers the page until it is closed.
OVERVIEW_FIELDS == FACETS \cup {"requestId", "traceId"}

\* A seeded fault: the request's id is looked for among the traces.
BadApplyFieldFilter(u, field, row) ==
  CASE field = "level"     -> [u EXCEPT !.level = <<"", row.level>>]
    [] field = "requestId" -> [u EXCEPT !.traceId = row.requestId]
    [] OTHER               -> [u EXCEPT ![field] = row[field]]

applyFieldFilter(u, field, row) ==
  CASE field = "level" -> [u EXCEPT !.level = <<"", row.level>>]
    [] OTHER           -> [u EXCEPT ![field] = row[field]]

OverviewTab ==
  \E row \in Shown, field \in OVERVIEW_FIELDS :
    row[field] # Unset /\ Use(applyFieldFilter(url, field, row), FALSE)
TraceTab ==
  \E row \in Shown : row.traceId # Unset /\ Use([url EXCEPT !.traceId = row.traceId], FALSE)

\* VolumeBar: from the start of the first bar to the start of the last one.
onBrush ==
  \E first, last \in {bar.bucket : bar \in Bars} :
    /\ first <= last
    /\ Use([url EXCEPT !.from = first, !.to = last, !.range = Unset], FALSE)

\* TimeRangePicker, SourceToggle, TenantRoleSwitcher.
pickPreset == \E r \in RANGES : Use([url EXCEPT !.range = r, !.from = 0, !.to = 0], FALSE)
pickFrom == \E t \in Instants \cup {0} : Use([url EXCEPT !.from = t, !.range = Unset], FALSE)
pickTo   == \E t \in Instants \cup {0} : Use([url EXCEPT !.to = t, !.range = Unset], FALSE)
pickSource == \E s \in {"loki", "postgres"} : Use([url EXCEPT !.source = s], FALSE)
pickTenant == \E t \in {Unset, "acme"} : Use([url EXCEPT !.tenantId = t], FALSE)
pickRole == \E r \in {"viewer", "admin"} : Use([url EXCEPT !.role = r], FALSE)

Tick ==
  /\ tick < Len(Clock) /\ tick' = tick + 1
  /\ UNCHANGED <<url, text, focused, clicks>>

Next ==
  \/ \E typed \in Texts : Type(typed)
  \/ blur \/ submit \/ \E field \in FACETS : FacetClick(field)
  \/ pickSlice \/ pickTopError \/ pickTopTenant \/ onBrush
  \/ OverviewTab \/ TraceTab
  \/ pickPreset \/ pickFrom \/ pickTo \/ pickSource \/ pickTenant \/ pickRole
  \/ Tick

Spec == Init /\ [][Next]_vars

-----------------------------------------------------------------------------
(* Properties. *)

\* The service layer accepts the query (a deep link or a facet may carry any key).
Accepted(q) == q.logKey # Unset => logKeySchema(q.logKey)

\* "The global source toggle is transparent": whatever the controls have made of
\* the filter, its compilations agree.  The generated SQL and the tail select
\* what the list over Postgres selects - the tail where the identity is restricted to
\* the tenant of the filter, for the proxy leaves out a tenant that an administrator
\* chooses; the SQL and the charts unless an underscore of a LIKE prefix stands for a
\* letter; and so does Loki among the lines of its service, without a free text.
SourcesAgree ==
  Accepted(query) =>
    LET where == ListWhere(query)
    IN  /\ (query.role = "admin" /\ query.logKey # "PAY_*") => toSqlWhere(query) = where
        /\ \A row \in Table \cup LokiTable :
             /\ Restriction(query) = query.tenantId
                  => (InTail(row, query) <=> Satisfies(row, where))
             /\ (query.q = Unset /\ row.service = DefaultService)
                  => (Satisfies(row, LokiList(query, Restriction(query), DefaultService))
                        <=> Satisfies(row, where))
        /\ query.logKey # "PAY_*" =>
             Aggregated(Table, query, Restriction(query), Window(query, now, HOUR))
               = Rows(query)

\* Submitting the text that the bar shows for a query does not change what is
\* selected, unless a free text has a quote in it or the key is not a key.
ResubmitKeepsTheQuery ==
  (query.q # QUOTED /\ (query.logKey = Unset \/ isValidLogKey(query.logKey))) =>
    useLogQuery(Submitted(queryToText(query), url)) = query

\* Filtering for what the drawer says of a row narrows the list around that row: the
\* new list is the rows of the old one that say the same, whatever condition on the
\* field it replaces and whichever source it is about, unless the key is not one that
\* the API takes.
PivotKeepsTheRow ==
  \A row \in Shown, field \in OVERVIEW_FIELDS :
    LET next == useLogQuery(applyFieldFilter(url, field, row))
    IN  (row[field] # Unset /\ Accepted(next)) =>
          Listed(next) = {other \in Shown : other[field] = row[field]}

\* The number beside a facet is the number of rows the click leads to over Postgres
\* ("Counts come from the durable Postgres tier"), unless the value is a key that the
\* API does not take.
FacetsCountTheList ==
  \A field \in FACETS :
    \A facet \in facetCounts(Table, query, field, Window(query, now, HOUR), TOP_N) :
      LET next == useLogQuery(apply(url, field, facet.value))
      IN  Accepted(next) => facet.count = Cardinality(Rows(next))

\* What the panels count is what the list over Postgres has, whichever source is chosen.
\* The bars of the tenants add up to the rows that have one, if the facets have every
\* tenant; where the window starts on a bucket and buckets are as long as bars, stacks,
\* slices and tiles add up to the rows.
PanelsCountTheList ==
  LET window == Window(query, now, HOUR)
      bucket == resolveBucket(window.from, window.to)
      owned == {row \in Rows(query) : row.tenantId # Unset}
  IN  /\ Cardinality({row.tenantId : row \in owned}) <= TOP_N =>
           sumCounts(TenantBars.top) + TenantBars.other = Cardinality(owned)
      /\ (/\ Accepted(query) /\ query.logKey # "PAY_*"
          /\ window.from % bucket.unit = 0 /\ bucket.unit = bucket.interval) =>
           /\ sumLevels(Bars, Level) = Cardinality(Rows(query))
           /\ sumHeights(pivotVolume(Bars)) = Cardinality(Rows(query))
           /\ \A l \in Level : sumLevels({bar \in Bars : bar.level = l}, Level)
                                 = Cardinality({row \in Rows(query) : row.level = l})

\* "Log volume: count() by level per bucket": a line of the window is counted in
\* the bar of its bucket, wherever the window starts.
VolumeCountsItsBuckets == sumLevels(Bars, Level) = Cardinality(Rows(query))
==============================================================================
