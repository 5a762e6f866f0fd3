-------------------------------- MODULE Overview --------------------------------
(***************************************************************************)
(* The health of the system as the Overview shows it: requests are served, *)
(* what fails is caught by a filter, each line of the two reaches Postgres *)
(* with the next flush, and the tiles, the SLO gauge and the charts        *)
(* (health-strip.tsx and its neighbours) are computed from queries that    *)
(* the tab sends separately for its window.  The key of the queries has    *)
(* the window in it, which moves with every quantum of the clock; nothing  *)
(* reads a window twice.  The tier keeps lines of level warn and above.    *)
(* Operators whose names begin with Bad are seeded faults.                 *)
(***************************************************************************)
EXTENDS Charts, Sequences

CONSTANTS
  TOP_N,         \* values that a facet query returns at most
  MaxRequests,   \* bound: requests served
  Begin, Until   \* bounds: the first instant and the last

Cache == INSTANCE QueryCache

VARIABLES
  clock,       \* the instant, in ticks
  served,      \* history: the requests, in order, and whether the filter has handled them
  buffered,    \* lines that wait for the next flush
  stored,      \* ApplicationLog
  strip,       \* the entries of the query cache for the window shown
  storedThen   \* history: what was stored when the query of an entry was answered

vars == <<clock, served, buffered, stored, strip, storedThen>>

\* The relative range is a minute here; NOW_QUANTUM is half of one, as in the code.
quantum == MINUTE \div 2
Window(at) == [from |-> at - (at % quantum) - MINUTE, to |-> at - (at % quantum)]
shown == Window(clock)
Within(rows) == {row \in rows : row.time \in shown.from .. shown.to}
METRICS == {"volume", "latency", "statusMix", "logKeys"}

\* The line of a request at level warn and above: of the interceptor, which says
\* statusCode and duration, or of the application where the request goes well (fireLevel()
\* and its like), which has neither number.  The filter of exceptions adds a line that
\* says status.
Entry(key, level, numbers) == [logKey |-> key, level |-> level, numbers |-> numbers]
EntriesOf(kind) ==
  CASE kind = "ok"     -> {}
    [] kind = "warned" -> {Entry("TRIGGER_LEVEL_FIRED", "warn", [i |-> 0])}
    [] kind = "erred"  -> {Entry("TRIGGER_LEVEL_FIRED", "error", [i |-> 0])}
    [] kind = "slow"   -> {Entry("METHOD_SLOW_EXECUTION", "warn", [durationMs |-> 60])}
    [] kind = "4xx"    -> {Entry("HTTP_REQUEST_CLIENT_ERROR", "warn",
                                 [statusCode |-> 402, duration |-> 10])}
    [] kind = "5xx"    -> {Entry("HTTP_REQUEST_SERVER_ERROR", "error",
                                 [statusCode |-> 503, duration |-> 20])}
FilterEntry(kind) ==
  IF kind = "4xx" THEN Entry("HTTP_EXCEPTION_HANDLED", "error", [status |-> 402])
  ELSE Entry("HTTP_EXCEPTION_UNHANDLED", "error", [status |-> 503])
Failures == {"4xx", "5xx"}
Kinds == {"ok", "warned", "erred", "slow"} \cup Failures

Init ==
  /\ clock = Begin
  /\ served = <<>> /\ buffered = {} /\ stored = {}
  /\ strip = [m \in METRICS |-> Cache!FirstLoad]
  /\ storedThen = [m \in METRICS |-> {}]

-----------------------------------------------------------------------------
(* The service and its tier. *)

\* The first of the two names that the entry has; 0 is a column without a value.
pickNumber(numbers, first, second) ==
  IF first \in DOMAIN numbers THEN numbers[first]
  ELSE IF second \in DOMAIN numbers THEN numbers[second] ELSE 0

\* A seeded fault: only the filter's name of the status is read.
BadToRow(entry, request, time) ==
  [request |-> request, time |-> time, logKey |-> entry.logKey, level |-> entry.level,
   status |-> pickNumber(entry.numbers, "status", "status"),
   durationMs |-> pickNumber(entry.numbers, "durationMs", "duration")]

toRow(entry, request, time) ==
  [request |-> request, time |-> time, logKey |-> entry.logKey, level |-> entry.level,
   status |-> pickNumber(entry.numbers, "status", "statusCode"),
   durationMs |-> pickNumber(entry.numbers, "durationMs", "duration")]

serve(kind) ==
  /\ Len(served) < MaxRequests
  /\ served' = Append(served, [kind |-> kind, caught |-> FALSE])
  /\ buffered' = buffered \cup {toRow(entry, Len(served'), clock) : entry \in EntriesOf(kind)}
  /\ UNCHANGED <<clock, stored, strip, storedThen>>

\* The filter's turn, after the interceptor's: a flush may come between the two lines.
catch(r) ==
  /\ served[r].kind \in Failures /\ ~served[r].caught
  /\ served' = [served EXCEPT ![r].caught = TRUE]
  /\ buffered' = buffered \cup {toRow(FilterEntry(served[r].kind), r, clock)}
  /\ UNCHANGED <<clock, stored, strip, storedThen>>

\* A batch is stored, or it is lost.
flush ==
  /\ buffered # {} /\ buffered' = {}
  /\ stored' \in {stored, stored \cup buffered}
  /\ UNCHANGED <<clock, served, strip, storedThen>>

groupBy(rows) ==
  LET keys == {row.logKey : row \in rows}
      Size(k) == Cardinality({row \in rows : row.logKey = k})
  IN  {[k \in top |-> Size(k)] :
         top \in {top \in SUBSET keys :
                    /\ Cardinality(top) = Min({TOP_N, Cardinality(keys)})
                    /\ \A k \in top, other \in keys \ top : Size(k) >= Size(other)}}

\* LogsAggregateService.query() and the facets: one statement each.
Results(metric) ==
  LET rows == Within(stored)
      bucket == resolveBucket(shown.from, shown.to)
  IN  CASE metric = "volume"    -> {volume(rows, shown, bucket)}
        [] metric = "latency"   -> {latency(rows, bucket.unit)}
        [] metric = "statusMix" -> {statusMix(rows, bucket.unit)}
        [] metric = "logKeys"   -> groupBy(rows)

\* What is read becomes the data; nothing replaces or cancels the one load of a key.
query(metric) ==
  /\ strip[metric].fetch = "sent"
  /\ \E rows \in Results(metric) :
       strip' = [strip EXCEPT ![metric] = Cache!Deliver(Cache!Answer(@, rows))]
  /\ storedThen' = [storedThen EXCEPT ![metric] = stored]
  /\ UNCHANGED <<clock, served, buffered, stored>>

fails(metric) ==
  /\ strip[metric].fetch # "idle"
  /\ strip' = [strip EXCEPT ![metric] = Cache!Fail(@)]
  /\ UNCHANGED <<clock, served, buffered, stored, storedThen>>

\* A new quantum is a new key: every entry is loaded anew.
Tick ==
  /\ clock < Until /\ clock' = clock + 1
  /\ IF shown' = shown THEN UNCHANGED <<strip, storedThen>>
     ELSE /\ strip' = [m \in METRICS |-> Cache!FirstLoad]
          /\ storedThen' = [m \in METRICS |-> {}]
  /\ UNCHANGED <<served, buffered, stored>>

Next ==
  \/ \E kind \in Kinds : serve(kind)
  \/ \E r \in DOMAIN served : catch(r)
  \/ flush \/ Tick
  \/ \E m \in METRICS : query(m) \/ fails(m)

Spec == Init /\ [][Next]_vars

-----------------------------------------------------------------------------
(* HealthStrip, SloGauge and the charts, over the data of their entries. *)

Data(metric) == CHOOSE rows \in strip[metric].data : TRUE
Failed == \E m \in METRICS \ {"logKeys"} : strip[m].error
Loading == \E m \in METRICS \ {"logKeys"} : strip[m].data = {}

totalRequests == MapThenSumSet(LAMBDA t : t.total, statusTotals(Data("statusMix")))
totalVolume == sumLevels(Data("volume"), {"fatal", "error", "warn"})

\* The tiles are shown unless there is nothing to show.
Tiles == ~Failed /\ ~Loading /\ (totalRequests # 0 \/ totalVolume # 0)

windowMinutes == Max({1, (shown.to - shown.from) \div MINUTE})
reqPerMin == totalRequests \div windowMinutes

\* The error rate as a fraction; ERROR_RATE_THRESHOLD is one per cent.
errRate == Share(sumStatusErrors(Data("statusMix")), totalRequests)
errorsDanger == errRate.n * 100 > errRate.of
fatalError == sumLevels(Data("volume"), {"error", "fatal"})

\* The budget is a thousandth: what is left of it, rounded to per cent, and the burn-rate
\* badges that are lit, named by ten times their thresholds.
budgetPct ==
  LET left == Max({0, errRate.of - 1000 * errRate.n})
  IN  (200 * left + errRate.of) \div (2 * errRate.of)
breached == {tenfold \in {144, 60, 10} : errRate.n * 10000 >= tenfold * errRate.of}

\* ErrorRateLine: the two lines, bucket by bucket.
errorRateLines ==
  {[bucket |-> m.bucket, rate4xx |-> Share(m.s4xx, InClasses(m)),
    rate5xx |-> Share(m.s5xx, InClasses(m))] : m \in Data("statusMix")}

\* LatencyHeatmap: the scale of its colours, and the number of slow requests.
heatMax == Max({0} \cup {b.p99 : b \in Data("latency")})
Count(key) == LET counts == Data("logKeys") IN IF key \in DOMAIN counts THEN counts[key] ELSE 0
slowCount == Count("METHOD_SLOW_EXECUTION")

\* PipelineHealth: a counter is red when the facets have its key.
PIPELINE_KEYS == {"LOGGER_DESTINATION_WRITE_FAILED", "LOGGER_DESTINATION_INIT_FAILED",
                  "LOGGER_ENTRY_TRUNCATED"}
saturated == {key \in PIPELINE_KEYS : Count(key) > 0}

-----------------------------------------------------------------------------
(* Properties. *)

\* The lines of the window that an entry's query found, and the requests they tell of.
Found(metric) == Within(storedThen[metric])
Told(metric, kinds) ==
  {r \in DOMAIN served :
     served[r].kind \in kinds /\ \E row \in Found(metric) : row.request = r}
Aligned == shown.from % MINUTE = 0

\* What the Errors tile and its neighbours make of the lines their query found, although
\* a flush may have kept one line of a request and lost the other, and whatever was
\* stored between that query and the others: the tile and its sparkline are red if and
\* only if one of the lines tells of a failed request, and the budget of the gauge is
\* then used up; each line of the chart is red for its own kind.  The server's error rate,
\* which reads the interceptor's lines, is red in no other bucket, and where it is not
\* all that was kept is of the filter.
FailuresTurnTheStripRed ==
  Tiles =>
    LET lines == Found("statusMix")
        failed == Told("statusMix", Failures) # {}
        red == {p.bucket : p \in {q \in errorRateLines : q.rate4xx.n + q.rate5xx.n > 0}}
        serverRed == {p.bucket : p \in {e \in errorRate(lines, MINUTE) : e.errors > 0}}
    IN  /\ errorsDanger <=> failed
        /\ errorsDanger => budgetPct = 0 /\ breached = {144, 60, 10}
        /\ ~errorsDanger => budgetPct = 100 /\ breached = {}
        /\ (\E point \in statusErrorRatePctSeries(Data("statusMix")) :
               point.rate.n * 100 > point.rate.of) <=> failed
        /\ (\E point \in errorRateLines : point.rate4xx.n > 0)
             <=> Told("statusMix", {"4xx"}) # {}
        /\ (\E point \in errorRateLines : point.rate5xx.n > 0)
             <=> Told("statusMix", {"5xx"}) # {}
        /\ \A point \in errorRateLines :
             point.rate4xx.n + point.rate5xx.n \in {0, point.rate4xx.of}
        /\ serverRed \subseteq red
        /\ \A row \in lines :
             (row.status # 0 /\ date_trunc(MINUTE, row.time) \in red \ serverRed) =>
               row.logKey \in {"HTTP_EXCEPTION_HANDLED", "HTTP_EXCEPTION_UNHANDLED"}

\* FATAL+ERROR is red only for a request that failed on the server, one whose refusal the
\* filter has told, or one that went well and in which the application logged an error,
\* and for each of them where the window starts on a bucket.
FatalErrorNamesErrors ==
  Tiles =>
    LET erring == {r \in Told("volume", Failures \cup {"erred"}) :
                     \/ served[r].kind # "4xx"
                     \/ \E row \in Found("volume") :
                          row.request = r /\ row.logKey = "HTTP_EXCEPTION_HANDLED"}
    IN  /\ fatalError > 0 => erring # {}
        /\ (Aligned /\ erring # {}) => fatalError > 0

\* The latency tile lies within the scale of the heatmap and is not zero when its query
\* found a slow line, and a slow-request counter that misses slow lines does so because
\* TOP_N other keys are at least as frequent.
SlowLinesAreSeen ==
  (Tiles /\ Cache!Settled(strip["logKeys"])) =>
    LET slow == Told("logKeys", {"slow"})
        keys == DOMAIN Data("logKeys")
        mean == meanOf(Data("latency"))
    IN  /\ mean.n <= heatMax * mean.of
        /\ Told("latency", {"slow"}) # {} => mean.n > 0
        /\ slowCount \in {0, Cardinality(slow)}
        /\ (slowCount = 0 /\ slow # {}) =>
              Cardinality(keys) = TOP_N /\ \A k \in keys : Count(k) >= Cardinality(slow)
==============================================================================
