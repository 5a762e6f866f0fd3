------------------------------ MODULE LogQueries -------------------------------
(***************************************************************************)
(* What a filter selects.  The same filter is compiled by LogsService for  *)
(* Postgres and for Loki, by the aggregate service out of the Postgres     *)
(* compilation, by matches() for the live tail, and once more by the web   *)
(* app for the "generated SQL / LogQL" toggles; tenant restrictions are    *)
(* added on the way, from headers or from the query.                       *)
(*                                                                         *)
(* A compiled query is a set of clauses: a column and the values it lets   *)
(* through.  Strings are a few that the code can tell apart.  "" is what   *)
(* the code has as undefined, an absent column or an unset URL field.      *)
(* Operators whose names begin with Bad are seeded faults.                 *)
(***************************************************************************)
EXTENDS Integers, FiniteSets

Unset == ""

LEVEL_RANK == [fatal |-> 60, error |-> 50, warn |-> 40, info |-> 30, debug |-> 20, trace |-> 10]
Level == DOMAIN LEVEL_RANK
levelsAtOrAbove(min) == {l \in Level : LEVEL_RANK[l] >= LEVEL_RANK[min]}

\* A level condition is an operator and a level: `level:warn`, `level>=warn`.
NoLevel == <<"", "">>
parseLevelToken(raw) == IF raw[2] \in Level THEN <<raw[1], raw[2]>> ELSE NoLevel
Levels(level) == IF level[1] = ">=" THEN levelsAtOrAbove(level[2]) ELSE {level[2]}

\* logKeys of the table; UNKNOWN stands for a line that had none.
LogKeys == {"PAYMENT_CHARGE_FAILED", "ORDER_CREATE_FAILED", "UNKNOWN"}
Wildcards == {"PAYMENT_*", "PAY_*"}
endsWithStar(pattern) == pattern \in Wildcards

\* A prefix as a string, and as an SQL LIKE pattern where `_` is any letter.
startsWith(pattern) == IF pattern = "PAYMENT_*" THEN {"PAYMENT_CHARGE_FAILED"} ELSE {}
Like(pattern) == {"PAYMENT_CHARGE_FAILED"}

\* The grammars of the query bar and of logKeySchema: a wildcard within a segment
\* is one for the former only; a key without a separator is none.
isValidLogKey(key) == key \in (LogKeys \ {"UNKNOWN"}) \cup Wildcards \cup {"PAYMENT_CH*"}
logKeySchema(key)  == key \in (LogKeys \ {"UNKNOWN"}) \cup Wildcards

\* Messages and free texts, and their lower case.  QUOTED has a quote in it, and
\* the pattern of the query bar reads it up to there.
Messages == {"Refund", "order"}
QUOTED == "say \" hi"
UpToQuote(text) == IF text = QUOTED THEN "say" ELSE text
Lower(text) == IF text = "Refund" THEN "refund" ELSE text

-----------------------------------------------------------------------------
(* LogsService. *)

Clause(field, value, values) ==
  IF value = Unset THEN {} ELSE {[field |-> field, values |-> values]}
Is(field, value) == Clause(field, value, {value})

KeyClause(key, wildcard) ==
  Clause("logKey", key, IF endsWithStar(key) THEN wildcard ELSE {key})

\* restriction.tenantId ?? q.tenantId
Tenant(q, restriction) == IF restriction = Unset THEN q.tenantId ELSE restriction

Insensitive(text) == {msg \in Messages : Lower(msg) = Lower(text)}

LevelClause(level) ==
  IF level = NoLevel THEN {} ELSE {[field |-> "level", values |-> Levels(level)]}

buildPrismaWhere(q, restriction) ==
  UNION {LevelClause(q.level), KeyClause(q.logKey, startsWith(q.logKey)),
         Is("service", q.service), Is("traceId", q.traceId), Is("requestId", q.requestId),
         Clause("message", q.q, Insensitive(q.q)), Is("tenantId", Tenant(q, restriction))}

\* Loki needs a stream selector; the free text is compared with the raw line, of
\* which only the message is kept here, and letter by letter.
buildLogQL(q, restriction) ==
  UNION {{[field |-> "service", values |-> {IF q.service = Unset THEN "api" ELSE q.service}]},
         LevelClause(q.level), KeyClause(q.logKey, startsWith(q.logKey)),
         Is("tenantId", Tenant(q, restriction)),
         Is("traceId", q.traceId), Is("requestId", q.requestId),
         Clause("message", q.q, {msg \in Messages : msg = q.q})}

\* LogsLokiService.query() names the stream by the OTel service name first.
LokiList(q, restriction, otelService) ==
  buildLogQL([q EXCEPT !.service = IF @ = Unset THEN otelService ELSE @], restriction)

Satisfies(row, clauses) == \A c \in clauses : row[c.field] \in c.values

\* The time window; without bounds it is the last hour.
Window(q, now, hour) ==
  [from |-> IF q.from = 0 THEN now - hour ELSE q.from,
   to   |-> IF q.to = 0 THEN now ELSE q.to]

Selected(table, clauses, window) ==
  {row \in table : Satisfies(row, clauses) /\ row.time \in window.from .. window.to}

-----------------------------------------------------------------------------
(* LogsAggregateService: the clauses of the compiled query once more. *)

\* Everything but the tenant, which the statements bind by themselves; the key
\* prefix has become a LIKE pattern.
buildFilterSql(where, q) ==
  {c \in where : c.field \notin {"tenantId", "logKey"}}
    \cup (IF \E c \in where : c.field = "logKey" THEN KeyClause(q.logKey, Like(q.logKey)) ELSE {})

Aggregated(table, q, restriction, window) ==
  LET where == buildPrismaWhere(q, restriction)
  IN  Selected(table, buildFilterSql(where, q) \cup {c \in where : c.field = "tenantId"}, window)

-----------------------------------------------------------------------------
(* LogEventBus: one line at a time. *)

\* A seeded fault: the level is compared for equality, whatever the operator.
BadMatches(entry, filter) ==
  /\ filter.service # Unset => entry.service = filter.service
  /\ filter.tenantId # Unset => entry.tenantId = filter.tenantId
  /\ filter.traceId # Unset => entry.traceId = filter.traceId
  /\ filter.requestId # Unset => entry.requestId = filter.requestId
  /\ filter.q # Unset => Lower(entry.message) = Lower(filter.q)
  /\ filter.level # NoLevel => entry.level = filter.level[2]
  /\ filter.logKey # Unset => entry.logKey = filter.logKey

matches(entry, filter) ==
  /\ filter.service # Unset => entry.service = filter.service
  /\ filter.tenantId # Unset => entry.tenantId = filter.tenantId
  /\ filter.traceId # Unset => entry.traceId = filter.traceId
  /\ filter.requestId # Unset => entry.requestId = filter.requestId
  /\ filter.q # Unset => Lower(entry.message) = Lower(filter.q)
  /\ filter.level # NoLevel =>
       IF filter.level[1] = ">="
       THEN LEVEL_RANK[entry.level] >= LEVEL_RANK[filter.level[2]]
       ELSE entry.level = filter.level[2]
  /\ filter.logKey # Unset =>
       IF endsWithStar(filter.logKey)
       THEN entry.logKey \in startsWith(filter.logKey)
       ELSE entry.logKey = filter.logKey

-----------------------------------------------------------------------------
(* Identity: the headers of the web app, and what the API makes of them. *)

NO_TENANT_SENTINEL == "__NO_TENANT__"

toRestriction(role, tenantId) ==
  IF role = "admin" THEN Unset
  ELSE IF tenantId = Unset THEN NO_TENANT_SENTINEL ELSE tenantId

\* encodeLogQuery() sends the tenant as a parameter, rbacHeadersForQuery() as a
\* header too.
Restriction(q) == toRestriction(q.role, q.tenantId)
ListWhere(q) == buildPrismaWhere(q, Restriction(q))

\* The SSE proxy moves the tenant from the parameters to the header for good.
tailFilter(q) == [q EXCEPT !.tenantId = Unset]
InTail(entry, q) ==
  /\ Restriction(q) # Unset => entry.tenantId = Restriction(q)
  /\ matches(entry, tailFilter(q))

\* query-compile.ts, in the order it prints: neither output has a restriction, and a
\* key prefix is a LIKE pattern.
toSqlWhere(q) ==
  UNION {LevelClause(q.level), KeyClause(q.logKey, Like(q.logKey)),
         Is("service", q.service), Is("tenantId", q.tenantId), Is("traceId", q.traceId),
         Is("requestId", q.requestId), Clause("message", q.q, Insensitive(q.q))}

-----------------------------------------------------------------------------
(* LogsFacetsService: GROUP BY under the same where. *)

\* A seeded fault: the restriction is left out of the where.
BadFacetCounts(table, q, field, window, take) ==
  LET rows == Selected(table, buildPrismaWhere(q, Unset), window)
      Count(v) == Cardinality({row \in rows : row[field] = v})
      values == {row[field] : row \in rows} \ {Unset}
  IN  {[value |-> v, count |-> Count(v)] :
         v \in {v \in values : Cardinality({w \in values : Count(w) > Count(v)}) < take}}

\* The values that may be among the `take` most frequent: of equally frequent ones the
\* database returns any.  COUNT(column) of the rows without a value is 0, so they come
\* last; they are filtered after.
facetCounts(table, q, field, window, take) ==
  LET rows == Selected(table, ListWhere(q), window)
      Count(v) == Cardinality({row \in rows : row[field] = v})
      values == {row[field] : row \in rows} \ {Unset}
  IN  {[value |-> v, count |-> Count(v)] :
         v \in {v \in values : Cardinality({w \in values : Count(w) > Count(v)}) < take}}
==============================================================================
