------------------------------- MODULE MCFilters -------------------------------
(* The rows, texts and instants of the bounded instances of the filter. *)
EXTENDS LogQueries

Row(level, key, service, tenant, trace, req, msg, time) ==
  [level |-> level, logKey |-> key, service |-> service, tenantId |-> tenant,
   traceId |-> trace, requestId |-> req, message |-> msg, time |-> time]
MCTable ==
  {Row("error", "PAYMENT_CHARGE_FAILED", "api", "acme", "t1", "r1", "Refund", 20000),
   Row("warn",  "PAYMENT_CHARGE_FAILED", "worker", "globex", "t1", "", "Refund", 20003),
   Row("fatal", "ORDER_CREATE_FAILED", "api", "acme", "", "r2", "order", 19990),
   Row("warn",  "UNKNOWN", "api", "", "", "", "order", 20010),
   Row("error", "ORDER_CREATE_FAILED", "api", "globex", "", "r2", "order", 16000)}
\* Loki has what is less than a warning too, and it may have lost a line.
MCLokiTable ==
  {row \in MCTable : row.service = "api" /\ row.time # 19990}
    \cup {Row("info", "UNKNOWN", "api", "acme", "t1", "r1", "order", 20005)}
Word(op, field, value) == [field |-> field, value |-> <<op, value>>]
MCTexts ==
  {<<>>,
   <<Word(">=", "level", "warn"), Word(":", "logKey", "PAYMENT_*")>>,
   <<Word("", "word", "refund"), Word(":", "service", "api")>>,
   <<Word("", "word", QUOTED), Word("", "level", "bogus")>>,
   <<Word(":", "logKey", "PAY_*"), Word("~", "msg", "Refund"), Word("", "word", "lost")>>,
   <<Word(":", "logKey", "payment"), Word(":", "tenantId", "acme")>>,
   <<Word(":", "logKey", "PAYMENT_CH*")>>}
MCInstants == {19992, 20008}
MCClock == <<20014, 20017>>
================================================================================
