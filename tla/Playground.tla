------------------------------- MODULE Playground ------------------------------
(***************************************************************************)
(* The Trigger Center: a card fires a demo route, the API's handler writes *)
(* its lines and answers with its correlation ids, and the card links to   *)
(* the Explorer.  POST /downstream/dispatch calls the worker twice, each   *)
(* call with a deadline of three seconds, and never fails itself.          *)
(*                                                                         *)
(* One card is followed; cards share nothing but the API.  A request and   *)
(* its trace are the number of the fire.  The link names no source, so the *)
(* Explorer lists from Loki, which the API's lines reach from info on, in  *)
(* batches that are stamped when they are pushed or are lost; a push takes *)
(* no time here (LokiDestination has its steps).  The worker's logger has  *)
(* no destination, its lines stay on its standard output.                  *)
(* Operators whose names begin with Bad are seeded faults.                 *)
(***************************************************************************)
EXTENDS Integers, FiniteSets

CONSTANTS
  BURST_PAD,  \* one minute
  RANGE,      \* fifteen minutes
  QUANTUM,    \* half a minute
  MaxFires,   \* bound: uses of the Fire button,
  MaxDispatches, \* and of that of the dispatch
  MaxClock    \* bound: ticks

Cards == {"level", "order", "payment", "pii-signup", "pii-nested", "pii-headers", "huge",
          "slow", "status", "dispatch", "fault-loki", "burst"}
Paths == {1, 2}                 \* the instrumented call and the manual one
LEVELS == {"info", "fatal", "verbose"}   \* error and warn fare as info does, debug as verbose
STATUS_CODES == {400, 404, 500, 503}
BURSTS == {1, 2}                \* counts typed, of 1 .. 500

VARIABLES
  card,      \* the descriptor of the card
  isFiring,  \* 0, or the fire the card waits for,
  firedAt,   \* and when
  result,    \* what the card shows: nothing, or a result and its target
  fires,     \* the requests sent: [ctx, at the handler: "sent", "running", "answered", "lost"]
  calls,     \* the worker calls of dispatches: [id, path] -> state
  lines,     \* every line written
  waiting,   \* those in the buffer of the Loki destination
  loki,      \* the rows of Loki: lines with their stamps
  clock

sink == <<waiting, loki>>
vars == <<card, isFiring, firedAt, result, fires, calls, lines, sink, clock>>

Fired == DOMAIN fires
NoResult == [fire |-> 0]

-----------------------------------------------------------------------------
(* TriggerCard and triggerApi. *)

\* The route behind a card.
triggerApi == [c \in Cards |->
  CASE c = "level"       -> [method |-> "POST", path |-> "/trigger/level"]
    [] c = "order"       -> [method |-> "POST", path |-> "/orders"]
    [] c = "payment"     -> [method |-> "POST", path |-> "/payments"]
    [] c = "pii-signup"  -> [method |-> "POST", path |-> "/pii-demo/signup"]
    [] c = "pii-nested"  -> [method |-> "POST", path |-> "/pii-demo/nested"]
    [] c = "pii-headers" -> [method |-> "GET", path |-> "/pii-demo/echo-headers"]
    [] c = "huge"        -> [method |-> "POST", path |-> "/pii-demo/huge"]
    [] c = "slow"        -> [method |-> "GET", path |-> "/orders/slow"]
    [] c = "status"      -> [method |-> "GET", path |-> "/trigger/status"]
    [] c = "dispatch"    -> [method |-> "POST", path |-> "/downstream/dispatch"]
    [] c = "fault-loki"  -> [method |-> "POST", path |-> "/trigger/fault/loki"]
    [] c = "burst"       -> [method |-> "POST", path |-> "/trigger/burst"]]
route == triggerApi[card]

\* The inputs of the card, as its controls let them be set.
Contexts ==
  [level : IF card = "level" THEN LEVELS ELSE {"info"},
   code : IF card = "status" THEN STATUS_CODES ELSE {400},
   count : IF card = "burst" THEN BURSTS ELSE {1}]

\* onFire(): the button is disabled until the request has ended.
onFire ==
  /\ isFiring = 0
  /\ Cardinality(Fired) < IF card = "dispatch" THEN MaxDispatches ELSE MaxFires
  /\ LET id == Cardinality(Fired) + 1
     IN  /\ isFiring' = id
         /\ \E ctx \in Contexts :
              fires' = [f \in Fired \cup {id} |->
                          IF f = id THEN [ctx |-> ctx, state |-> "sent", status |-> 0] ELSE fires[f]]
  /\ firedAt' = clock
  /\ UNCHANGED <<card, result, calls, lines, sink, clock>>

\* byRequest and byTrace: the id, or the other one, or none if the headers that
\* carry them are missing.
ById(id) == {[by |-> "request", id |-> id], [by |-> "trace", id |-> id], [by |-> "range"]}

\* A seeded fault: the window of a burst is taken when its answer is here.
BadExplorerTarget(id) ==
  IF card = "burst"
  THEN {[by |-> "window", logKey |-> "TRIGGER_BURST_TICK",
         from |-> clock - BURST_PAD, to |-> clock + BURST_PAD]}
  ELSE IF card = "dispatch" THEN {target \in ById(id) : target.by # "request"} ELSE ById(id)

explorerTarget(id) ==
  IF card = "burst"
  THEN {[by |-> "window", logKey |-> "TRIGGER_BURST_TICK",
         from |-> firedAt - BURST_PAD, to |-> clock + BURST_PAD]}
  ELSE IF card = "dispatch" THEN {target \in ById(id) : target.by # "request"} ELSE ById(id)

\* The answer arrives, of whatever status.
Shown ==
  /\ isFiring # 0 /\ fires[isFiring].state = "answered"
  /\ \E target \in explorerTarget(isFiring) :
       result' = [fire |-> isFiring, at |-> firedAt, shown |-> clock, target |-> target]
  /\ isFiring' = 0
  /\ UNCHANGED <<card, firedAt, fires, calls, lines, sink, clock>>

\* fetch() rejects, before or after the API has the request: the result stays.
NetworkError ==
  /\ isFiring # 0 /\ isFiring' = 0
  /\ \/ UNCHANGED fires
     \/ fires[isFiring].state = "sent" /\ fires' = [fires EXCEPT ![isFiring].state = "lost"]
  /\ UNCHANGED <<card, firedAt, result, calls, lines, sink, clock>>

-----------------------------------------------------------------------------
(* The handlers. *)

Line(id, key, level, n) ==
  [fire |-> id, service |-> "api", logKey |-> key, level |-> level, n |-> n]

\* The API's logger hands a line on to Loki; the worker's has no destination.
ListedLevels == {"info", "warn", "error", "fatal"}
Write(new) ==
  /\ lines' = lines \cup new
  /\ waiting' = waiting \cup {l \in new : l.service = "api" /\ l.level \in ListedLevels}
  /\ UNCHANGED loki

\* LokiDestination.flush(): what waits is stamped and pushed, or lost.
flush ==
  /\ waiting # {} /\ waiting' = {}
  /\ loki' \in {loki, loki \cup [line : waiting, stamp : {clock}]}
  /\ UNCHANGED <<card, isFiring, firedAt, result, fires, calls, lines, clock>>

\* TriggerService, PiiDemoService, PaymentsService and OrdersService: the lines
\* of a request, before it is answered.
fireLevel(id, level) ==
  {CASE level \in {"info", "warn", "error"} -> Line(id, "TRIGGER_LEVEL_FIRED", level, 1)
     [] level = "verbose"                   -> Line(id, "UNKNOWN", "trace", 1)
     [] OTHER                               -> Line(id, "UNKNOWN", level, 1)}
requestFault(id) == {Line(id, "TRIGGER_FAULT_REQUESTED", "warn", 1)}
burst(id, count) == {Line(id, "TRIGGER_BURST_TICK", "info", n) : n \in 1 .. count}

PiiDemo(id) ==
  CASE route.path = "/pii-demo/signup"       -> {Line(id, "USER_SIGNUP_ATTEMPT", "info", 1)}
    [] route.path = "/pii-demo/nested"       -> {Line(id, "PII_NESTED_PROBE", "info", 1)}
    [] route.path = "/pii-demo/echo-headers" -> {Line(id, "PII_HEADERS_ECHO", "info", 1)}
    [] route.path = "/pii-demo/huge"         -> {Line(id, "PII_HUGE_PAYLOAD", "error", 1)}

charge(id) == {Line(id, "PAYMENT_CHARGE_ATTEMPT", "info", 1),
               Line(id, "PAYMENT_CHARGE_FAILED", "error", 1)}
Orders(id) == IF route.path = "/orders" THEN {Line(id, "ORDER_CREATE_SUCCESS", "info", 1)}
              ELSE {Line(id, "ORDER_SLOW_SUCCESS", "info", 1)}

Written(id, ctx) ==
  CASE card = "level"             -> fireLevel(id, ctx.level)
    [] card = "burst"             -> burst(id, ctx.count)
    [] card = "fault-loki"        -> requestFault(id)
    [] card = "payment"           -> charge(id)
    [] card \in {"order", "slow"} -> Orders(id)
    [] card = "status"            -> {}
    [] OTHER                      -> PiiDemo(id)

\* A declined charge and the status route throw; a route answers 201 or 200.
Status(ctx) ==
  CASE card = "payment" -> 402
    [] card = "status"  -> ctx.code
    [] OTHER            -> IF route.method = "POST" THEN 201 ELSE 200

Answer(id, status) == [fires EXCEPT ![id] = [@ EXCEPT !.state = "answered", !.status = status]]

handle(id) ==
  /\ card # "dispatch" /\ fires[id].state = "sent"
  /\ Write(Written(id, fires[id].ctx))
  /\ fires' = Answer(id, Status(fires[id].ctx))
  /\ UNCHANGED <<card, isFiring, firedAt, result, calls, clock>>

\* Orders need Postgres; without it the answer is a 500.
OrderFails(id) ==
  /\ card = "order" /\ fires[id].state = "sent" /\ fires' = Answer(id, 500)
  /\ UNCHANGED <<card, isFiring, firedAt, result, calls, lines, sink, clock>>

-----------------------------------------------------------------------------
(* DownstreamService and the worker.  A call is "sent", then at the worker      *)
(* "accepted" or "refused", and in the end "ok" or "degraded" for the API.      *)

\* dispatch(): both paths start before either has an answer.
dispatch(id) ==
  /\ card = "dispatch" /\ fires[id].state = "sent"
  /\ fires' = [fires EXCEPT ![id].state = "running"]
  /\ calls' = [c \in DOMAIN calls \cup ({id} \X Paths) |->
                 IF c[1] = id THEN "sent" ELSE calls[c]]
  /\ Write({Line(id, "DOWNSTREAM_DISPATCH_START", "info", 1),
            Line(id, "DOWNSTREAM_DISPATCH_MANUAL", "info", 1)})
  /\ UNCHANGED <<card, isFiring, firedAt, result, clock>>

\* TasksService.process(), whether or not the caller still waits.
process(c) ==
  /\ calls[c] \in {"sent", "degraded"}
  /\ ~ \E l \in lines : l.fire = c[1] /\ l.service = "worker" /\ l.path = c[2]
  /\ calls' = [calls EXCEPT ![c] = IF @ = "sent" THEN "accepted" ELSE @]
  /\ Write({[fire |-> c[1], service |-> "worker", logKey |-> key, level |-> "info",
             path |-> c[2]] : key \in {"WORKER_TASK_RECEIVED", "WORKER_TASK_PROCESSED"}})
  /\ UNCHANGED <<card, isFiring, firedAt, result, fires, clock>>

\* The worker, or what is in front of it, answers with an error.
Refuse(c) ==
  /\ calls[c] = "sent" /\ calls' = [calls EXCEPT ![c] = "refused"]
  /\ UNCHANGED <<card, isFiring, firedAt, result, fires, lines, sink, clock>>

Outcome(c, state, key, level) ==
  /\ calls' = [calls EXCEPT ![c] = state]
  /\ Write({Line(c[1], key, level, c[2])})
  /\ UNCHANGED <<card, isFiring, firedAt, result, fires, clock>>

Answered(c) == calls[c] = "accepted"
Succeed(c) == Answered(c) /\ Outcome(c, "ok", "DOWNSTREAM_DISPATCH_SUCCESS", "info")

\* No connection, an answer that is not a success, or the deadline.
Degrade(c) ==
  /\ calls[c] \in {"sent", "accepted", "refused"}
  /\ Outcome(c, "degraded", "DOWNSTREAM_DISPATCH_DEGRADED", "warn")

Settled(id) == \A p \in Paths : calls[<<id, p>>] \in {"ok", "degraded"}
DispatchDone(id) ==
  /\ fires[id].state = "running" /\ Settled(id) /\ fires' = Answer(id, 201)
  /\ UNCHANGED <<card, isFiring, firedAt, result, calls, lines, sink, clock>>

-----------------------------------------------------------------------------

Tick ==
  /\ clock < MaxClock /\ clock' = clock + 1
  /\ UNCHANGED <<card, isFiring, firedAt, result, fires, calls, lines, sink>>

Init ==
  /\ card \in Cards /\ isFiring = 0 /\ firedAt = 0 /\ result = NoResult
  /\ fires = <<>> /\ calls = <<>> /\ lines = {} /\ waiting = {} /\ loki = {}
  /\ clock = 0

Next ==
  \/ onFire \/ Shown \/ NetworkError \/ flush \/ Tick
  \/ \E id \in Fired : handle(id) \/ OrderFails(id) \/ dispatch(id) \/ DispatchDone(id)
  \/ \E c \in DOMAIN calls : process(c) \/ Refuse(c) \/ Succeed(c) \/ Degrade(c)

Spec == Init /\ [][Next]_vars

-----------------------------------------------------------------------------
(* The list behind the link, as an Explorer that was opened then asks for it    *)
(* now.  Loki's end is exclusive.                                               *)

\* useLogQuery(): the end of a relative range is the present of the last tick of
\* the interval, which began with the page, rounded down.
Ticked(opened) == clock - ((clock - opened) % QUANTUM)
End(opened) == Ticked(opened) - (Ticked(opened) % QUANTUM)

Linked(target, opened) ==
  {row \in loki :
     IF target.by = "window"
     THEN /\ row.line.logKey = target.logKey
          /\ target.from <= row.stamp /\ row.stamp < target.to
     ELSE /\ target.by = "range" \/ row.line.fire = target.id
          /\ End(opened) - RANGE <= row.stamp /\ row.stamp < End(opened)}

-----------------------------------------------------------------------------
(* Properties. *)

\* "View in Explorer": whenever the page behind the link was opened and however
\* long the answer took, a query of it lists every row that Loki has of that fire:
\* by an id from one minute after the row's stamp to a quarter of an hour after it,
\* and the ticks of a burst if they were pushed within a minute of the answer.
LinkLeadsToTheFire ==
  result # NoResult =>
    \A row \in loki, opened \in 0 .. clock :
      /\ row.line.fire = result.fire
      /\ IF card = "burst"
         THEN row.stamp < result.shown + BURST_PAD
         ELSE row.stamp + 2 * QUANTUM <= clock /\ clock - RANGE <= row.stamp
      => row \in Linked(result.target, opened)

\* The answer of a dispatch is true: a path counts as ok only if the worker has
\* processed its task under the trace, its outcome was logged once and before
\* the answer, and a late answer changes neither.
DispatchTellsTheTruth ==
  \A c \in DOMAIN calls :
    LET outcomes == {l \in lines : /\ l.fire = c[1]
                                   /\ l.logKey \in {"DOWNSTREAM_DISPATCH_SUCCESS",
                                                    "DOWNSTREAM_DISPATCH_DEGRADED"}
                                   /\ l.n = c[2]}
        tasks == {l \in lines : l.service = "worker" /\ l.fire = c[1] /\ l.path = c[2]}
    IN  /\ calls[c] = "ok" => Cardinality(tasks) = 2
        /\ fires[c[1]].state = "answered" => Cardinality(outcomes) = 1
        /\ \A l \in outcomes :
             calls[c] = IF l.logKey = "DOWNSTREAM_DISPATCH_SUCCESS" THEN "ok" ELSE "degraded"
================================================================================
