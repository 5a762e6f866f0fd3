------------------------------ MODULE RuleShapes -------------------------------
(***************************************************************************)
(* What an alert rule means, in the three places that say so: the draft of *)
(* the form with the LogQL shown beside it (ruler-yaml.ts), the expression *)
(* the form persists, and parseExpr() and evaluateRule() of the evaluator, *)
(* which read the persisted expression with four regular expressions.      *)
(*                                                                         *)
(* An expression keeps the fields buildExpr() prints instead of its text;  *)
(* the regular expressions become conditions on those fields.  Durations   *)
(* are literals with their minutes; a rate is a count here, since the      *)
(* evaluator counts and only which lines it counts is compared.  An        *)
(* ungrouped query is one series here; Loki, which is not modelled, would  *)
(* split it by the labels of the lines.                                    *)
(* Operators whose names begin with Bad are seeded faults.                 *)
(***************************************************************************)
EXTENDS Integers, FiniteSets

Level == {"info", "warn", "error", "fatal"}

\* logKeys by what the code can tell apart: letters and underscores only, with
\* a digit, a PREFIX_* wildcard; "payment" breaks the convention.
LetterKeys == {"PAYMENT_CHARGE_FAILED", "HTTP_REQUEST_SUCCESS"}
WithDigit  == {"AUTH_MFA2_FAILED"}
Wildcard   == {"PAYMENT_*"}
NoKey      == ""
LogKey     == LetterKeys \cup WithDigit
isValidLogKey(key) == key \in LogKey \cup Wildcard

\* What a rule can tell of a stored line; its age is in minutes.
Line == [level : Level, logKey : LogKey, service : {"api", "worker"}, age : Nat]

Minutes == [d \in {"1m", "2m", "5m", "10m", "2d"} |->
              CASE d = "1m" -> 1 [] d = "2m" -> 2 [] d = "5m" -> 5
                [] d = "10m" -> 10 [] d = "2d" -> 2880]
Typed == DOMAIN Minutes \cup {"soon"}       \* what may stand in a duration field

\* The form takes Prometheus durations, the server s, m and h only; the seeded
\* fault gives the server the grammar of the form.
isValidDuration(d) == d \in DOMAIN Minutes
BadServerDuration(d) == isValidDuration(d)
ServerDuration(d) == d \in DOMAIN Minutes \ {"2d"}

\* parseDuration(): days are not in its grammar, and anything else is 5 minutes.
parseDuration(d) == IF d \in {"1m", "2m", "5m", "10m"} THEN Minutes[d] ELSE 5

RuleDraft ==
  [metric : {"count", "rate"}, levels : SUBSET Level,
   logKey : LogKey \cup Wildcard \cup {NoKey, "payment"}, grouped : BOOLEAN,
   comparator : {">", ">=", "==", "<"}, threshold : Int,
   window : Typed, forDuration : Typed, severity : {"critical", "warning"}]

Preset(metric, levels, key, grouped, comparator, threshold, window, for, severity) ==
  [metric |-> metric, levels |-> levels, logKey |-> key, grouped |-> grouped,
   comparator |-> comparator, threshold |-> threshold, window |-> window,
   forDuration |-> for, severity |-> severity]

ErrorSpike == Preset("count", {"error", "fatal"}, NoKey, TRUE, ">", 10, "5m", "2m", "critical")
AnyFatal   == Preset("count", {"fatal"}, NoKey, FALSE, ">=", 1, "1m", "1m", "critical")
SpecificFailure ==
  Preset("rate", {}, "PAYMENT_CHARGE_FAILED", FALSE, ">", 1, "5m", "2m", "warning")
Heartbeat  == Preset("count", {}, "HTTP_REQUEST_SUCCESS", FALSE, "==", 0, "10m", "1m", "critical")
RULE_PRESETS == {ErrorSpike, AnyFatal, SpecificFailure, Heartbeat}

\* onSubmit() and the submit button of the form.
FormAccepts(draft) ==
  /\ draft.logKey # NoKey => isValidLogKey(draft.logKey)
  /\ isValidDuration(draft.window)
  /\ isValidDuration(draft.forDuration)

buildExpr(draft) ==
  [f \in {"metric", "levels", "logKey", "grouped", "window", "comparator", "threshold"} |->
     draft[f]]

\* createRuleSchema, for the fields a draft can get wrong.
SchemaAccepts(body) == body.threshold >= 0 /\ ServerDuration(body.forDuration)

-----------------------------------------------------------------------------
(* Which lines are counted. *)

Matches(key, pattern) ==
  \/ pattern \in {NoKey, key}
  \/ pattern = "PAYMENT_*" /\ key = "PAYMENT_CHARGE_FAILED"

\* The filters of buildLogQlPipeline().
InSubject(expr, l) ==
  /\ expr.levels # {} => l.level \in expr.levels
  /\ Matches(l.logKey, expr.logKey)

\* buildLogQlExpr(): the lines of the api that pass the filters, in the range [window],
\* a series for each logKey if the draft groups them.
Drawn(expr, table) ==
  LET selected == {l \in table : /\ l.service = "api" /\ InSubject(expr, l)
                                 /\ l.age <= Minutes[expr.window]}
  IN  IF expr.grouped THEN {{l \in selected : l.logKey = key} : key \in LogKey}
                      ELSE {selected}

Counting(levels, keys, operator) ==
  [subject |-> levels \X keys, operator |-> operator]

\* /count\(([A-Z_]+)\).*==/, /rate\(([A-Z_]+)\)/: nothing but a letters-only key.
OnlyKey(expr, metric) ==
  expr.metric = metric /\ expr.levels = {} /\ expr.logKey \in LetterKeys
IsAbsence(expr) ==
  OnlyKey(expr, "count") /\ expr.comparator = "==" /\ expr.threshold >= 0
IsErrorSpike(expr) == {"error", "fatal"} \subseteq expr.levels

\* parseExpr(): the first regular expression that matches.  /level\s*=\s*fatal/
\* matches nothing the form writes, which is always `level in {...}`; what no
\* expression matches counts every line.
parseExpr(expr) ==
  IF IsAbsence(expr) THEN Counting(Level, {expr.logKey}, "==")
  ELSE IF IsErrorSpike(expr) THEN Counting({"error", "fatal"}, LogKey, ">")
  ELSE IF OnlyKey(expr, "rate") THEN Counting(Level, {expr.logKey}, ">")
  ELSE Counting(Level, LogKey, ">")

Breaches(operator, count, threshold) ==
  CASE operator = ">"  -> count > threshold
    [] operator = ">=" -> count >= threshold
    [] operator = "==" -> count = threshold
    [] operator = "<"  -> count < threshold

\* evaluateRule(): the rows of every service, over forDuration and not over the window.
Counted(rule, table) ==
  {l \in table : /\ <<l.level, l.logKey>> \in parseExpr(rule.expr).subject
                 /\ l.age <= parseDuration(rule.forDuration)}
isBreaching(rule, table) ==
  Breaches(parseExpr(rule.expr).operator, Cardinality(Counted(rule, table)),
           rule.threshold)
==============================================================================
