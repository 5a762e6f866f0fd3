-------------------------------- MODULE MCRules --------------------------------
(* Drafts an administrator may type and lines a rule may be evaluated on. *)
EXTENDS RuleShapes

MCDrafts ==
  {[ErrorSpike EXCEPT !.severity = "warning"], [Heartbeat EXCEPT !.forDuration = "2d"],
   [ErrorSpike EXCEPT !.threshold = -1], [ErrorSpike EXCEPT !.threshold = 0],
   [ErrorSpike EXCEPT !.window = "soon"], [ErrorSpike EXCEPT !.levels = {"fatal"}],
   [SpecificFailure EXCEPT !.logKey = "PAYMENT_*"],
   [SpecificFailure EXCEPT !.levels = {"warn"}],
   [Heartbeat EXCEPT !.comparator = "<"],
   [SpecificFailure EXCEPT !.logKey = "payment"]}
Stored(level, key, service, age) ==
  [level |-> level, logKey |-> key, service |-> service, age |-> age]
MCLines == {Stored("info", "HTTP_REQUEST_SUCCESS", "api", 1),
            Stored("info", "HTTP_REQUEST_SUCCESS", "api", 8),
            Stored("warn", "PAYMENT_CHARGE_FAILED", "api", 1),
            Stored("error", "PAYMENT_CHARGE_FAILED", "worker", 1),
            Stored("error", "AUTH_MFA2_FAILED", "api", 3)}
================================================================================
