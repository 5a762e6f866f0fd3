----------------------------- MODULE MCAlertRules ------------------------------
(* The bounded instance of AlertRules. *)
EXTENDS AlertRules, MCRules
================================================================================
