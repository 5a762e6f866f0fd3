------------------------------- MODULE MCConsole -------------------------------
(* The bounded instance of Console. *)
EXTENDS Console

RuleData == INSTANCE MCRules
FilterData == INSTANCE MCFilters

MCLines    == RuleData!MCLines
MCDrafts   == RuleData!MCDrafts
MCTable    == FilterData!MCTable
MCLokiTable == FilterData!MCLokiTable
MCTexts    == FilterData!MCTexts
MCInstants == FilterData!MCInstants
MCClock    == FilterData!MCClock
================================================================================
