------------------------------- MODULE MCExplorer ------------------------------
(* The bounded instance of Explorer. *)
EXTENDS Explorer, MCFilters
================================================================================
