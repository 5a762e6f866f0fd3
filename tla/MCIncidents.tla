----------------------------- MODULE MCIncidents ------------------------------
(* Model values for the bounded instances of Incidents. *)
EXTENDS Incidents

CONSTANTS r1, r2, t1, t2, alice, bob
==============================================================================
