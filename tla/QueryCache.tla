------------------------------ MODULE QueryCache -------------------------------
(***************************************************************************)
(* One entry of the console's query cache (TanStack Query), as far as the  *)
(* pages of apps/web rely on it: useQuery fetches on mount, and a mutation *)
(* that succeeds calls invalidateQueries on the entry it changed.          *)
(*                                                                         *)
(* An entry is its data, the state of its one fetch, the answer that is on *)
(* its way, and whether the last fetch ended in an error.  The server may  *)
(* change between the moment it answers and the moment the answer arrives. *)
(***************************************************************************)
EXTENDS Naturals

\* Data and answer are a set of at most one value.
NoData == {}

\* useQuery() has mounted with nothing cached: a first fetch is under way.
FirstLoad == [data |-> NoData, fetch |-> "sent", answer |-> NoData, error |-> FALSE]

\* A seeded fault: the refetch joins any fetch that is under way.
BadInvalidate(entry) ==
  IF entry.fetch = "idle" THEN [entry EXCEPT !.fetch = "sent"] ELSE entry

\* invalidateQueries(): a refetch cancels the fetch under way, and its answer is
\* dropped - but not a first load, which the refetch joins.
Invalidate(entry) ==
  IF entry.fetch # "idle" /\ entry.data = NoData
  THEN entry
  ELSE [entry EXCEPT !.fetch = "sent", !.answer = NoData]

\* The refetch of an invalidation that it could only join sees an older server.
Joins(entry) == entry.data = NoData /\ entry.fetch # "idle"

\* The server reads what it answers with; later the answer becomes the data.
Answer(entry, value) == [entry EXCEPT !.fetch = "answered", !.answer = {value}]

Deliver(entry) ==
  [data |-> entry.answer, fetch |-> "idle", answer |-> NoData, error |-> FALSE]

\* The fetch fails for good, after its retries.
Fail(entry) == [entry EXCEPT !.fetch = "idle", !.answer = NoData, !.error = TRUE]

Settled(entry) == entry.fetch = "idle" /\ ~entry.error /\ entry.data # NoData
==============================================================================
