-------------------------------- MODULE LokiList -------------------------------
(***************************************************************************)
(* GET /logs?source=loki: the table's pages out of Loki.  The id of a row  *)
(* is the nanosecond timestamp of its entry, which LokiDestination made of *)
(* the clock and the place in the batch; its time is that of the line.     *)
(* The next page ends one nanosecond before the last row of this one, and  *)
(* the end of a range is not part of it.                                   *)
(*                                                                         *)
(* One service and its stream, one reader.  Entries of two batches that    *)
(* were pushed in the same millisecond share timestamps.                   *)
(* Operators whose names begin with Bad are seeded faults.                 *)
(***************************************************************************)
EXTENDS Integers, FiniteSets, Sequences

CONSTANTS
  NS_PER_MS,   \* 1_000_000
  BatchSizes,  \* lines of a batch
  Limit,       \* rows of a page
  Span,        \* the default window, in milliseconds
  MaxMs,       \* bound: milliseconds the clock advances
  MaxBatches   \* bound: batches pushed

VARIABLES
  clock,     \* Date.now()
  lineTime,  \* the time of the newest line pushed: lines are pushed in order
  pushed,    \* history: the batches, as sets of entries
  pushing,   \* the batch on its way; the flush chain has one at a time
  entries,   \* what Loki holds
  reading,   \* "no", "more", "failed" or "done"
  window,    \* of the list
  startNs, endNs, \* of the request to come
  listed,    \* pages, as sets of rows
  held       \* history: what Loki held of the window when the list began

loki == <<clock, lineTime, pushed, pushing, entries>>
list == <<reading, window, startNs, endNs, listed, held>>
vars == <<loki, list>>

-----------------------------------------------------------------------------
(* Loki and the destination. *)

Tick ==
  /\ clock < MaxMs /\ clock' = clock + 1
  /\ UNCHANGED <<lineTime, pushed, pushing, entries, list>>

\* A batch is stamped when it leaves; its lines were written at some time before.
Push(size, time) ==
  /\ pushing = {} /\ Cardinality(pushed) < MaxBatches
  /\ time \in lineTime .. clock /\ lineTime' = time
  /\ pushing' = {[id |-> clock * NS_PER_MS + i - 1, time |-> time,
                  batch |-> Cardinality(pushed)] : i \in 1 .. size}
  /\ pushed' = pushed \cup {pushing'}
  /\ UNCHANGED <<clock, entries, list>>

\* All of it, or after a failure any part of it.
Stored(kept) ==
  /\ pushing # {} /\ kept \subseteq pushing
  /\ entries' = entries \cup kept /\ pushing' = {}
  /\ UNCHANGED <<clock, lineTime, pushed, list>>

-----------------------------------------------------------------------------
(* LogsLokiService. *)

\* A seeded fault: the boundary is the time of the line.
BadEndNanos(cursor) == cursor.time * NS_PER_MS
endNanos(cursor) == cursor.id - 1

InRange(from, end) == {e \in entries : from <= e.id /\ e.id < end}

\* query_range has the newest `Limit` entries from the start to before the end; either
\* of two that tie.
queryRange(from, end) ==
  {page \in SUBSET InRange(from, end) :
     /\ Cardinality(page) <= Limit
     /\ Cardinality(page) < Limit => page = InRange(from, end)
     /\ \A e \in page, other \in InRange(from, end) \ page : other.id <= e.id}

\* rows.sort(): by time, then by id; the sort is newest first.
Before(a, b) == a.time > b.time \/ (a.time = b.time /\ a.id > b.id)
LastRows(page) == {e \in page : \A other \in page : ~Before(e, other)}

\* A window of the time range picker, or the default one.
OpenList(from, to) ==
  /\ reading = "no" /\ reading' = "more"
  /\ window' = [from |-> from, to |-> to]
  /\ startNs' = from * NS_PER_MS /\ endNs' = to * NS_PER_MS
  /\ held' = InRange(startNs', endNs')
  /\ UNCHANGED <<loki, listed>>

\* LogTable: near its bottom the table asks for the next page, if there is one.
handleScroll == reading \in {"more", "failed"}

\* query(): a full page has a cursor, the last row.
ListPage ==
  /\ handleScroll
  /\ \E page \in queryRange(startNs, endNs) :
       /\ listed' = Append(listed, page)
       /\ IF Cardinality(page) >= Limit
          THEN \E cursor \in LastRows(page) : endNs' = endNanos(cursor) /\ reading' = "more"
          ELSE reading' = "done" /\ UNCHANGED endNs
  /\ UNCHANGED <<loki, window, startNs, held>>

\* A refused or aborted request is a 502; the page may be asked for again.
PageFails ==
  /\ reading = "more" /\ reading' = "failed"
  /\ UNCHANGED <<loki, window, startNs, endNs, listed, held>>

-----------------------------------------------------------------------------

Init ==
  /\ clock = 0 /\ lineTime = 0 /\ pushed = {} /\ pushing = {} /\ entries = {}
  /\ reading = "no" /\ window = [from |-> 0, to |-> 0] /\ startNs = 0 /\ endNs = 0
  /\ listed = <<>> /\ held = {}

Next ==
  \/ Tick
  \/ \E size \in BatchSizes, time \in 0 .. MaxMs : Push(size, time)
  \/ \E kept \in SUBSET pushing : Stored(kept)
  \/ \E to \in {clock - 1, clock} \ {-1} :
       OpenList(IF to > Span THEN to - Span ELSE 0, to)
  \/ ListPage \/ PageFails

Spec == Init /\ [][Next]_vars

-----------------------------------------------------------------------------
(* Properties. *)

Stamped == UNION pushed
HasItsOwnStamp(e) == \A other \in Stamped : other.id = e.id => other = e
PagesWith(e) == {i \in DOMAIN listed : e \in listed[i]}

\* One nanosecond below the last row of a full page.
AtSeam(e) ==
  \E i \in DOMAIN listed :
    Cardinality(listed[i]) >= Limit /\ \E row \in LastRows(listed[i]) : e.id = row.id - 1

\* Pages are cut by timestamp and their cursor is the last row by time, while batches
\* are pushed and lost and requests fail: even so an entry whose timestamp no other
\* entry got is never in two pages, and when the list has ended it has been in one, if
\* Loki had it when the list began, unless it is right below the end of a page.
LokiListIsStable ==
  \A e \in Stamped :
    HasItsOwnStamp(e) =>
      /\ Cardinality(PagesWith(e)) <= 1
      /\ reading = "done" /\ e \in held => PagesWith(e) # {} \/ AtSeam(e)

\* "The next page queries end = cursorNs - 1 (strictly older), so paging is stable": the
\* pages of a list that has ended have every entry that Loki had when it began and that
\* shares its timestamp with none.
LokiPagesSkipNothing ==
  reading = "done" => \A e \in held : HasItsOwnStamp(e) => PagesWith(e) # {}
================================================================================
