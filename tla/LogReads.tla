------------------------------ MODULE LogReads ------------------------------
(***************************************************************************)
(* The read API's paged scans of ApplicationLog while the table moves under *)
(* them: GET /logs (one page per request, the cursor kept by the client),  *)
(* GET /logs/export (a count, a header, then page after page into the      *)
(* response) and GET /logs/context (an anchor row, the rows before it, the *)
(* rows after it).  Each findMany or count is one atomic statement; between *)
(* two of them the destinations insert rows, late ones included, and the   *)
(* retention sweep deletes old ones.                                       *)
(*                                                                         *)
(* A row is its place in the keyset order (time, id): a number, the larger *)
(* the newer.  One reader is followed at a time: readers share nothing but *)
(* the table, and only read it.                                            *)
(***************************************************************************)
EXTENDS Naturals, Sequences, FiniteSets

CONSTANTS MaxKey,   \* the newest row a behaviour reaches
          Span,     \* the default window, in rows' time (one hour in the code)
          Limit,    \* rows per page: limit of GET /logs, PAGE_SIZE of the export
          Cap,      \* MAX_EXPORT_ROWS
          Around    \* rows GET /logs/context returns on either side

ASSUME LogReadsAssumption ==
  /\ MaxKey \in Nat \ {0} /\ Span \in Nat
  /\ Limit \in Nat \ {0} /\ Cap \in Nat \ {0} /\ Around \in Nat \ {0}

VARIABLES
  now,      \* no row is newer yet
  rows,     \* the rows of the table
  swept,    \* rows deleted: an id is never used again
  reader,   \* "none", "list", "export" or "context"
  step,     \* where its handler or its client is
  pinned,   \* the window is part of the query, not derived from the clock
  lo, hi,   \* the window, or the context's anchor in both
  cursor,   \* rows of the next page are older than this one
  pages,    \* what it got, page by page
  flagged,  \* the response carries X-Export-Truncated
  start     \* history: the rows in the window when the reader started

table == <<now, rows, swept>>
query == <<reader, pinned, lo, hi, flagged, start>>
vars == <<table, query, step, cursor, pages>>

Keys == 1..MaxKey
RowsOf(scan) == UNION {scan[i]: i \in DOMAIN scan}
Got == RowsOf(pages)
Sent == Cardinality(Got)

(* defaultFrom(): the window's lower bound without q.from.                 *)
From(t) == IF t > Span THEN t - Span ELSE 1

Lo == IF pinned THEN lo ELSE From(now)

(* The rows a request selects: its window, and the keyset clause, strictly *)
(* older than the cursor.                                                  *)
Window(l) == {k \in rows: l <= k /\ k <= hi /\ k < cursor}

(* `page` is what findMany returns of `from`: ordered newest first (or, for *)
(* rows after an anchor, oldest first), the first n.                       *)
First(page, from, n) ==
  /\ page \subseteq from /\ Cardinality(page) <= n
  /\ Cardinality(page) < n => page = from

IsNewest(page, from, n) ==
  First(page, from, n) /\ \A k \in page, j \in from \ page: j < k

(* Rows after an anchor taken from the newest end.                         *)
BadIsOldest(page, from, n) == IsNewest(page, from, n)

IsOldest(page, from, n) ==
  First(page, from, n) /\ \A k \in page, j \in from \ page: k < j

-----------------------------------------------------------------------------
Init ==
  /\ now \in Keys /\ rows \in SUBSET (1..now) /\ swept = {}
  /\ reader = "none" /\ step = "idle" /\ pinned = FALSE /\ lo = 0 /\ hi = 0
  /\ cursor = 0 /\ pages = <<>> /\ flagged = FALSE /\ start = {}

Tick == now < MaxKey /\ now' = now + 1 /\ UNCHANGED <<rows, swept, query, step, cursor, pages>>

(* createMany of a batch that was buffered for a while, by any process:    *)
(* the row may be older than rows already there.                           *)
Insert(k) ==
  /\ k <= now /\ k \notin rows \cup swept
  /\ rows' = rows \cup {k}
  /\ UNCHANGED <<now, swept, query, step, cursor, pages>>

(* RetentionSweepService.sweep: everything older than a cutoff goes.       *)
Sweep(cutoff) ==
  /\ \E k \in rows: k < cutoff
  /\ rows' = {k \in rows: k >= cutoff}
  /\ swept' = swept \cup (rows \ rows')
  /\ UNCHANGED <<now, query, step, cursor, pages>>

-----------------------------------------------------------------------------
(* A reader starts: its window, explicit (any) or the default one.         *)
Open(kind, isPinned, l, h) ==
  /\ reader = "none"
  /\ reader' = kind /\ pinned' = isPinned /\ lo' = l /\ hi' = h
  /\ start' = {k \in rows: l <= k /\ k <= h}
  /\ cursor' = MaxKey + 1 /\ pages' = <<>>
  /\ UNCHANGED table

OpenList ==
  /\ \/ \E l, h \in Keys: l <= h /\ Open("list", TRUE, l, h)
     \/ Open("list", FALSE, From(now), now)
  /\ step' = "more" /\ flagged' = FALSE

(* One row more is asked for to see whether there is a next page, and that  *)
(* row becomes the cursor, which is exclusive.                             *)
BadListPage ==
  /\ reader = "list" /\ step = "more"
  /\ \E page \in SUBSET Window(Lo):
       /\ IsNewest(page, Window(Lo), Limit + 1)
       /\ IF Cardinality(page) = Limit + 1
          THEN \E extra \in page:
                 /\ \A k \in page: extra <= k
                 /\ pages' = Append(pages, page \ {extra})
                 /\ cursor' = extra
                 /\ UNCHANGED step
          ELSE pages' = Append(pages, page) /\ step' = "done" /\ UNCHANGED cursor
  /\ UNCHANGED <<table, query>>

(* One GET /logs request: a full page means there is more, and its last    *)
(* row is the next cursor.                                                 *)
ListPage ==
  /\ reader = "list" /\ step = "more"
  /\ \E page \in SUBSET Window(Lo):
       /\ IsNewest(page, Window(Lo), Limit)
       /\ pages' = Append(pages, page)
       /\ IF Cardinality(page) = Limit
          THEN \E last \in page:
                 /\ \A k \in page: last <= k
                 /\ cursor' = last
                 /\ UNCHANGED step
          ELSE step' = "done" /\ UNCHANGED cursor
  /\ UNCHANGED <<table, query>>

(* LogsExportService.stream: the where clause is built once, the rows are  *)
(* counted, and the header is set before the body starts.                  *)
OpenExport ==
  /\ \/ \E l, h \in Keys: l <= h /\ Open("export", TRUE, l, h)
     \/ Open("export", TRUE, From(now), now)
  /\ flagged' = (Cardinality(start') > Cap)
  /\ step' = "more"

(* The where clause is rebuilt for every page.                             *)
BadExportBatch ==
  /\ reader = "export" /\ step = "more"
  /\ LET take == IF Cap - Sent < Limit THEN Cap - Sent ELSE Limit
         from == Window(IF lo < From(now) THEN From(now) ELSE lo)
     IN \E page \in SUBSET from:
          /\ IsNewest(page, from, take)
          /\ pages' = Append(pages, page)
          /\ IF Sent + Cardinality(page) < Cap /\ Cardinality(page) = Limit
             THEN \E last \in page:
                    /\ \A k \in page: last <= k
                    /\ cursor' = last
                    /\ UNCHANGED step
             ELSE step' = "done" /\ UNCHANGED cursor
  /\ UNCHANGED <<table, query>>

(* One turn of generateRows: stop at the cap or at a short page.           *)
ExportBatch ==
  /\ reader = "export" /\ step = "more"
  /\ LET take == IF Cap - Sent < Limit THEN Cap - Sent ELSE Limit
     IN \E page \in SUBSET Window(Lo):
          /\ IsNewest(page, Window(Lo), take)
          /\ pages' = Append(pages, page)
          /\ IF Sent + Cardinality(page) < Cap /\ Cardinality(page) = Limit
             THEN \E last \in page:
                    /\ \A k \in page: last <= k
                    /\ cursor' = last
                    /\ UNCHANGED step
             ELSE step' = "done" /\ UNCHANGED cursor
  /\ UNCHANGED <<table, query>>

(* LogsContextService.query finds its anchor: the row asked for, or the    *)
(* newest that matches.                                                    *)
OpenContext ==
  /\ reader = "none"
  /\ \E anchor \in rows:
       /\ reader' = "context" /\ pinned' = TRUE /\ lo' = anchor /\ hi' = anchor
       /\ pages' = <<{anchor}>>
  /\ step' = "before" /\ start' = rows /\ flagged' = FALSE /\ cursor' = 0
  /\ UNCHANGED table

ContextBefore ==
  /\ reader = "context" /\ step = "before"
  /\ \E page \in SUBSET rows:
       /\ IsNewest(page, {k \in rows: k < lo}, Around)
       /\ pages' = Append(pages, page)
  /\ step' = "after"
  /\ UNCHANGED <<table, query, cursor>>

ContextAfter ==
  /\ reader = "context" /\ step = "after"
  /\ \E page \in SUBSET rows:
       /\ IsOldest(page, {k \in rows: k > lo}, Around)
       /\ pages' = Append(pages, page)
  /\ step' = "done"
  /\ UNCHANGED <<table, query, cursor>>

(* The answer is delivered, or the client goes away in between.            *)
Close ==
  /\ reader # "none"
  /\ reader' = "none" /\ step' = "idle" /\ pinned' = FALSE /\ lo' = 0 /\ hi' = 0
  /\ cursor' = 0 /\ pages' = <<>> /\ flagged' = FALSE /\ start' = {}
  /\ UNCHANGED table

Next ==
  \/ Tick \/ (\E k \in Keys: Insert(k)) \/ (\E cutoff \in 2..now: Sweep(cutoff))
  \/ OpenList \/ ListPage
  \/ OpenExport \/ ExportBatch
  \/ OpenContext \/ ContextBefore \/ ContextAfter
  \/ Close

Spec == Init /\ [][Next]_vars

-----------------------------------------------------------------------------
(* Type invariant: every variable ranges over its declared set.            *)
TypeOK ==
  /\ now \in Keys /\ rows \subseteq 1..now /\ swept \subseteq 1..now
  /\ rows \cap swept = {}
  /\ reader \in {"none", "list", "export", "context"}
  /\ step \in {"idle", "more", "before", "after", "done"}
  /\ pinned \in BOOLEAN /\ flagged \in BOOLEAN
  /\ lo \in 0..MaxKey /\ hi \in 0..MaxKey /\ cursor \in 0..(MaxKey + 1)
  /\ pages \in Seq(SUBSET Keys) /\ start \subseteq Keys

(* No page repeats or goes back on an earlier one, whatever is inserted or *)
(* swept between them: pages run strictly down the keyset order (the tuple *)
(* comparison in LogsController.list and generateRows).                    *)
PagesDescend ==
  reader \in {"list", "export"} =>
    \A i, j \in DOMAIN pages: i < j => \A k \in pages[i], m \in pages[j]: m < k

(* Rows that were in the window when the reader started, still are and were *)
(* not swept.                                                              *)
Steady == {k \in start \cap rows: reader # "context" => k >= Lo}

(* A scan to the end of GET /logs misses no row that was there all along   *)
(* (keyset pagination instead of OFFSET, LogsController.list).             *)
ListMissesNothing == reader = "list" /\ step = "done" => Steady \subseteq Got

(* An export leaves out a row that was there all along only at the cap, and *)
(* then only rows older than all it sent: the window does not move between *)
(* its pages (LogsExportService.generateRows).                             *)
ExportCutsOnlyTheTail ==
  reader = "export" /\ step = "done" =>
    \A k \in Steady \ Got: Sent = Cap /\ \A g \in Got: k < g

(* The context's rows are the nearest ones: a row that was there all along *)
(* is left out on one side only when that side is full of nearer rows      *)
(* (LogsContextService.query and its two keyset queries).                  *)
ContextIsNearest ==
  reader = "context" /\ step = "done" =>
    \A k \in Steady \ Got:
      LET side == IF k < lo THEN pages[2] ELSE pages[3]
      IN /\ Cardinality(side) = Around
         /\ \A s \in side: IF k < lo THEN k < s ELSE s < k

(* "when the cap is hit, X-Export-Truncated: true is set on the response so *)
(* the client knows" (logs.export.service.ts), in its weakest reading: an  *)
(* export that leaves out a row that was there all along says so.          *)
TruncationIsFlagged ==
  reader = "export" /\ step = "done" /\ Steady \ Got # {} => flagged
=============================================================================
