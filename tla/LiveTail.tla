------------------------------ MODULE LiveTail ------------------------------
(***************************************************************************)
(* The SSE live tail, end to end: a log line is published on the           *)
(* in-process LogEventBus the moment it is written and, if it is warn or    *)
(* above, is also buffered for Postgres; one dashboard tab follows the     *)
(* stream through an EventSource.  When the connection breaks the browser  *)
(* reconnects with Last-Event-ID and LogsSseController merges a replay of  *)
(* the newer Postgres rows with the live feed.                             *)
(*                                                                         *)
(* Lines are numbered in the order they are written.  Only lines that pass *)
(* the tail's filter and tenant restriction are modelled: both paths apply *)
(* the same `matches`.  A cursor is the line it was made from and whether  *)
(* it is a synthetic live one: ids `live-...` sort after every row id of   *)
(* the same millisecond, and row ids grow in insertion order.              *)
(***************************************************************************)
EXTENDS Naturals, Sequences, FiniteSets

CONSTANTS MaxLines,  \* lines written in a behaviour
          MaxMs,     \* milliseconds the clock advances
          Take       \* rows a replay query returns at most (500 in the code)

ASSUME LiveTailAssumption == /\ MaxLines \in Nat \ {0}
                             /\ MaxMs \in Nat \ {0}
                             /\ Take \in Nat \ {0}

VARIABLES
  now,      \* the server's clock, in milliseconds
  log,      \* the lines written: millisecond, and whether Postgres is to keep it
  flushed,  \* lines 1..flushed have left PrismaLogDestination's buffer
  stored,   \* the lines that are rows of ApplicationLog
  link,     \* the EventSource: "connecting", "open" or "closed" (terminal)
  lastId,   \* the browser's Last-Event-ID: NoCursor, a cursor or PingId
  until,    \* `to` of the stream's URL: 0 if it has none
  resume,   \* the cursor the open connection was made with
  query,    \* the connection's replay generator: "none", "asked" or "yielding"
  rows,     \* the rows fetchSince has still to yield, oldest first
  wire,     \* events written to the response and not yet received
  shown,    \* the tail's rows, oldest first
  heard,    \* history: lines written before the live feed was subscribed
  excused   \* history: lines this tail is not bound to show, see Excuse*

server == <<now, log, flushed, stored>>
client == <<until, lastId, shown>>
stream == <<resume, query, rows, wire, heard>>
vars == <<server, link, client, stream, excused>>

NoCursor == [line |-> 0, live |-> FALSE]

(* The id of a keep-alive.  It has none of its own, so Nest numbers it; the *)
(* browser keeps the number, which decodeCursor refuses.                   *)
PingId == [line |-> 0, live |-> TRUE]

Lines == 1..Len(log)
Cursors == [line: 1..MaxLines, live: BOOLEAN]

(* The keyset order of replay: time first, then id.                        *)
After(c, l) == IF c.live THEN log[l].ms > log[c.line].ms ELSE l > c.line

(* The time window of buildPrismaWhere.  Without q.to it ends at the time   *)
(* of the request; the live feed has no window (`matches` ignores time).   *)
(* Its lower bound, by default an hour before the request, is taken to lie *)
(* before the cursor: a tail that was away for longer is not modelled.     *)
InWindow(l) == until = 0 \/ log[l].ms <= until

(* The rows newer than the cursor, and whether the query's limit leaves one *)
(* of them in: it takes the oldest.                                        *)
Newer(c) == {l \in stored: After(c, l) /\ InWindow(l)}
WithinTake(c, l) == Cardinality({m \in Newer(c): m < l}) < Take

(* The same with a keyset that includes its bound.                         *)
BadRowsAfter(c) ==
  {l \in Newer(c) \cup (stored \cap {c.line}): WithinTake(c, l)}

(* The rows fetchSince selects.                                            *)
RowsAfter(c) == {l \in Newer(c): WithinTake(c, l)}

(* Replay still has something to send: no answer yet, rows to yield, or    *)
(* rows in flight.                                                         *)
Replaying == query # "none" \/ \E i \in DOMAIN wire: ~wire[i].live

-----------------------------------------------------------------------------
(* Why a line may be missing from the tail.                                *)

(* A line of the same millisecond cannot be told from a live cursor.       *)
Tied(c, l) == c.live /\ log[l].ms = log[c.line].ms

(* It is not a row when the replay query is answered (its level is below   *)
(* Postgres's, its batch still buffered, or its batch was lost), it is     *)
(* past the URL's window or the query's limit, or it is tied with the      *)
(* cursor.                                                                 *)
ExcuseAtQuery ==
  {l \in 1..heard: \/ /\ After(resume, l)
                      /\ l \in stored /\ InWindow(l) => ~WithinTake(resume, l)
                   \/ Tied(resume, l)}

(* The connection broke before its replay was through, and a live line had *)
(* by then moved Last-Event-ID past the rows still to come.                *)
ExcuseAtDrop ==
  IF Replaying /\ lastId # resume /\ lastId \in Cursors /\ lastId.live
  THEN {l \in 1..heard: (After(resume, l) \/ Tied(resume, l)) /\ ~After(lastId, l)}
  ELSE {}

(* Nothing is replayed: the EventSource has no Last-Event-ID yet, or a      *)
(* keep-alive was the last it received before the connection broke.        *)
ExcuseAtConnect == IF lastId \in Cursors THEN {} ELSE Lines

-----------------------------------------------------------------------------
Init ==
  /\ now = 1 /\ log = <<>> /\ flushed = 0 /\ stored = {}
  /\ link = "connecting" /\ until = 0 /\ lastId = NoCursor /\ shown = <<>>
  /\ resume = NoCursor /\ query = "none" /\ rows = {} /\ wire = <<>>
  /\ heard = 0 /\ excused = {}

ClockTick ==
  /\ now < MaxMs
  /\ now' = now + 1
  /\ UNCHANGED <<log, flushed, stored, link, client, stream, excused>>

(* The live feed is concatenated after the replay, not merged with it.     *)
BadWrite(durable) ==
  /\ Len(log) < MaxLines
  /\ log' = Append(log, [ms |-> now, durable |-> durable])
  /\ wire' = IF link = "open" /\ query = "none"
             THEN Append(wire, [line |-> Len(log) + 1, live |-> TRUE])
             ELSE wire
  /\ UNCHANGED <<now, flushed, stored, link, client, resume, query, rows, heard, excused>>

(* EventBusLogDestination.write -> publish -> emit: every open connection  *)
(* gets the line at once.  The Prisma destination buffers it if it is      *)
(* durable.                                                                *)
Write(durable) ==
  /\ Len(log) < MaxLines
  /\ log' = Append(log, [ms |-> now, durable |-> durable])
  /\ wire' = IF link = "open" THEN Append(wire, [line |-> Len(log) + 1, live |-> TRUE])
                              ELSE wire
  /\ UNCHANGED <<now, flushed, stored, link, client, resume, query, rows, heard, excused>>

(* A batch leaves the buffer and is stored, or createMany failed and it is *)
(* lost.                                                                   *)
FlushBatch(n) ==
  /\ n \in (flushed + 1)..Len(log)
  /\ flushed' = n
  /\ \E kept \in BOOLEAN:
       stored' = IF kept THEN stored \cup {l \in (flushed + 1)..n: log[l].durable} ELSE stored
  /\ UNCHANGED <<now, log, link, client, stream, excused>>

(* The request reaches LogsSseController.stream: merge() subscribes the    *)
(* live feed at once; with a cursor the replay query is sent, without one  *)
(* or with the id of a keep-alive replaySince is EMPTY.                    *)
Connect ==
  /\ link = "connecting"
  /\ link' = "open"
  /\ IF lastId \in Cursors
       THEN query' = "asked" /\ resume' = lastId
       ELSE query' = "none" /\ resume' = NoCursor
  /\ heard' = Len(log)
  /\ excused' = excused \cup ExcuseAtConnect
  /\ UNCHANGED <<server, client, rows, wire>>

(* findMany answers.                                                       *)
QueryAnswers ==
  /\ query = "asked"
  /\ query' = "yielding"
  /\ rows' = RowsAfter(resume)
  /\ excused' = excused \cup ExcuseAtQuery
  /\ UNCHANGED <<server, link, client, resume, wire, heard>>

(* The oldest of the rows goes out.                                        *)
SendRow ==
  \E l \in rows:
    /\ \A m \in rows: l <= m
    /\ wire' = Append(wire, [line |-> l, live |-> FALSE])
    /\ rows' = rows \ {l}

(* The generator keeps polling after its last row.                         *)
BadYieldRow ==
  /\ query = "yielding" /\ SendRow
  /\ UNCHANGED <<server, link, client, resume, query, heard, excused>>

(* The generator yields its next row, or is through.                       *)
YieldRow ==
  /\ query = "yielding"
  /\ \/ SendRow /\ UNCHANGED query
     \/ rows = {} /\ query' = "none" /\ UNCHANGED <<rows, wire>>
  /\ UNCHANGED <<server, link, client, resume, heard, excused>>

(* source.onmessage: the browser takes the event's id as Last-Event-ID,    *)
(* the hook appends the row.                                               *)
Deliver ==
  /\ wire # <<>>
  /\ lastId' = Head(wire) /\ UNCHANGED until
  /\ shown' = Append(shown, Head(wire))
  /\ wire' = Tail(wire)
  /\ UNCHANGED <<server, link, resume, query, rows, heard, excused>>

(* A keep-alive arrives, every 15 seconds: it is an event of type "ping"    *)
(* and shows nothing, but its id becomes Last-Event-ID.  What the wire     *)
(* holds was sent after it.                                                *)
KeepAlive ==
  /\ link = "open"
  /\ lastId' = PingId
  /\ UNCHANGED <<server, link, until, shown, stream, excused>>

(* Whatever was in flight is gone.                                         *)
HangUp(state) ==
  /\ link' = state
  /\ query' = "none" /\ rows' = {} /\ wire' = <<>>
  /\ resume' = NoCursor /\ heard' = 0

(* The connection breaks, or the replay query fails and ends the stream:   *)
(* the browser retries by itself.                                          *)
Drop ==
  /\ link = "open"
  /\ HangUp("connecting")
  /\ excused' = excused \cup ExcuseAtDrop
  /\ UNCHANGED <<server, client>>

(* The proxy answers the (re)connection with an error status: readyState   *)
(* is CLOSED and the browser gives up.                                     *)
Refuse ==
  /\ link = "connecting"
  /\ HangUp("closed")
  /\ UNCHANGED <<server, client, excused>>

(* The idle guardrail: after a long time with no data the hook closes the  *)
(* source, and nothing opens it again.                                     *)
IdleStop ==
  /\ link = "connecting" \/ (link = "open" /\ wire = <<>> /\ query = "none")
  /\ HangUp("closed")
  /\ UNCHANGED <<server, client, excused>>

(* The URL changes (filter, role, or the range's 30-second quantum): the   *)
(* effect closes the source, empties the tail and opens a new EventSource, *)
(* which knows no Last-Event-ID.  A relative preset puts the quantized     *)
(* present into the URL as `to`; with no range the URL has none.           *)
Resubscribe ==
  /\ until' \in 0..now
  /\ HangUp("connecting")
  /\ lastId' = NoCursor /\ shown' = <<>>
  /\ excused' = Lines
  /\ UNCHANGED server

Next ==
  \/ ClockTick
  \/ \E durable \in BOOLEAN: Write(durable)
  \/ \E n \in 1..MaxLines: FlushBatch(n)
  \/ Connect \/ QueryAnswers \/ YieldRow \/ Deliver \/ KeepAlive
  \/ Drop \/ Refuse \/ IdleStop \/ Resubscribe

Spec == Init /\ [][Next]_vars

(* Postgres answers, the generator is pulled and the network delivers.     *)
(* Nothing obliges a connection to be made, to last or to break.           *)
FairSpec == Spec /\ WF_vars(QueryAnswers) /\ WF_vars(YieldRow) /\ WF_vars(Deliver)

-----------------------------------------------------------------------------
Event == [line: 1..MaxLines, live: BOOLEAN]

(* Type invariant: every variable ranges over its declared set.            *)
TypeOK ==
  /\ now \in 1..MaxMs
  /\ log \in Seq([ms: 1..MaxMs, durable: BOOLEAN]) /\ Len(log) <= MaxLines
  /\ flushed \in 0..Len(log) /\ stored \subseteq 1..flushed
  /\ link \in {"connecting", "open", "closed"} /\ until \in 0..now
  /\ lastId \in Cursors \cup {NoCursor, PingId} /\ resume \in Cursors \cup {NoCursor}
  /\ query \in {"none", "asked", "yielding"}
  /\ rows \subseteq stored /\ wire \in Seq(Event) /\ shown \in Seq(Event)
  /\ heard \in 0..Len(log) /\ excused \subseteq Lines

Shows(l) == \E i \in DOMAIN shown: shown[i].line = l

(* The open connection has nothing more to send.                           *)
Settled == link = "open" /\ query = "none" /\ wire = <<>>

(* Across any number of breaks and reconnects, a tail that has settled     *)
(* shows every line written since it was opened, but for those the replay  *)
(* could not know of or tell from its cursor, that lie past its window,    *)
(* that a live line had overtaken when the connection broke, or that came  *)
(* before a reconnection without replay because the last event before it   *)
(* was a keep-alive (replaySince and the merge in LogsSseController.stream).*)
MissesAreExplained == Settled => \A l \in Lines: Shows(l) \/ l \in excused

(* The rows that came by replay are in the order they were written, over   *)
(* all the tail's connections, and none came by replay twice; so are the   *)
(* rows that came live (fetchSince's keyset and orderBy).                  *)
OrderedPerSource ==
  \A i, j \in DOMAIN shown:
    i < j /\ shown[i].live = shown[j].live => shown[i].line < shown[j].line

(* An open connection that lasts gets all it is owed: the replay is asked, *)
(* answered and sent to its last row, and the wire drains (the merged      *)
(* observable of LogsSseController.stream).                                *)
CatchesUp == link = "open" ~> Settled \/ link # "open"

(* "The Last-Event-ID header drives cursor-based replay so no lines are    *)
(* missed on reconnect" (logs.sse.controller.ts), read in its weakest form:*)
(* of the lines that are rows of Postgres, none that follows the tail's    *)
(* first line is missing once the tail has settled.                        *)
NoLineMissed ==
  Settled /\ shown # <<>> => \A l \in stored: l > shown[1].line => Shows(l)

-----------------------------------------------------------------------------
(* The inductive invariant of the first two properties.                    *)

events == shown \o wire
Behind(c, l) == After(c, l) \/ Tied(c, l)

(* Lines are numbered in the order of the clock.                           *)
ClockOrder ==
  \A l \in Lines: log[l].ms <= now /\ \A m \in Lines: l <= m => log[l].ms <= log[m].ms

(* Cursors and events name written lines; Last-Event-ID is the last event, *)
(* but for a keep-alive.                                                   *)
CursorsNameLines ==
  /\ \A i \in DOMAIN events: events[i].line \in Lines
  /\ \A c \in {lastId, resume}: c \in Cursors => c.line \in Lines
  /\ lastId \in {PingId, IF shown = <<>> THEN NoCursor ELSE shown[Len(shown)]}

(* A live event is newer than all before it, a replayed one than all that  *)
(* were replayed before it.                                                *)
Ordered ==
  \A i, j \in DOMAIN events:
    i < j /\ (events[j].live \/ ~events[i].live) => events[i].line < events[j].line

(* The replay that is under way is ahead of all that has been replayed.    *)
ReplayIsAhead ==
  /\ query # "yielding" => rows = {}
  /\ link # "open" => wire = <<>> /\ query = "none"
  /\ \A l \in rows: After(resume, l)
  /\ \A i \in DOMAIN wire: ~wire[i].live => After(resume, wire[i].line)
  /\ \A l \in rows, i \in DOMAIN events: ~events[i].live => events[i].line < l
  /\ query = "asked" =>
       /\ \A i \in DOMAIN events: ~events[i].live => events[i].line <= resume.line
       /\ \A i \in DOMAIN wire: wire[i].live
       /\ lastId.live \/ lastId = resume

(* An open connection owes its live feed from the first line on, and of    *)
(* what came before it what the replay has still to send; one that is to   *)
(* be made owes what is behind the cursor.                                 *)
LiveFeed ==
  link = "open" =>
    \A l \in Lines: l > heard => \E i \in DOMAIN events: events[i] = [line |-> l, live |-> TRUE]
ReplayDue ==
  link = "open" =>
    \A l \in 1..heard: \/ Shows(l) \/ l \in excused \/ l \in rows
                       \/ \E i \in DOMAIN wire: ~wire[i].live /\ wire[i].line = l
                       \/ query = "asked" /\ Behind(resume, l)
ReconnectDue ==
  link = "connecting" /\ lastId # PingId =>
    \A l \in Lines: Shows(l) \/ l \in excused \/ Behind(lastId, l)

IInv ==
  /\ TypeOK /\ ClockOrder /\ CursorsNameLines /\ Ordered
  /\ ReplayIsAhead /\ LiveFeed /\ ReplayDue /\ ReconnectDue
=============================================================================
