------------------------------- MODULE TailView --------------------------------
(***************************************************************************)
(* The last stretch of the live tail, inside the browser tab: from a       *)
(* message event to the rows of the Explorer.  useLogStream batches the    *)
(* messages of one animation frame into a ring buffer and starts over when *)
(* its URL changes; useFollowMode scrolls, or counts what it did not       *)
(* scroll to.  (LiveTail.tla has everything before the message event.)     *)
(*                                                                         *)
(* The relative range puts a window end into the URL that moves every 30 s *)
(* (useLogQuery), so a changed URL is as common as a changed filter.  The  *)
(* effect of useFollowMode on the row count runs with the render that      *)
(* changed it: React flushes it before it handles the next update.         *)
(* Operators whose names begin with Bad are seeded faults.                 *)
(***************************************************************************)
EXTENDS TailBuffer

CONSTANTS
  Urls,             \* stream URLs: filters, each with the window of its moment
  MaxLines,         \* bound: messages received
  MaxRestarts       \* bound: subscriptions

VARIABLES
  url,           \* the URL of the present render
  enabled,       \* live && isRelative
  source,        \* the EventSource: "connecting", "open" or "closed"
  failed,        \* the terminal failure the control bar reports
  pending,       \* pendingRef: messages of this frame
  raf,           \* rafRef: whether a frame is requested
  buffer,        \* the ring buffer
  rows,          \* the rows that are rendered
  pinned,        \* follow mode: the container is at its bottom,
  explicitPause, \* the Pause button was pressed,
  newCount,      \* the badge,
  prevCount,     \* and the count its effect saw last
  received,      \* history: lines of this subscription since it was last cleared
  seenAt,        \* history: rows rendered when the badge was last reset
  disturbed,     \* history: rows went away since then
  lines, restarts \* bound counters

stream  == <<url, enabled, source, failed, pending, raf, buffer, rows>>
follow  == <<pinned, explicitPause, newCount, prevCount>>
history == <<received, seenAt, disturbed, lines, restarts>>
vars    == <<stream, follow, history>>

Line   == [n : 1 .. MaxLines, url : Urls]
paused == explicitPause \/ ~pinned

Init ==
  /\ url \in Urls /\ enabled = TRUE /\ source = "connecting" /\ failed = FALSE
  /\ pending = <<>> /\ raf = FALSE /\ buffer = <<>> /\ rows = <<>>
  /\ pinned = TRUE /\ explicitPause = FALSE /\ newCount = 0 /\ prevCount = 0
  /\ received = <<>> /\ seenAt = 0 /\ disturbed = FALSE
  /\ lines = 0 /\ restarts = 0

-----------------------------------------------------------------------------
(* Rendering, and the effect of useFollowMode on the number of rows. *)

Follow(n) ==
  LET delta == n - prevCount
  IN  /\ prevCount' = n
      /\ newCount' = IF delta > 0 /\ paused THEN newCount + delta ELSE newCount
      /\ seenAt' = IF paused THEN seenAt ELSE n

-----------------------------------------------------------------------------
(* useLogStream. *)

onopen ==
  /\ source = "connecting"
  /\ source' = "open" /\ failed' = FALSE
  /\ UNCHANGED <<url, enabled, pending, raf, buffer, rows, follow, history>>

\* A retry in the background, or the end of the source.
onerror ==
  /\ source # "closed"
  /\ \/ source' = "connecting" /\ UNCHANGED failed
     \/ source' = "closed" /\ failed' = TRUE
  /\ UNCHANGED <<url, enabled, pending, raf, buffer, rows, follow, history>>

onmessage ==
  /\ source = "open" /\ lines < MaxLines
  /\ LET line == [n |-> lines + 1, url |-> url]
     IN  /\ pending' = Append(pending, line)
         /\ received' = Append(received, line)
  /\ raf' = TRUE
  /\ lines' = lines + 1
  /\ UNCHANGED <<url, enabled, source, failed, buffer, rows, follow, seenAt,
                 disturbed, restarts>>

\* The animation frame: the batch goes into the buffer and the rows are rendered.
frame ==
  /\ raf
  /\ buffer' = pushMany(buffer, pending)
  /\ pending' = <<>> /\ raf' = FALSE
  /\ rows' = buffer'
  /\ Follow(Len(rows'))
  /\ disturbed' = (disturbed \/ Len(buffer) + Len(pending) > BUFFER_CAPACITY)
  /\ UNCHANGED <<url, enabled, source, failed, pinned, explicitPause, received,
                 lines, restarts>>

\* The guard of the interval: no message for five minutes.
idleStop ==
  /\ source \in {"open", "connecting"}
  /\ source' = "closed"
  /\ UNCHANGED <<url, enabled, failed, pending, raf, buffer, rows, follow, history>>

\* A seeded fault: the batch of the old subscription is left for the next frame.
BadSubscribe(to) ==
  /\ url' = to /\ enabled' = TRUE /\ source' = "connecting" /\ failed' = FALSE
  /\ raf' = FALSE
  /\ buffer' = <<>> /\ rows' = <<>> /\ UNCHANGED pending
  /\ Follow(0)
  /\ received' = <<>> /\ disturbed' = TRUE
  /\ UNCHANGED lines

\* The effect runs anew: its cleanup closes the source and cancels the frame,
\* then everything of the old subscription is dropped.
Subscribe(to) ==
  /\ url' = to /\ enabled' = TRUE /\ source' = "connecting" /\ failed' = FALSE
  /\ pending' = <<>> /\ raf' = FALSE
  /\ buffer' = <<>> /\ rows' = <<>>
  /\ Follow(0)
  /\ received' = <<>> /\ disturbed' = TRUE
  /\ UNCHANGED lines

\* Another filter, the next 30 s window, or Live switched on again.
resubscribe ==
  /\ restarts < MaxRestarts /\ restarts' = restarts + 1
  /\ \E to \in Urls : (to # url \/ ~enabled) /\ Subscribe(to)
  /\ UNCHANGED <<pinned, explicitPause>>

\* Live switched off or an absolute range: the source is closed and the frame is
\* cancelled; rows, buffer and batch stay as they are, whatever the filter is now.
disable ==
  /\ enabled
  /\ enabled' = FALSE /\ source' = "closed" /\ failed' = FALSE /\ raf' = FALSE
  /\ url' \in Urls
  /\ UNCHANGED <<pending, buffer, rows, follow, history>>

\* The Clear button cancels the frame and drops its batch too.
clear ==
  /\ enabled
  /\ pending' = <<>> /\ raf' = FALSE
  /\ buffer' = <<>> /\ rows' = <<>>
  /\ Follow(0)
  /\ received' = <<>> /\ disturbed' = TRUE
  /\ UNCHANGED <<url, enabled, source, failed, pinned, explicitPause, lines, restarts>>

-----------------------------------------------------------------------------
(* useFollowMode. *)

BadgeReset ==
  /\ newCount' = 0
  /\ seenAt' = Len(rows) /\ disturbed' = FALSE
  /\ UNCHANGED <<received, lines, restarts>>

\* The reader scrolls up, or to the bottom.
scrollUp ==
  /\ pinned
  /\ pinned' = FALSE
  /\ UNCHANGED <<stream, explicitPause, newCount, prevCount, history>>

scrollToBottom ==
  /\ pinned' = TRUE
  /\ BadgeReset
  /\ UNCHANGED <<stream, explicitPause, prevCount>>

pause ==
  /\ ~paused
  /\ explicitPause' = TRUE
  /\ UNCHANGED <<stream, pinned, newCount, prevCount, history>>

\* Resume, and Jump to latest: both scroll to the bottom; the scroll event that
\* follows is scrollToBottom.
resume ==
  /\ paused
  /\ explicitPause' = FALSE
  /\ BadgeReset
  /\ UNCHANGED <<stream, pinned, prevCount>>

Next ==
  \/ onopen \/ onerror \/ onmessage \/ frame \/ idleStop \/ resubscribe \/ disable \/ clear
  \/ scrollUp \/ scrollToBottom \/ pause \/ resume

Spec == Init /\ [][Next]_vars

-----------------------------------------------------------------------------
(* Properties. *)

TypeOK ==
  /\ url \in Urls /\ enabled \in BOOLEAN /\ failed \in BOOLEAN
  /\ source \in {"connecting", "open", "closed"}
  /\ pending \in Seq(Line) /\ buffer \in Seq(Line) /\ rows \in Seq(Line)
  /\ received \in Seq(Line)
  /\ raf \in BOOLEAN /\ pinned \in BOOLEAN /\ explicitPause \in BOOLEAN
  /\ disturbed \in BOOLEAN
  /\ newCount \in Nat /\ prevCount \in Nat /\ seenAt \in Nat
  /\ lines \in 0 .. MaxLines /\ restarts \in 0 .. MaxRestarts

\* While the tail is on, every row of it was sent for the URL of this render: no
\* message of an earlier subscription gets in by its frame.
NoForeignRows ==
  enabled => \A k \in DOMAIN rows : rows[k].url = url

\* The view is a window on what was received: rows and batch together are its
\* end since the subscription or the last clear, complete but for what the
\* capacity evicted, in the order of arrival.  The badge counts the rows below
\* the point where the reader stopped following, unless rows were cleared or
\* evicted since; a reader who follows has no badge.
ShowsTheNewest ==
  /\ enabled =>
       LET all == rows \o pending
       IN  /\ all = Lasts(received, Len(all))
           /\ Len(rows) <= BUFFER_CAPACITY
           /\ Len(rows) < BUFFER_CAPACITY => all = received
  /\ ~paused => newCount = 0
  /\ paused /\ ~disturbed => newCount = Len(rows) - seenAt
==============================================================================
