--------------------------- MODULE LokiDestination ----------------------------
(***************************************************************************)
(* The Loki tier: batched HTTP push, behind the flush chain.               *)
(*                                                                         *)
(* A batch whose body is over maxBodyBytes is reported and dropped whole;  *)
(* here every line has one unit of size.  The k-th line of a batch pushed  *)
(* at millisecond t gets the timestamp t * NsPerMs + (k - 1).  A push that *)
(* is refused, or aborted after 10 seconds, may have stored any part of    *)
(* the batch; it is reported and never repeated.                           *)
(***************************************************************************)
EXTENDS FlushChain

CONSTANTS
  MaxBody,    \* lines that fit into maxBodyBytes
  NsPerMs,    \* timestamps per millisecond (1_000_000)
  MaxMs       \* bound: milliseconds the clock advances

\* A body of 1.5 MB holds far fewer than a million timestamped lines.
ASSUME LokiAssumption ==
  /\ MaxBody \in Nat \ {0}
  /\ NsPerMs \in Nat \ {0}
  /\ MaxBody <= NsPerMs
  /\ MaxMs \in Nat

VARIABLES
  now,      \* Date.now(), assumed not to step back
  sentAt,   \* history: the millisecond at which each sent line was stamped
  stamp     \* history: the Loki timestamp of each sent line

clockVars == <<now, sentAt, stamp>>
lokiVars  == <<vars, clockVars>>

Sent == DOMAIN stamp

LokiTypeOK ==
  /\ TypeOK
  /\ now \in 0 .. MaxMs
  /\ Sent \subseteq Line
  /\ stamp \in [Sent -> Nat]
  /\ sentAt \in [Sent -> 0 .. MaxMs]

LokiInit ==
  /\ Init
  /\ now = 0
  /\ sentAt = <<>>
  /\ stamp = <<>>

BadLokiRefused == {}

\* The size guard of flush(): all of the batch or nothing.
LokiRefused == IF Len(buffer) > MaxBody THEN Range(buffer) ELSE {}

\* The `values` array of the request body.
StampBatch ==
  LET sent == Range(buffer) \ LokiRefused IN
  /\ sentAt' = [l \in Sent \cup sent |-> IF l \in sent THEN now ELSE sentAt[l]]
  /\ stamp' = [l \in Sent \cup sent |->
       IF l \in sent
       THEN now * NsPerMs + (CHOOSE i \in DOMAIN buffer : buffer[i] = l) - 1
       ELSE stamp[l]]
  /\ UNCHANGED now

LokiWrite         == Write /\ UNCHANGED clockVars
LokiOnInit        == OnInit /\ UNCHANGED clockVars
LokiTimerTick     == TimerTick /\ UNCHANGED clockVars
LokiBeginShutdown == BeginShutdown /\ UNCHANGED clockVars
LokiChainedFlush      == StartChained(LokiRefused) /\ StampBatch
LokiShutdownFlush     == StartDrain(LokiRefused) /\ StampBatch

\* A 2xx answer within the deadline.
Pushed(f) == Finish(f, f.lines, FALSE) /\ UNCHANGED clockVars

\* A non-2xx answer, a network error, or the 10-second abort.
PushFailed(f) ==
  /\ \E kept \in SUBSET f.lines : Finish(f, kept, TRUE)
  /\ UNCHANGED clockVars

ClockTick ==
  /\ now < MaxMs
  /\ now' = now + 1
  /\ UNCHANGED <<vars, sentAt, stamp>>

LokiNext ==
  \/ LokiOnInit
  \/ LokiWrite
  \/ LokiTimerTick
  \/ LokiBeginShutdown
  \/ LokiChainedFlush
  \/ LokiShutdownFlush
  \/ ClockTick
  \/ \E f \in inflight : Pushed(f) \/ PushFailed(f)

\* The abort timer ends every push; the event loop runs the rest.
LokiFairness ==
  /\ WF_lokiVars(LokiOnInit)
  /\ WF_lokiVars(LokiTimerTick)
  /\ WF_lokiVars(LokiChainedFlush)
  /\ WF_lokiVars(LokiShutdownFlush)
  /\ WF_lokiVars(\E f \in inflight : f.by = "chain" /\ PushFailed(f))
  /\ WF_lokiVars(\E f \in inflight : f.by = "shutdown" /\ PushFailed(f))

LokiSpec == LokiInit /\ [][LokiNext]_lokiVars
LokiFairSpec == LokiSpec /\ LokiFairness

-----------------------------------------------------------------------------
\* Loki sorts by timestamp: lines flushed in different milliseconds sort in the
\* order written, because a batch small enough to be sent cannot run its index
\* into the next millisecond.
StampsFollowTheClock ==
  \A l, m \in Sent : sentAt[l] < sentAt[m] => stamp[l] < stamp[m]

\* A push ends at the latest by its 10-second abort, so no line that was promised
\* waits for ever behind a push, and onShutdown() resolves.
PushesSettle == PromisedLinesSettle /\ ShutdownCompletes

\* The inductive form: the stamps of a millisecond stay inside it.
InsideItsMillisecond(l) ==
  /\ sentAt[l] * NsPerMs <= stamp[l]
  /\ stamp[l] < sentAt[l] * NsPerMs + NsPerMs

StampInv == LokiTypeOK /\ \A l \in Sent : InsideItsMillisecond(l)

\* The comment on the batch index: it "ensures unique timestamps within the
\* same millisecond".
UniqueStamps == \A l, m \in Sent : l # m => stamp[l] # stamp[m]
==============================================================================
