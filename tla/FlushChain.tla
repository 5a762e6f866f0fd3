----------------------------- MODULE FlushChain ------------------------------
(***************************************************************************)
(* The batching machinery that PrismaLogDestination and LokiDestination    *)
(* share line for line: a buffer, an interval timer, and flushChain, a     *)
(* promise to which every scheduled flush is chained with .then().         *)
(*                                                                         *)
(* JavaScript runs a turn to completion, so each action is one turn: a     *)
(* call of write(), a timer callback, the synchronous part of flush() (up  *)
(* to its await), the turn in which the remote answer is handled, and the  *)
(* two turns of onShutdown().  Lines are numbered in the order of write(). *)
(*                                                                         *)
(* Reactions registered on one promise run in registration order: the      *)
(* "await this.flushChain" of onShutdown() therefore resumes before any    *)
(* flush chained after it starts.  `ahead` counts the flushes it waits for.*)
(***************************************************************************)
EXTENDS Naturals, Sequences, Functions

CONSTANTS
  BatchSize,   \* buffered lines that trigger an early flush
  MaxLines,    \* bound: lines ever written
  MaxLinks     \* bound: scheduled flushes the timer lets pile up

ASSUME FlushAssumption ==
  /\ BatchSize \in Nat \ {0}
  /\ MaxLines \in Nat
  /\ MaxLinks \in Nat \ {0}

VARIABLES
  accepted,   \* lines passed to write()
  buffer,     \* this.buffer
  timer,      \* this.flushTimer is armed
  links,      \* flushes chained on flushChain that have not started
  inflight,   \* flushes awaiting the remote store: who started it, its lines
  phase,      \* onShutdown(): "up", "awaiting", "draining", "closed"
  ahead,      \* unfinished flushes that the shutdown awaits
  upto,       \* history: lines accepted when onShutdown() was called
  stored,     \* history: lines the remote store has
  reported    \* history: lines covered by a notice on stderr

shutdownVars == <<phase, ahead, upto>>
outcomeVars  == <<stored, reported>>
vars == <<accepted, buffer, timer, links, inflight, phase, ahead, upto,
          stored, reported>>

Line    == 1 .. MaxLines
Settled == stored \cup reported
Chained == {f \in inflight : f.by = "chain"}

TypeOK ==
  /\ accepted \in 0 .. MaxLines
  /\ buffer \in Seq(Line)
  /\ timer \in BOOLEAN
  /\ links \in Nat
  /\ inflight \subseteq [by : {"chain", "shutdown"}, lines : SUBSET Line]
  /\ phase \in {"up", "awaiting", "draining", "closed"}
  /\ ahead \in Nat
  /\ upto \in 0 .. accepted
  /\ stored \subseteq Line
  /\ reported \subseteq Line

Init ==
  /\ accepted = 0
  /\ buffer = <<>>
  /\ timer = FALSE
  /\ links = 0
  /\ inflight = {}
  /\ phase = "up"
  /\ ahead = 0
  /\ upto = 0
  /\ stored = {}
  /\ reported = {}

-----------------------------------------------------------------------------
(* Operators whose names begin with Bad are seeded faults: each run is      *)
(* repeated with one in place of the operator that follows, and must fail.  *)

OnInit ==
  /\ phase = "up"
  /\ ~timer
  /\ timer' = TRUE
  /\ UNCHANGED <<accepted, buffer, links, inflight, shutdownVars, outcomeVars>>

\* Nothing in write() looks at the shutdown: it accepts lines at any time.
Write ==
  /\ accepted < MaxLines
  /\ accepted' = accepted + 1
  /\ buffer' = Append(buffer, accepted + 1)
  /\ links' = IF Len(buffer') >= BatchSize THEN links + 1 ELSE links
  /\ UNCHANGED <<timer, inflight, shutdownVars, outcomeVars>>

TimerTick ==
  /\ timer
  /\ links < MaxLinks
  /\ links' = links + 1
  /\ UNCHANGED <<accepted, buffer, timer, inflight, shutdownVars, outcomeVars>>

BadBeginShutdown ==
  /\ phase = "up"
  /\ phase' = "awaiting"
  /\ timer' = FALSE
  /\ ahead' = links + 1
  /\ upto' = accepted
  /\ UNCHANGED <<accepted, buffer, links, inflight, outcomeVars>>

\* The first turn of onShutdown(): stop the timer, await the chain as it is.
BeginShutdown ==
  /\ phase = "up"
  /\ phase' = "awaiting"
  /\ timer' = FALSE
  /\ ahead' = IF Chained = {} THEN links ELSE links + 1
  /\ upto' = accepted
  /\ UNCHANGED <<accepted, buffer, links, inflight, outcomeVars>>

-----------------------------------------------------------------------------
BadFlush(who, refused) ==
  LET sent == Range(buffer) \ refused IN
  /\ buffer' = IF sent = {} THEN <<>> ELSE buffer
  /\ reported' = reported \cup refused
  /\ inflight' = IF sent = {} THEN inflight
                 ELSE inflight \cup {[by |-> who, lines |-> sent]}

\* flush() up to its await, run for `who`: it takes the whole buffer, reports
\* the `refused` lines and sends the rest; with nothing to send it is over.
Flush(who, refused) ==
  LET sent == Range(buffer) \ refused IN
  /\ buffer' = <<>>
  /\ reported' = reported \cup refused
  /\ inflight' = IF sent = {} THEN inflight
                 ELSE inflight \cup {[by |-> who, lines |-> sent]}

NothingToSend(refused) == Range(buffer) \subseteq refused

\* One awaited flush fewer, when the shutdown is waiting for the chain.
LinkDone == ahead' = IF phase = "awaiting" THEN ahead - 1 ELSE ahead

BadStartUnchained(refused) ==
  /\ links > 0
  /\ phase = "awaiting" => ahead > 0
  /\ links' = links - 1
  /\ Flush("chain", refused)
  /\ IF NothingToSend(refused) THEN LinkDone ELSE ahead' = ahead
  /\ UNCHANGED <<accepted, timer, phase, upto, stored>>

BadStartOnlyFull(refused) ==
  /\ links > 0
  /\ Chained = {}
  /\ phase = "awaiting" => ahead > 0
  /\ links' = links - 1
  /\ IF Len(buffer) < BatchSize
       THEN LinkDone /\ UNCHANGED <<buffer, reported, inflight>>
       ELSE /\ Flush("chain", refused)
            /\ IF NothingToSend(refused) THEN LinkDone ELSE ahead' = ahead
  /\ UNCHANGED <<accepted, timer, phase, upto, stored>>

\* The next chained flush starts: the one before it is over, and a shutdown
\* whose awaited flushes are all over resumes first.
StartChained(refused) ==
  /\ links > 0
  /\ Chained = {}
  /\ phase = "awaiting" => ahead > 0
  /\ links' = links - 1
  /\ Flush("chain", refused)
  /\ IF NothingToSend(refused) THEN LinkDone ELSE ahead' = ahead
  /\ UNCHANGED <<accepted, timer, phase, upto, stored>>

BadStartDrainAtOnce(refused) ==
  /\ phase = "awaiting"
  /\ Flush("shutdown", refused)
  /\ phase' = IF NothingToSend(refused) THEN "closed" ELSE "draining"
  /\ UNCHANGED <<accepted, timer, links, ahead, upto, stored>>

\* The second turn of onShutdown(): its own flush, outside the chain.
StartDrain(refused) ==
  /\ phase = "awaiting"
  /\ ahead = 0
  /\ Flush("shutdown", refused)
  /\ phase' = IF NothingToSend(refused) THEN "closed" ELSE "draining"
  /\ UNCHANGED <<accepted, timer, links, ahead, upto, stored>>

\* The turn after the await in flush(): f is over, `kept` of its lines are in
\* the store, and `failed` says that the catch branch wrote its notice.
Finish(f, kept, failed) ==
  /\ inflight' = inflight \ {f}
  /\ stored' = stored \cup kept
  /\ reported' = IF failed THEN reported \cup f.lines ELSE reported
  /\ IF f.by = "chain"
       THEN LinkDone /\ phase' = phase
       ELSE phase' = "closed" /\ ahead' = ahead
  /\ UNCHANGED <<accepted, buffer, timer, links, upto>>
-----------------------------------------------------------------------------
\* Each line given to write() is in exactly one place: the buffer, one flush in
\* flight, or settled.  No path through flush() or onShutdown() loses a line
\* without a notice or sends it twice.
EveryLineAccountedFor ==
  /\ 1 .. accepted =
       Range(buffer) \cup Settled \cup UNION {f.lines : f \in inflight}
  /\ Range(buffer) \cap Settled = {}
  /\ \A f \in inflight : f.lines \cap (Range(buffer) \cup Settled) = {}
  /\ \A f, g \in inflight : f # g => f.lines \cap g.lines = {}

\* "Flushes are serialized via a promise chain": until the shutdown's own flush
\* starts, at most one request to the remote store is outstanding, whatever mix
\* of timer ticks and full batches scheduled the flushes.
OneFlushWhileServing ==
  phase \in {"up", "awaiting"} => \A f, g \in inflight : f = g

\* Until the shutdown's own flush starts, the store never receives a line while
\* an earlier one is still pending: batches arrive in the order written.
StoredInOrder ==
  phase \in {"up", "awaiting"} =>
    \A m \in stored : \A l \in 1 .. m : l \in Settled

\* A full batch never waits for the timer: a flush that will take it is chained.
FullBatchIsScheduled == Len(buffer) >= BatchSize => links > 0

\* When onShutdown() resolves, every line accepted before it was called is in
\* the store or has been reported.
ShutdownDrains == phase = "closed" => 1 .. upto \subseteq Settled

-----------------------------------------------------------------------------
(* The abstract sink: a shutdown closes it, and what has been stored or     *)
(* reported has settled.                                                    *)

SinkPromised == IF phase = "up" THEN accepted ELSE upto

SinkMode == IF phase = "up" THEN "open"
            ELSE IF phase = "closed" THEN "closed" ELSE "closing"

Sink == INSTANCE LogSink
  WITH promised <- SinkPromised, settled <- Settled, mode <- SinkMode

\* Batching, the timer and the chain implement the abstract sink step by step.
ImplementsLogSink == Sink!Spec

\* Every line accepted before shutdown is eventually stored or reported: no
\* line waits for ever in a batch that never fills.
PromisedLinesSettle == Sink!PromisedLinesSettle

\* onShutdown() resolves, however many flushes are queued in front of it.
ShutdownCompletes == Sink!ShutdownCompletes

-----------------------------------------------------------------------------
(* The inductive invariant: what makes the properties above survive a step. *)

\* At most one chained flush runs, and at most one shutdown flush.
OnePerStarter == \A f, g \in inflight : f.by = g.by => f = g

ShutdownFlushWhileDraining ==
  \A f \in inflight : f.by = "shutdown" => phase = "draining"

\* A chained flush that runs during the await is one the shutdown awaits.
RunningIsAwaited == phase = "awaiting" /\ Chained # {} => ahead > 0

\* What is in the buffer was written after everything that left it.
BufferIsNewest ==
  \A l \in Range(buffer) : \A m \in (1 .. accepted) \ Range(buffer) : m < l

InFlightAfterStored ==
  phase \in {"up", "awaiting"} =>
    \A f \in inflight : \A l \in f.lines : \A m \in stored : m < l

\* The shutdown's flush holds all that was promised and has not settled.
DrainCovers ==
  phase = "draining" =>
    \A l \in 1 .. upto :
      l \in Settled \/ \E f \in inflight : f.by = "shutdown" /\ l \in f.lines

\* Strong enough to be preserved by every action, and to imply all the above.
IInv ==
  /\ TypeOK
  /\ EveryLineAccountedFor
  /\ OnePerStarter
  /\ ShutdownFlushWhileDraining
  /\ RunningIsAwaited
  /\ BufferIsNewest
  /\ InFlightAfterStored
  /\ DrainCovers
  /\ ShutdownDrains
  /\ FullBatchIsScheduled
==============================================================================
