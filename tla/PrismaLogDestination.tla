------------------------- MODULE PrismaLogDestination -------------------------
(***************************************************************************)
(* The Postgres tier: batched createMany, behind the flush chain.          *)
(*                                                                         *)
(* toRow() refuses an oversized or unparsable line with a notice of its    *)
(* own.  createMany is one statement: it stores the whole batch or none of *)
(* it, but a call that fails may have committed (the connection was lost   *)
(* before the answer), so the notice may cover lines that are stored.      *)
(***************************************************************************)
EXTENDS FlushChain

CONSTANT Unparsable   \* the lines toRow() maps to null

ASSUME UnparsableAssumption == Unparsable \subseteq Nat

\* The rows filtered out of the buffered lines.
Refused == Range(buffer) \cap Unparsable

ChainedFlush  == StartChained(Refused)
ShutdownFlush == StartDrain(Refused)

Created(f) == Finish(f, f.lines, FALSE)

CreateFailed(f) == \E kept \in {{}, f.lines} : Finish(f, kept, TRUE)

Next ==
  \/ OnInit
  \/ Write
  \/ TimerTick
  \/ BeginShutdown
  \/ ChainedFlush
  \/ ShutdownFlush
  \/ \E f \in inflight : Created(f) \/ CreateFailed(f)

\* The event loop runs timers and promise reactions; Postgres answers every
\* createMany, with a result or an error.  Nothing forces a line to be written
\* or the application to shut down.
Fairness ==
  /\ WF_vars(OnInit)
  /\ WF_vars(TimerTick)
  /\ WF_vars(ChainedFlush)
  /\ WF_vars(ShutdownFlush)
  /\ WF_vars(\E f \in inflight : f.by = "chain" /\ (Created(f) \/ CreateFailed(f)))
  /\ WF_vars(\E f \in inflight : f.by = "shutdown" /\ (Created(f) \/ CreateFailed(f)))

Spec == Init /\ [][Next]_vars
FairSpec == Spec /\ Fairness

-----------------------------------------------------------------------------
\* The header comment: chained, batch-size and timer flushes "never race each
\* other on the database connection".
FlushesNeverRace == \A f, g \in inflight : f = g

\* The doc of onShutdown(): its promise "resolves once all batches have been
\* persisted (or failed softly)".
ClosedIsQuiet == phase = "closed" => inflight = {} /\ buffer = <<>>
==============================================================================
