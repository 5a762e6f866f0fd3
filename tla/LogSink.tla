------------------------------- MODULE LogSink -------------------------------
(***************************************************************************)
(* What a buffering log destination promises to the logger, whatever its   *)
(* batching looks like.  A line handed to write() is accepted; it later    *)
(* settles, once: the remote store has it, or a failure notice covering it *)
(* went to stderr.  The promise returned by onShutdown() may only resolve  *)
(* once every line accepted before onShutdown() was called has settled.    *)
(*                                                                         *)
(* Lines are numbered in the order they are written.                       *)
(***************************************************************************)
EXTENDS Naturals

CONSTANT MaxLines   \* bound on the lines ever written

VARIABLES
  accepted,   \* number of lines accepted so far
  promised,   \* number of lines accepted before onShutdown() was called
  settled,    \* the lines that were stored or reported as lost
  mode        \* "open", "closing" (onShutdown pending) or "closed"

vars == <<accepted, promised, settled, mode>>

Unsettled == (1 .. accepted) \ settled

TypeOK ==
  /\ accepted \in 0 .. MaxLines
  /\ promised \in 0 .. accepted
  /\ settled \subseteq 1 .. accepted
  /\ mode \in {"open", "closing", "closed"}

Init ==
  /\ accepted = 0
  /\ promised = 0
  /\ settled = {}
  /\ mode = "open"

\* write() never refuses a line, not even after onShutdown().
Accept ==
  /\ accepted < MaxLines
  /\ accepted' = accepted + 1
  /\ promised' = IF mode = "open" THEN promised + 1 ELSE promised
  /\ UNCHANGED <<settled, mode>>

\* Some lines settle together: a batch was answered, or refused locally.
Settle ==
  /\ \E S \in SUBSET Unsettled : settled' = settled \cup S
  /\ UNCHANGED <<accepted, promised, mode>>

BeginClose ==
  /\ mode = "open"
  /\ mode' = "closing"
  /\ UNCHANGED <<accepted, promised, settled>>

\* The shutdown promise resolves; its last batch may settle in the same step.
Close ==
  /\ mode = "closing"
  /\ \E S \in SUBSET Unsettled :
        /\ 1 .. promised \subseteq settled \cup S
        /\ settled' = settled \cup S
  /\ mode' = "closed"
  /\ UNCHANGED <<accepted, promised>>

Next == Accept \/ Settle \/ BeginClose \/ Close

Spec == Init /\ [][Next]_vars

-----------------------------------------------------------------------------
\* Every line accepted before shutdown leaves the destination, whatever the
\* remote store answers.
PromisedLinesSettle ==
  \A l \in 1 .. MaxLines : (l <= promised) ~> (l \in settled)

\* A shutdown that was asked for completes.
ShutdownCompletes == (mode = "closing") ~> (mode = "closed")
==============================================================================
