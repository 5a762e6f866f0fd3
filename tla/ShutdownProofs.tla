---------------------------- MODULE ShutdownProofs ----------------------------
(***************************************************************************)
(* Proofs about Shutdown, for any number of destinations, lines and        *)
(* connections.                                                            *)
(***************************************************************************)
EXTENDS Shutdown, TLAPS

\* No destination is asked to close while the server may still serve.
OpenUntilHooks == stage \in {"serving", "closing"} => \A s \in Sinks : mode[s] = "open"

\* Once the hooks run, no request is open.
HooksAfterRequests == stage \in {"hooks", "spans"} => requests = 0

\* A destination that has not been asked to close promises all it accepted.
OpenPromisesAll == \A s \in Sinks : mode[s] = "open" => promised[s] = accepted[s]

PromisedWereAccepted == \A s \in Sinks : promised[s] <= accepted[s]

SettledWereAccepted == \A s \in Sinks : settled[s] \subseteq 1 .. accepted[s]

ClosedHasSettled ==
  \A s \in Sinks : mode[s] = "closed" => 1 .. promised[s] \subseteq settled[s]

SpansAfterSinks == stage = "spans" => AllClosed

DoneMeansExited == cause = "done" => stage = "exited"

IInv ==
  /\ TypeOK
  /\ OpenUntilHooks
  /\ HooksAfterRequests
  /\ OpenPromisesAll
  /\ PromisedWereAccepted
  /\ SettledWereAccepted
  /\ ClosedHasSettled
  /\ SpansAfterSinks
  /\ DoneMeansExited
  /\ ServedLinesArePromised
  /\ ExitComesLast

LEMMA InitIInv == Init => IInv
<1> SUFFICES ASSUME Init PROVE IInv
  OBVIOUS
<1>1. TypeOK
  <2>1. 0 \in 0 .. MaxLines /\ 0 \in 0 .. MaxConns
    BY ShutdownAssumption
  <2>2. /\ accepted \in [Sinks -> 0 .. MaxLines]
        /\ promised \in [Sinks -> 0 .. MaxLines]
    BY <2>1 DEF Init
  <2>3. /\ settled \in [Sinks -> SUBSET (1 .. MaxLines)]
        /\ served \in [Sinks -> SUBSET (1 .. MaxLines)]
        /\ mode \in [Sinks -> {"open", "closing", "closed"}]
    BY DEF Init
  <2>. QED BY <2>1, <2>2, <2>3 DEF Init, TypeOK
<1>2. /\ OpenUntilHooks /\ HooksAfterRequests /\ OpenPromisesAll
      /\ PromisedWereAccepted /\ SettledWereAccepted /\ ClosedHasSettled
  BY DEF Init, OpenUntilHooks, HooksAfterRequests, OpenPromisesAll,
         PromisedWereAccepted, SettledWereAccepted, ClosedHasSettled
<1>3. SpansAfterSinks /\ DoneMeansExited /\ ServedLinesArePromised /\ ExitComesLast
  BY DEF Init, SpansAfterSinks, DoneMeansExited, ServedLinesArePromised, ExitComesLast
<1>. QED BY <1>1, <1>2, <1>3 DEF IInv

-----------------------------------------------------------------------------
(* One lemma per group of actions that touch the same variables.            *)

LEMMA ConnectionsKeepIInv ==
  ASSUME IInv, Connect \/ RequestEnds \/ TailEnds
  PROVE  IInv'
<1> USE DEF process, sinks, Running
<1>1. UNCHANGED <<process, connected, sinks>>
  BY DEF Connect, RequestEnds, TailEnds
<1>2. TypeOK'
  BY <1>1, ShutdownAssumption DEF IInv, TypeOK, Connect, RequestEnds, TailEnds
<1>3. HooksAfterRequests'
  BY <1>1, ShutdownAssumption
     DEF IInv, TypeOK, HooksAfterRequests, Connect, RequestEnds, TailEnds
<1>4. /\ OpenUntilHooks' /\ OpenPromisesAll' /\ PromisedWereAccepted'
      /\ SettledWereAccepted' /\ ClosedHasSettled'
  BY <1>1 DEF IInv, OpenUntilHooks, OpenPromisesAll, PromisedWereAccepted,
              SettledWereAccepted, ClosedHasSettled
<1>5. /\ SpansAfterSinks' /\ DoneMeansExited' /\ ServedLinesArePromised'
      /\ ExitComesLast'
  BY <1>1 DEF IInv, SpansAfterSinks, AllClosed, DoneMeansExited,
              ServedLinesArePromised, ExitComesLast
<1>. QED BY <1>2, <1>3, <1>4, <1>5 DEF IInv

\* A line a request logs is promised: its destination is open, because the
\* request is.
LEMMA LogKeepsIInv ==
  ASSUME IInv, NEW to \in SUBSET Sinks, NEW byRequest \in BOOLEAN, Log(to, byRequest)
  PROVE  IInv'
<1> USE DEF process, connections
<1>1. /\ UNCHANGED <<process, connections, connected, settled, mode>>
      /\ Running
  BY DEF Log
<1>2. \A s \in Sinks :
        /\ accepted[s] \in 0 .. MaxLines /\ promised[s] \in 0 .. MaxLines
        /\ promised[s] <= accepted[s]
        /\ s \in to => accepted[s] < MaxLines /\ accepted'[s] = accepted[s] + 1
        /\ s \notin to => accepted'[s] = accepted[s] /\ promised'[s] = promised[s]
        /\ s \in to /\ mode[s] = "open" => promised'[s] = promised[s] + 1
        /\ mode[s] # "open" => promised'[s] = promised[s]
  BY DEF Log, IInv, TypeOK, PromisedWereAccepted
<1>3. \A s \in Sinks :
        \/ served'[s] = served[s]
        \/ s \in to /\ requests > 0 /\ served'[s] = served[s] \cup {accepted[s] + 1}
  BY DEF Log, IInv, TypeOK
<1>4. \A s \in Sinks :
        /\ accepted'[s] \in 0 .. MaxLines
        /\ promised'[s] \in 0 .. MaxLines
        /\ promised'[s] <= accepted'[s]
  <2> SUFFICES ASSUME NEW s \in Sinks
               PROVE  /\ accepted'[s] \in 0 .. MaxLines
                      /\ promised'[s] \in 0 .. MaxLines
                      /\ promised'[s] <= accepted'[s]
    OBVIOUS
  <2>1. CASE s \in to /\ mode[s] = "open"
    BY <1>2, <2>1, ShutdownAssumption
  <2>2. CASE s \in to /\ mode[s] # "open"
    BY <1>2, <2>2, ShutdownAssumption
  <2>3. CASE s \notin to
    BY <1>2, <2>3
  <2>. QED BY <2>1, <2>2, <2>3
<1>5. TypeOK'
  <2>1. accepted' \in [Sinks -> 0 .. MaxLines] /\ promised' \in [Sinks -> 0 .. MaxLines]
    BY <1>4 DEF Log
  <2>2. \A s \in Sinks : served'[s] \in SUBSET (1 .. MaxLines)
    <3> SUFFICES ASSUME NEW s \in Sinks PROVE served'[s] \in SUBSET (1 .. MaxLines)
      OBVIOUS
    <3>1. served[s] \in SUBSET (1 .. MaxLines)
      BY DEF IInv, TypeOK
    <3>2. s \in to => accepted[s] + 1 \in 1 .. MaxLines
      BY <1>2, ShutdownAssumption
    <3>. QED BY <1>3, <3>1, <3>2
  <2>3. served' \in [Sinks -> SUBSET (1 .. MaxLines)]
    BY <2>2 DEF Log
  <2>. QED BY <1>1, <2>1, <2>3 DEF IInv, TypeOK
<1>6. OpenUntilHooks' /\ HooksAfterRequests' /\ SpansAfterSinks' /\ DoneMeansExited'
  BY <1>1 DEF IInv, OpenUntilHooks, HooksAfterRequests, SpansAfterSinks, AllClosed,
              DoneMeansExited
<1>7. OpenPromisesAll' /\ PromisedWereAccepted'
  BY <1>1, <1>2, <1>4 DEF IInv, OpenPromisesAll, PromisedWereAccepted
<1>8. SettledWereAccepted' /\ ClosedHasSettled'
  <2>1. \A s \in Sinks : settled'[s] \subseteq 1 .. accepted'[s]
    <3> SUFFICES ASSUME NEW s \in Sinks PROVE settled[s] \subseteq 1 .. accepted'[s]
      BY <1>1
    <3>1. settled[s] \subseteq 1 .. accepted[s]
      BY DEF IInv, SettledWereAccepted
    <3>2. accepted'[s] \in Nat /\ accepted[s] \in Nat /\ accepted[s] <= accepted'[s]
      BY <1>2, <1>4, ShutdownAssumption
    <3>. QED BY <3>1, <3>2
  <2>2. \A s \in Sinks : mode'[s] = "closed" => 1 .. promised'[s] \subseteq settled'[s]
    BY <1>1, <1>2 DEF IInv, ClosedHasSettled
  <2>. QED BY <2>1, <2>2 DEF SettledWereAccepted, ClosedHasSettled
<1>9. ServedLinesArePromised'
  <2> SUFFICES ASSUME NEW s \in Sinks, NEW l \in served'[s]
               PROVE  l \in 1 .. promised'[s]
    BY DEF ServedLinesArePromised
  <2>1. /\ promised[s] \in Nat /\ promised'[s] \in Nat /\ accepted[s] \in Nat
        /\ promised[s] <= promised'[s]
    BY <1>2, <1>4, ShutdownAssumption
  <2>2. CASE l \in served[s]
    BY <2>1, <2>2 DEF IInv, ServedLinesArePromised
  <2>3. CASE l \notin served[s]
    <3>1. s \in to /\ requests > 0 /\ l = accepted[s] + 1
      BY <1>3, <2>3
    <3>2. stage \notin {"hooks", "spans"}
      BY <3>1 DEF IInv, HooksAfterRequests
    <3>3. mode[s] = "open"
      BY <1>1, <3>2 DEF IInv, TypeOK, OpenUntilHooks, Running
    <3>4. promised'[s] = accepted[s] + 1
      BY <1>2, <3>1, <3>3 DEF IInv, OpenPromisesAll
    <3>. QED BY <2>1, <3>1, <3>4
  <2>. QED BY <2>2, <2>3
<1>10. ExitComesLast'
  BY <1>1 DEF IInv, DoneMeansExited, ExitComesLast, Running
<1>. QED BY <1>5, <1>6, <1>7, <1>8, <1>9, <1>10 DEF IInv

LEMMA SinkKeepsIInv ==
  ASSUME IInv, NEW s \in Sinks, Settle(s) \/ BeginClose(s) \/ Close(s)
  PROVE  IInv'
<1> USE DEF process, connections
<1>1. /\ UNCHANGED <<process, connections, connected, accepted, promised, served>>
      /\ Running
  BY DEF Settle, BeginClose, Close, Running
<1>2. /\ settled' \in [Sinks -> SUBSET (1 .. MaxLines)]
      /\ \A u \in Sinks : settled[u] \subseteq settled'[u]
      /\ \A u \in Sinks : settled'[u] \subseteq settled[u] \cup Unsettled(u)
  <2>1. \E S \in SUBSET Unsettled(s) : settled' = [settled EXCEPT ![s] = @ \cup S]
    <3>1. CASE Settle(s)
      BY <3>1 DEF Settle
    <3>2. CASE BeginClose(s)
      <4>1. settled' = [settled EXCEPT ![s] = @ \cup {}]
        BY <3>2 DEF BeginClose, IInv, TypeOK
      <4>. QED BY <4>1
    <3>3. CASE Close(s)
      BY <3>3 DEF Close
    <3>. QED BY <3>1, <3>2, <3>3
  <2>2. PICK S \in SUBSET Unsettled(s) : settled' = [settled EXCEPT ![s] = @ \cup S]
    BY <2>1
  <2>3. S \subseteq 1 .. MaxLines
    BY ShutdownAssumption DEF IInv, TypeOK, Unsettled
  <2>. QED BY <2>2, <2>3 DEF IInv, TypeOK
<1>3. /\ mode' \in [Sinks -> {"open", "closing", "closed"}]
      /\ \A u \in Sinks : mode'[u] = "open" => mode[u] = "open"
      /\ \A u \in Sinks : mode[u] = "closed" => mode'[u] = "closed"
  BY DEF Settle, BeginClose, Close, IInv, TypeOK
<1>4. TypeOK'
  BY <1>1, <1>2, <1>3 DEF IInv, TypeOK
<1>5. OpenUntilHooks'
  BY <1>1 DEF IInv, OpenUntilHooks, Settle, BeginClose, Close
<1>6. HooksAfterRequests' /\ OpenPromisesAll' /\ PromisedWereAccepted'
  BY <1>1, <1>3 DEF IInv, HooksAfterRequests, OpenPromisesAll, PromisedWereAccepted
<1>7. SettledWereAccepted'
  BY <1>1, <1>2 DEF IInv, SettledWereAccepted, Unsettled
<1>8. ClosedHasSettled'
  <2> SUFFICES ASSUME NEW u \in Sinks, mode'[u] = "closed"
               PROVE  1 .. promised[u] \subseteq settled'[u]
    BY <1>1 DEF ClosedHasSettled
  <2>1. CASE mode[u] = "closed"
    BY <1>2, <2>1 DEF IInv, ClosedHasSettled
  <2>2. CASE mode[u] # "closed"
    <3>1. u = s /\ Close(s)
      BY <2>2 DEF Settle, BeginClose, Close, IInv, TypeOK
    <3>. QED BY <3>1 DEF Close, IInv, TypeOK
  <2>. QED BY <2>1, <2>2
<1>9. SpansAfterSinks' /\ DoneMeansExited' /\ ServedLinesArePromised' /\ ExitComesLast'
  BY <1>1, <1>3 DEF IInv, SpansAfterSinks, AllClosed, DoneMeansExited,
                    ServedLinesArePromised, ExitComesLast, Running
<1>. QED BY <1>4, <1>5, <1>6, <1>7, <1>8, <1>9 DEF IInv

\* The steps of main.ts and of app.close() leave the destinations alone.
LEMMA SequenceKeepsIInv ==
  ASSUME IInv,
         \/ \E sig \in Signals : Signal(sig)
         \/ HttpClosed \/ Disconnect \/ DisconnectFails \/ HooksDone \/ SpansDone
  PROVE  IInv'
<1> USE DEF process, connections, sinks, Running, Exit
<1>1. UNCHANGED <<connections, sinks>> /\ Running
  BY DEF Signal, HttpClosed, Disconnect, DisconnectFails, HooksDone, SpansDone
<1>2. TypeOK'
  BY <1>1 DEF IInv, TypeOK, Signal, Signals, HttpClosed, Disconnect, DisconnectFails,
              HooksDone, SpansDone
<1>3. OpenUntilHooks'
  BY <1>1 DEF IInv, OpenUntilHooks, Signal, HttpClosed, Disconnect, DisconnectFails,
              HooksDone, SpansDone
<1>4. HooksAfterRequests'
  BY <1>1 DEF IInv, HooksAfterRequests, Signal, HttpClosed, Disconnect,
              DisconnectFails, HooksDone, SpansDone
<1>5. /\ OpenPromisesAll' /\ PromisedWereAccepted' /\ SettledWereAccepted'
      /\ ClosedHasSettled' /\ ServedLinesArePromised'
  BY <1>1 DEF IInv, OpenPromisesAll, PromisedWereAccepted, SettledWereAccepted,
              ClosedHasSettled, ServedLinesArePromised
<1>6. SpansAfterSinks'
  BY <1>1 DEF IInv, SpansAfterSinks, AllClosed, Signal, HttpClosed, Disconnect,
              DisconnectFails, HooksDone, SpansDone
<1>7. DoneMeansExited'
  BY DEF IInv, DoneMeansExited, Signal, HttpClosed, Disconnect, DisconnectFails,
         HooksDone, SpansDone
<1>8. ExitComesLast'
  <2>1. cause # "done"
    BY <1>1 DEF IInv, DoneMeansExited
  <2>2. CASE SpansDone
    BY <1>1, <2>2 DEF SpansDone, IInv, SpansAfterSinks, AllClosed, ClosedHasSettled,
                      ExitComesLast
  <2>3. CASE ~SpansDone
    BY <2>1, <2>3 DEF ExitComesLast, Signal, HttpClosed, Disconnect, DisconnectFails,
                      HooksDone
  <2>. QED BY <2>2, <2>3
<1>. QED BY <1>2, <1>3, <1>4, <1>5, <1>6, <1>7, <1>8 DEF IInv

LEMMA StutterKeepsIInv == IInv /\ UNCHANGED vars => IInv'
BY DEF vars, process, connections, sinks, IInv, TypeOK, OpenUntilHooks,
       HooksAfterRequests, OpenPromisesAll, PromisedWereAccepted, SettledWereAccepted,
       ClosedHasSettled, SpansAfterSinks, AllClosed, DoneMeansExited,
       ServedLinesArePromised, ExitComesLast

\* The inductive invariant holds.
THEOREM ShutdownInvariant == Spec => []IInv
<1>1. IInv /\ [Next]_vars => IInv'
  <2> SUFFICES ASSUME IInv, [Next]_vars PROVE IInv'
    OBVIOUS
  <2>. QED
    BY ConnectionsKeepIInv, LogKeepsIInv, SinkKeepsIInv, SequenceKeepsIInv,
       StutterKeepsIInv DEF Next
<1>. QED BY <1>1, InitIInv, PTL DEF Spec

\* Every variable of the shutdown keeps its type.
THEOREM ShutdownTypeCorrect == Spec => []TypeOK
<1>1. IInv => TypeOK
  BY DEF IInv
<1>. QED BY <1>1, ShutdownInvariant, PTL

\* The handler of main.ts exits last: after every promised line has settled and
\* the spans are flushed, unless app.close() was rejected.
THEOREM ShutdownExitComesLast == Spec => []ExitComesLast
<1>1. IInv => ExitComesLast
  BY DEF IInv
<1>. QED BY <1>1, ShutdownInvariant, PTL

\* What a request logs is promised by every destination that accepted it.
THEOREM ShutdownPromisesServedLines == Spec => []ServedLinesArePromised
<1>1. IInv => ServedLinesArePromised
  BY DEF IInv
<1>. QED BY <1>1, ShutdownInvariant, PTL

-----------------------------------------------------------------------------
(* Each destination, inside the process, is a LogSink.                      *)

\* A step that leaves destination s alone is a stutter of its LogSink.
LEMMA SinkStutters ==
  ASSUME NEW s \in Sinks,
         accepted'[s] = accepted[s], promised'[s] = promised[s],
         settled'[s] = settled[s], mode'[s] = mode[s]
  PROVE  [Sink(s)!Next]_(Sink(s)!vars)
BY DEF Sink!vars

LEMMA LogIsAccept ==
  ASSUME IInv, NEW s \in Sinks, NEW to \in SUBSET Sinks, NEW byRequest \in BOOLEAN,
         Log(to, byRequest)
  PROVE  [Sink(s)!Next]_(Sink(s)!vars)
<1>1. UNCHANGED <<settled, mode>>
  BY DEF Log
<1>2. CASE s \notin to
  BY <1>1, <1>2, SinkStutters DEF Log
<1>3. CASE s \in to
  <2>1. /\ accepted[s] < MaxLines
        /\ accepted'[s] = accepted[s] + 1
        /\ promised'[s] = IF mode[s] = "open" THEN promised[s] + 1 ELSE promised[s]
    BY <1>3 DEF Log
  <2>. QED BY <1>1, <2>1 DEF Sink!Next, Sink!Accept
<1>. QED BY <1>2, <1>3

LEMMA SinkStepIsLogSinkStep ==
  ASSUME IInv, NEW s \in Sinks, NEW u \in Sinks, Settle(u) \/ BeginClose(u) \/ Close(u)
  PROVE  [Sink(s)!Next]_(Sink(s)!vars)
<1>1. UNCHANGED <<accepted, promised>>
  BY DEF Settle, BeginClose, Close
<1>2. CASE s # u
  <2>1. settled'[s] = settled[s] /\ mode'[s] = mode[s]
    BY <1>2 DEF Settle, BeginClose, Close, IInv, TypeOK
  <2>. QED BY <1>1, <2>1, SinkStutters
<1>3. CASE s = u /\ Settle(u)
  <2>1. PICK S \in SUBSET Unsettled(s) : settled' = [settled EXCEPT ![s] = @ \cup S]
    BY <1>3 DEF Settle
  <2>2. settled'[s] = settled[s] \cup S
    BY <2>1 DEF IInv, TypeOK
  <2>3. Sink(s)!Settle
    BY <1>1, <1>3, <2>2 DEF Sink!Settle, Sink!Unsettled, Unsettled, Settle
  <2>. QED BY <2>3 DEF Sink!Next
<1>4. CASE s = u /\ BeginClose(u)
  <2>1. mode'[s] = "closing" /\ mode[s] = "open" /\ settled'[s] = settled[s]
    BY <1>4 DEF BeginClose, IInv, TypeOK
  <2>. QED BY <1>1, <2>1 DEF Sink!Next, Sink!BeginClose
<1>5. CASE s = u /\ Close(u)
  <2>1. PICK S \in SUBSET Unsettled(s) :
          /\ 1 .. promised[s] \subseteq settled[s] \cup S
          /\ settled' = [settled EXCEPT ![s] = @ \cup S]
    BY <1>5 DEF Close
  <2>2. settled'[s] = settled[s] \cup S /\ mode[s] = "closing" /\ mode'[s] = "closed"
    BY <1>5, <2>1 DEF Close, IInv, TypeOK
  <2>3. Sink(s)!Close
    BY <1>1, <2>1, <2>2 DEF Sink!Close, Sink!Unsettled, Unsettled
  <2>. QED BY <2>3 DEF Sink!Next
<1>. QED BY <1>2, <1>3, <1>4, <1>5

\* Nothing main.ts does breaks the protocol of a destination: embedded in the
\* process, each one still implements the abstract sink.
THEOREM ShutdownSinksKeepTheirPromise == Spec => SinksKeepTheirPromise
<1>1. Init => \A s \in Sinks : Sink(s)!Init
  BY DEF Init, Sink!Init
<1>2. IInv /\ [Next]_vars =>
        [\A s \in Sinks : [Sink(s)!Next]_(Sink(s)!vars)]_vars
  <2> SUFFICES ASSUME IInv, [Next]_vars, NEW s \in Sinks
               PROVE  [Sink(s)!Next]_(Sink(s)!vars)
    OBVIOUS
  <2>1. CASE \E to \in (SUBSET Sinks) \ {{}}, byRequest \in BOOLEAN : Log(to, byRequest)
    BY <2>1, LogIsAccept
  <2>2. CASE \E u \in Sinks : Settle(u) \/ BeginClose(u) \/ Close(u)
    BY <2>2, SinkStepIsLogSinkStep
  <2>3. CASE UNCHANGED <<accepted, promised, settled, mode>>
    BY <2>3, SinkStutters
  <2>. QED
    BY <2>1, <2>2, <2>3
       DEF Next, vars, sinks, Connect, RequestEnds, TailEnds, Signal, HttpClosed,
           Disconnect, DisconnectFails, HooksDone, SpansDone
<1>. QED BY <1>1, <1>2, ShutdownInvariant, PTL DEF Spec, SinksKeepTheirPromise
==============================================================================
