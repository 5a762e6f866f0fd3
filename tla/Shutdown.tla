------------------------------ MODULE Shutdown -------------------------------
(***************************************************************************)
(* How the API process ends: the signal handlers of main.ts, app.close(),  *)
(* the drain of the destinations, the flush of the spans, the exit.  Each  *)
(* destination is a LogSink, by what FlushChain is shown to implement.     *)
(*                                                                         *)
(* app.close() is Nest's: the HTTP server refuses connections and waits    *)
(* for the open ones, an SSE tail included; then the onApplicationShutdown *)
(* hooks run one after the other, PrismaService's and the logger's in an   *)
(* order this code does not fix.  The logger's closes the destinations,    *)
(* last registered first.  The first hook to reject ends app.close().      *)
(* Operators whose names begin with Bad are seeded faults.                 *)
(***************************************************************************)
EXTENDS Naturals

CONSTANTS
  NSinks,     \* buffering destinations, by registration: Loki 1, Prisma 2
  MaxLines,   \* bound: lines written to a destination
  MaxConns    \* bound: open requests, and open tails

ASSUME ShutdownAssumption == NSinks \in Nat /\ MaxLines \in Nat /\ MaxConns \in Nat

VARIABLES
  handlers,   \* signals whose process.once listener has not run
  stage,      \* "serving", "closing" (HTTP), "hooks", "spans" or "exited"
  cause,      \* why it exited: "none", "done" (the finally) or "killed"
  rejected,   \* app.close() was rejected
  spans,      \* otelSdk.shutdown() has settled
  requests,   \* open HTTP requests other than tails
  tails,      \* open SSE responses
  connected,  \* the Prisma client
  accepted, promised, settled, mode,   \* each destination, see LogSink
  served      \* history: the lines of each destination that a request logged

process     == <<handlers, stage, cause, rejected, spans>>
connections == <<requests, tails>>
sinks       == <<accepted, promised, settled, mode, served>>
vars        == <<process, connections, connected, sinks>>

Sinks   == 1 .. NSinks
Signals == {"SIGTERM", "SIGINT", "SIGKILL"}
Running == stage # "exited"

Unsettled(s) == (1 .. accepted[s]) \ settled[s]
AllClosed    == \A s \in Sinks : mode[s] = "closed"
NoneClosing  == (\A s \in Sinks : mode[s] = "open") \/ AllClosed

\* Type invariant: each variable ranges over its declared set.
TypeOK ==
  /\ handlers \subseteq {"SIGTERM", "SIGINT"}
  /\ stage \in {"serving", "closing", "hooks", "spans", "exited"}
  /\ cause \in {"none", "done", "killed"}
  /\ rejected \in BOOLEAN /\ spans \in BOOLEAN /\ connected \in BOOLEAN
  /\ requests \in 0 .. MaxConns /\ tails \in 0 .. MaxConns
  /\ accepted \in [Sinks -> 0 .. MaxLines]
  /\ promised \in [Sinks -> 0 .. MaxLines]
  /\ settled \in [Sinks -> SUBSET (1 .. MaxLines)]
  /\ mode \in [Sinks -> {"open", "closing", "closed"}]
  /\ served \in [Sinks -> SUBSET (1 .. MaxLines)]

Init ==
  /\ handlers = {"SIGTERM", "SIGINT"}
  /\ stage = "serving" /\ cause = "none" /\ rejected = FALSE /\ spans = FALSE
  /\ requests = 0 /\ tails = 0
  /\ connected = TRUE
  /\ accepted = [s \in Sinks |-> 0]
  /\ promised = [s \in Sinks |-> 0]
  /\ settled = [s \in Sinks |-> {}]
  /\ mode = [s \in Sinks |-> "open"]
  /\ served = [s \in Sinks |-> {}]

-----------------------------------------------------------------------------
(* The process at work.  Cron jobs and timers run and log until the exit.   *)

\* The server accepts a request, or a live tail.
Connect ==
  /\ stage = "serving"
  /\ \/ requests < MaxConns /\ requests' = requests + 1 /\ UNCHANGED tails
     \/ tails < MaxConns /\ tails' = tails + 1 /\ UNCHANGED requests
  /\ UNCHANGED <<process, connected, sinks>>

RequestEnds ==
  /\ Running
  /\ requests > 0
  /\ requests' = requests - 1
  /\ UNCHANGED <<process, tails, connected, sinks>>

TailEnds ==
  /\ Running
  /\ tails > 0
  /\ tails' = tails - 1
  /\ UNCHANGED <<process, requests, connected, sinks>>

\* A line goes to the destinations whose level it reaches; a destination
\* promises it while its onShutdown() has not been called.
Log(to, byRequest) ==
  /\ Running
  /\ byRequest => requests > 0
  /\ \A s \in to : accepted[s] < MaxLines
  /\ accepted' = [s \in Sinks |-> IF s \in to THEN accepted[s] + 1 ELSE accepted[s]]
  /\ promised' = [s \in Sinks |->
       IF s \in to /\ mode[s] = "open" THEN promised[s] + 1 ELSE promised[s]]
  /\ served' = [s \in Sinks |->
       IF s \in to /\ byRequest THEN served[s] \cup {accepted[s] + 1} ELSE served[s]]
  /\ UNCHANGED <<process, connections, connected, settled, mode>>

\* A flush of s ends: some of its lines are stored or reported as lost.
Settle(s) ==
  /\ Running
  /\ \E S \in (SUBSET Unsettled(s)) \ {{}} :
       settled' = [settled EXCEPT ![s] = @ \cup S]
  /\ UNCHANGED <<process, connections, connected, accepted, promised, mode, served>>

-----------------------------------------------------------------------------
(* The shutdown.                                                            *)

Exit(why) == stage' = "exited" /\ cause' = why

BadSignalExits(sig) ==
  /\ Running
  /\ IF sig \in handlers
       THEN /\ handlers' = handlers \ {sig}
            /\ IF stage = "serving" THEN stage' = "closing" /\ UNCHANGED cause
                                    ELSE Exit("done")
       ELSE Exit("killed") /\ UNCHANGED handlers
  /\ UNCHANGED <<rejected, spans, connections, connected, sinks>>

BadSignalDrains(sig) ==
  /\ Running
  /\ IF sig \in handlers
       THEN /\ handlers' = handlers \ {sig}
            /\ stage' = IF stage = "serving" THEN "hooks" ELSE stage
            /\ UNCHANGED cause
       ELSE Exit("killed") /\ UNCHANGED handlers
  /\ UNCHANGED <<rejected, spans, connections, connected, sinks>>

\* The listener of a signal runs once, and starts the sequence if no other has.
\* A signal without a listener kills the process: SIGKILL, or one repeated.
Signal(sig) ==
  /\ Running
  /\ IF sig \in handlers
       THEN /\ handlers' = handlers \ {sig}
            /\ stage' = IF stage = "serving" THEN "closing" ELSE stage
            /\ UNCHANGED cause
       ELSE Exit("killed") /\ UNCHANGED handlers
  /\ UNCHANGED <<rejected, spans, connections, connected, sinks>>

\* The server stopped listening at once; the last open response has ended.
HttpClosed ==
  /\ stage = "closing"
  /\ requests = 0 /\ tails = 0
  /\ stage' = "hooks"
  /\ UNCHANGED <<handlers, cause, rejected, spans, connections, connected, sinks>>

\* PrismaService.onApplicationShutdown(): before or after the destinations.
Disconnect ==
  /\ stage = "hooks"
  /\ connected
  /\ NoneClosing
  /\ connected' = FALSE
  /\ UNCHANGED <<process, connections, sinks>>

\* $disconnect() is rejected, and so is app.close(): no hook and no span flush
\* follows, only the exit.
DisconnectFails ==
  /\ stage = "hooks"
  /\ connected
  /\ NoneClosing
  /\ rejected' = TRUE
  /\ Exit("done")
  /\ UNCHANGED <<handlers, spans, connections, connected, sinks>>

\* onShutdown() of s, when the destinations registered after it are closed.
BeginClose(s) ==
  /\ stage = "hooks"
  /\ mode[s] = "open"
  /\ \A later \in Sinks : later > s => mode[later] = "closed"
  /\ mode' = [mode EXCEPT ![s] = "closing"]
  /\ UNCHANGED <<process, connections, connected, accepted, promised, settled, served>>

BadClose(s) ==
  /\ stage = "hooks"
  /\ mode[s] = "closing"
  /\ mode' = [mode EXCEPT ![s] = "closed"]
  /\ UNCHANGED <<process, connections, connected, accepted, promised, settled, served>>

\* The promise of that onShutdown() resolves.
Close(s) ==
  /\ stage = "hooks"
  /\ mode[s] = "closing"
  /\ \E S \in SUBSET Unsettled(s) :
       /\ 1 .. promised[s] \subseteq settled[s] \cup S
       /\ settled' = [settled EXCEPT ![s] = @ \cup S]
  /\ mode' = [mode EXCEPT ![s] = "closed"]
  /\ UNCHANGED <<process, connections, connected, accepted, promised, served>>

\* app.close() resolves.
HooksDone ==
  /\ stage = "hooks"
  /\ AllClosed /\ ~connected
  /\ stage' = "spans"
  /\ UNCHANGED <<handlers, cause, rejected, spans, connections, connected, sinks>>

BadSpansDone ==
  /\ stage = "spans"
  /\ spans' = TRUE
  /\ UNCHANGED <<handlers, stage, cause, rejected, connections, connected, sinks>>

\* otelSdk.shutdown() settles, one way or the other, and process.exit(0) runs.
SpansDone ==
  /\ stage = "spans"
  /\ spans' = TRUE
  /\ Exit("done")
  /\ UNCHANGED <<handlers, rejected, connections, connected, sinks>>

-----------------------------------------------------------------------------
Next ==
  \/ Connect \/ RequestEnds \/ TailEnds
  \/ \E to \in (SUBSET Sinks) \ {{}}, byRequest \in BOOLEAN : Log(to, byRequest)
  \/ \E sig \in Signals : Signal(sig)
  \/ HttpClosed
  \/ Disconnect \/ DisconnectFails
  \/ \E s \in Sinks : Settle(s) \/ BeginClose(s) \/ Close(s)
  \/ HooksDone \/ SpansDone

Spec == Init /\ [][Next]_vars

\* Requests end, hooks settle, destinations close (ShutdownCompletes of their
\* runs) and the span exporter gives up after its own timeout.  Nothing makes a
\* tail end, and nothing makes a signal arrive.
Fairness ==
  /\ WF_vars(RequestEnds)
  /\ WF_vars(HttpClosed)
  /\ WF_vars(Disconnect \/ DisconnectFails)
  /\ \A s \in Sinks : WF_vars(BeginClose(s)) /\ WF_vars(Close(s))
  /\ WF_vars(HooksDone)
  /\ WF_vars(SpansDone)

FairSpec == Spec /\ Fairness

-----------------------------------------------------------------------------
\* "SINGLE ordered shutdown owner": unless app.close() was rejected, the handler
\* exits only after every line that a destination promised has settled and the
\* spans have been flushed, whatever else was signalled, served or logged.
ExitComesLast ==
  cause = "done" /\ ~rejected =>
    spans /\ \A s \in Sinks : 1 .. promised[s] \subseteq settled[s]

\* No line that a request logged is among the late ones which a destination
\* accepts after its shutdown began and may lose.
ServedLinesArePromised ==
  \A s \in Sinks : served[s] \subseteq 1 .. promised[s]

Sink(s) == INSTANCE LogSink
  WITH accepted <- accepted[s], promised <- promised[s],
       settled <- settled[s], mode <- mode[s]

\* Embedded in the process, each destination still behaves as a LogSink: the
\* shutdown calls it in the order it expects, once.
SinksKeepTheirPromise ==
  /\ \A s \in Sinks : Sink(s)!Init
  /\ [][\A s \in Sinks : [Sink(s)!Next]_(Sink(s)!vars)]_vars

\* A shutdown ends once no live tail is open: whoever still logs, and whichever
\* hook fails, it waits for nothing else.
ShutdownEnds == (stage # "serving" /\ tails = 0) ~> (stage = "exited")
==============================================================================
