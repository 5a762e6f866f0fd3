-------------------------- MODULE DestinationProofs ---------------------------
(***************************************************************************)
(* Every action of FlushChain preserves its inductive invariant, for every *)
(* batch size, any number of lines and any set of refused lines.  The      *)
(* steps of PrismaLogDestination and of LokiDestination are steps of the   *)
(* chain, so the same lemmas carry the invariant of both and their         *)
(* refinement of LogSink.                                                  *)
(***************************************************************************)
EXTENDS PrismaLogDestination, LokiDestination, SequenceTheorems, TLAPS

\* The values of a buffer of lines, after a push and when emptied.
LEMMA RangeOfBuffer ==
  ASSUME NEW s \in Seq(Line)
  PROVE  /\ Range(s) \subseteq Line
         /\ Range(<<>>) = {}
         /\ \A e \in Line : Range(Append(s, e)) = Range(s) \cup {e}
<1>1. Range(s) \subseteq Line
  BY ElementOfSeq DEF Range
<1>2. Range(<<>>) = {}
  BY DEF Range
<1>3. ASSUME NEW e \in Line
      PROVE  Range(Append(s, e)) = Range(s) \cup {e}
  <2>1. /\ DOMAIN Append(s, e) = 1 .. (Len(s) + 1)
        /\ DOMAIN s = 1 .. Len(s)
        /\ Len(s) \in Nat
        /\ \A i \in 1 .. Len(s) : Append(s, e)[i] = s[i]
        /\ Append(s, e)[Len(s) + 1] = e
    BY <1>3, AppendProperties, LenProperties
  <2>2. ASSUME NEW x \in Range(Append(s, e))
        PROVE  x \in Range(s) \cup {e}
    <3>1. PICK i \in 1 .. (Len(s) + 1) : Append(s, e)[i] = x
      BY <2>1, <2>2 DEF Range
    <3>2. CASE i = Len(s) + 1
      BY <2>1, <3>1, <3>2
    <3>3. CASE i \in 1 .. Len(s)
      BY <2>1, <3>1, <3>3 DEF Range
    <3>. QED BY <2>1, <3>1, <3>2, <3>3
  <2>3. ASSUME NEW x \in Range(s) \cup {e}
        PROVE  x \in Range(Append(s, e))
    <3>1. CASE x = e
      <4>1. Len(s) + 1 \in DOMAIN Append(s, e)
        BY <2>1
      <4>. QED BY <2>1, <3>1, <4>1 DEF Range
    <3>2. CASE x \in Range(s)
      <4>1. PICK i \in 1 .. Len(s) : s[i] = x
        BY <2>1, <3>2 DEF Range
      <4>2. i \in DOMAIN Append(s, e) /\ Append(s, e)[i] = x
        BY <2>1, <4>1
      <4>. QED BY <4>2 DEF Range
    <3>. QED BY <2>3, <3>1, <3>2
  <2>. QED BY <2>2, <2>3
<1>. QED BY <1>1, <1>2, <1>3

\* Nothing has been written when the destination is constructed.
LEMMA InitEstablishes == ASSUME Init PROVE IInv
<1>0. <<>> \in Seq(Line) /\ Len(<<>>) = 0
  BY EmptySeq
<1>1. TypeOK
  <2>1. accepted \in 0 .. MaxLines /\ upto \in 0 .. accepted
    BY FlushAssumption DEF Init
  <2>2. buffer \in Seq(Line)
    BY <1>0 DEF Init
  <2>3. inflight \subseteq [by : {"chain", "shutdown"}, lines : SUBSET Line]
    BY DEF Init
  <2>. QED
    BY <2>1, <2>2, <2>3 DEF Init, TypeOK
<1>2. Range(buffer) = {}
  BY DEF Init, Range
<1>3. EveryLineAccountedFor
  BY <1>2 DEF Init, EveryLineAccountedFor, Settled
<1>4. FullBatchIsScheduled
  BY <1>0, FlushAssumption DEF Init, FullBatchIsScheduled
<1>. QED
  BY <1>1, <1>2, <1>3, <1>4
  DEF Init, IInv, OnePerStarter, ShutdownFlushWhileDraining, RunningIsAwaited,
      BufferIsNewest, InFlightAfterStored, DrainCovers, ShutdownDrains

\* write() appends the newest line, and schedules when the batch is full.
LEMMA WritePreserves == ASSUME IInv, Write PROVE IInv'
<1>1. TypeOK /\ accepted + 1 \in Line /\ accepted \in Nat /\ MaxLines \in Nat
  BY FlushAssumption DEF IInv, Write, TypeOK, Line
<1>2. /\ Range(buffer') = Range(buffer) \cup {accepted + 1}
      /\ buffer' \in Seq(Line)
  BY <1>1, RangeOfBuffer, AppendProperties DEF Write, TypeOK
<1>3. UNCHANGED <<timer, inflight, phase, ahead, upto, stored, reported>>
  BY DEF Write, shutdownVars, outcomeVars
<1>4. accepted' = accepted + 1 /\ accepted < MaxLines
  BY DEF Write
<1>5. Settled' = Settled /\ Settled \subseteq 1 .. accepted
  BY <1>3 DEF IInv, EveryLineAccountedFor, Settled
<1>6. \A f \in inflight : f.lines \subseteq 1 .. accepted
  BY DEF IInv, EveryLineAccountedFor
<1>7. TypeOK'
  <2>1. accepted' \in 0 .. MaxLines /\ upto' \in 0 .. accepted'
    BY <1>1, <1>3, <1>4 DEF TypeOK
  <2>2. links' \in Nat
    BY <1>1 DEF Write, TypeOK
  <2>. QED BY <1>1, <1>2, <1>3, <2>1, <2>2 DEF TypeOK
<1>8. EveryLineAccountedFor'
  <2>1. 1 .. accepted' = (1 .. accepted) \cup {accepted + 1}
    BY <1>1, <1>4
  <2>2. accepted + 1 \notin 1 .. accepted
    BY <1>1
  <2>3. EveryLineAccountedFor
    BY DEF IInv
  <2>. QED BY <1>2, <1>3, <1>5, <1>6, <2>1, <2>2, <2>3 DEF EveryLineAccountedFor
<1>9. BufferIsNewest'
  <2>1. ASSUME NEW l \in Range(buffer'), NEW m \in (1 .. accepted') \ Range(buffer')
        PROVE  m < l
    <3>1. m \in (1 .. accepted) \ Range(buffer)
      BY <1>1, <1>2, <1>4, <2>1
    <3>2. CASE l = accepted + 1
      BY <1>1, <3>1, <3>2
    <3>3. CASE l \in Range(buffer)
      BY <3>1, <3>3 DEF IInv, BufferIsNewest
    <3>. QED BY <1>2, <2>1, <3>2, <3>3
  <2>. QED BY <2>1 DEF BufferIsNewest
<1>10. FullBatchIsScheduled'
  BY <1>1 DEF Write, FullBatchIsScheduled, TypeOK
<1>11. DrainCovers' /\ ShutdownDrains'
  BY <1>3, <1>5 DEF IInv, DrainCovers, ShutdownDrains
<1>12. OnePerStarter' /\ ShutdownFlushWhileDraining' /\ RunningIsAwaited'
  BY <1>3 DEF IInv, OnePerStarter, ShutdownFlushWhileDraining,
              RunningIsAwaited, Chained
<1>13. InFlightAfterStored'
  BY <1>3 DEF IInv, InFlightAfterStored
<1>. QED
  BY <1>7, <1>8, <1>9, <1>10, <1>11, <1>12, <1>13 DEF IInv

\* Arming the timer, or a tick of it, touches no line.
LEMMA TimerPreserves == ASSUME IInv, OnInit \/ TimerTick PROVE IInv'
<1>1. /\ UNCHANGED <<accepted, buffer, inflight, phase, ahead, upto, stored, reported>>
      /\ links' \in Nat /\ (links > 0 => links' > 0)
      /\ timer' \in BOOLEAN
  <2>1. links \in Nat /\ timer \in BOOLEAN
    BY DEF IInv, TypeOK
  <2>2. CASE OnInit
    BY <2>1, <2>2 DEF OnInit, shutdownVars, outcomeVars
  <2>3. CASE TimerTick
    <3>1. links' \in Nat /\ links' > 0
      BY <2>1, <2>3 DEF TimerTick
    <3>. QED BY <2>1, <2>3, <3>1 DEF TimerTick, shutdownVars, outcomeVars
  <2>. QED BY <2>2, <2>3
<1>2. TypeOK'
  BY <1>1 DEF IInv, TypeOK
<1>3. EveryLineAccountedFor' /\ BufferIsNewest'
  BY <1>1 DEF IInv, EveryLineAccountedFor, BufferIsNewest, Settled
<1>4. /\ OnePerStarter' /\ ShutdownFlushWhileDraining' /\ RunningIsAwaited'
      /\ InFlightAfterStored'
  BY <1>1 DEF IInv, OnePerStarter, ShutdownFlushWhileDraining,
              RunningIsAwaited, Chained, InFlightAfterStored
<1>5. DrainCovers' /\ ShutdownDrains' /\ FullBatchIsScheduled'
  BY <1>1 DEF IInv, DrainCovers, ShutdownDrains, FullBatchIsScheduled, Settled
<1>. QED
  BY <1>2, <1>3, <1>4, <1>5 DEF IInv

\* The await of onShutdown() counts the running flush and the queued ones.
LEMMA BeginShutdownPreserves == ASSUME IInv, BeginShutdown PROVE IInv'
<1>1. /\ UNCHANGED <<accepted, buffer, links, inflight, stored, reported>>
      /\ phase = "up" /\ phase' = "awaiting" /\ timer' = FALSE
      /\ ahead' = (IF Chained = {} THEN links ELSE links + 1)
      /\ upto' = accepted
  BY DEF BeginShutdown, outcomeVars
<1>2. links \in Nat /\ accepted \in Nat
  BY DEF IInv, TypeOK
<1>3. TypeOK'
  <2>1. ahead' \in Nat
    BY <1>1, <1>2
  <2>2. upto' \in 0 .. accepted'
    BY <1>1, <1>2
  <2>3. timer' \in BOOLEAN
    BY <1>1
  <2>. QED BY <1>1, <2>1, <2>2, <2>3 DEF IInv, TypeOK
<1>4. RunningIsAwaited'
  BY <1>1, <1>2 DEF RunningIsAwaited, Chained
<1>5. EveryLineAccountedFor' /\ BufferIsNewest' /\ FullBatchIsScheduled'
  BY <1>1 DEF IInv, EveryLineAccountedFor, BufferIsNewest, Settled,
              FullBatchIsScheduled
<1>6. /\ OnePerStarter' /\ ShutdownFlushWhileDraining' /\ InFlightAfterStored'
      /\ DrainCovers' /\ ShutdownDrains'
  BY <1>1 DEF IInv, OnePerStarter, ShutdownFlushWhileDraining,
              InFlightAfterStored, DrainCovers, ShutdownDrains
<1>. QED
  BY <1>3, <1>4, <1>5, <1>6 DEF IInv

-----------------------------------------------------------------------------
\* The synchronous part of flush(): every buffered line is now in flight or
\* reported, and nothing is in both.
LEMMA FlushMovesTheBuffer ==
  ASSUME IInv, NEW who \in {"chain", "shutdown"},
         NEW refused \in SUBSET Range(buffer),
         Flush(who, refused), UNCHANGED <<accepted, stored>>,
         \A f \in inflight : f.by # who
  PROVE  /\ EveryLineAccountedFor' /\ BufferIsNewest'
         /\ buffer' \in Seq(Line) /\ Range(buffer') = {} /\ Len(buffer') = 0
         /\ inflight' \subseteq [by : {"chain", "shutdown"}, lines : SUBSET Line]
         /\ reported' \subseteq Line
         /\ Settled' = Settled \cup refused
<1> DEFINE sent  == Range(buffer) \ refused
           fresh == [by |-> who, lines |-> sent]
<1>1. /\ buffer' = <<>>
      /\ reported' = reported \cup refused
      /\ inflight' = IF sent = {} THEN inflight ELSE inflight \cup {fresh}
  BY DEF Flush
<1>2. buffer' \in Seq(Line) /\ Range(buffer') = {} /\ Len(buffer') = 0
  BY <1>1, EmptySeq, RangeOfBuffer DEF IInv, TypeOK
<1>3. Range(buffer) \subseteq Line
  BY RangeOfBuffer DEF IInv, TypeOK
<1>4. inflight' \subseteq [by : {"chain", "shutdown"}, lines : SUBSET Line]
  BY <1>1, <1>3 DEF IInv, TypeOK
<1>5. reported' \subseteq Line
  BY <1>1, <1>3 DEF IInv, TypeOK
<1>6. Settled' = Settled \cup refused
  BY <1>1 DEF Settled
<1>7. UNION {f.lines : f \in inflight'} = (UNION {f.lines : f \in inflight}) \cup sent
  <2>1. CASE sent = {}
    BY <1>1, <2>1
  <2>2. CASE sent # {}
    <3>1. inflight' = inflight \cup {fresh} /\ fresh.lines = sent
      BY <1>1, <2>2
    <3>. HIDE DEF fresh, sent
    <3>. QED BY <3>1
  <2>. QED BY <2>1, <2>2
<1>8. EveryLineAccountedFor'
  <2>1. 1 .. accepted' =
          Range(buffer') \cup Settled' \cup UNION {f.lines : f \in inflight'}
    BY <1>2, <1>6, <1>7 DEF IInv, EveryLineAccountedFor
  <2>2. \A f \in inflight : f.lines \cap (sent \cup Settled') = {}
    BY <1>6 DEF IInv, EveryLineAccountedFor
  <2>3. sent \cap Settled' = {}
    BY <1>6 DEF IInv, EveryLineAccountedFor
  <2>4. \A f \in inflight' : f.lines \cap Settled' = {}
    BY <1>1, <2>2, <2>3
  <2>5. ASSUME NEW f \in inflight', NEW g \in inflight', f # g
        PROVE  f.lines \cap g.lines = {}
    <3>1. CASE f \in inflight /\ g \in inflight
      BY <2>5, <3>1 DEF IInv, EveryLineAccountedFor
    <3>2. CASE f \in inflight /\ g = fresh
      BY <2>2, <3>2
    <3>3. CASE f = fresh /\ g \in inflight
      BY <2>2, <3>3
    <3>. QED BY <1>1, <2>5, <3>1, <3>2, <3>3
  <2>. QED BY <1>2, <2>1, <2>4, <2>5 DEF EveryLineAccountedFor
<1>9. BufferIsNewest'
  BY <1>2 DEF BufferIsNewest
<1>. QED
  BY <1>2, <1>4, <1>5, <1>6, <1>8, <1>9

\* A chained flush starts: it is the only one of the chain, all it takes was
\* written after anything stored, and an awaited one is still counted.
LEMMA StartChainedPreserves ==
  ASSUME IInv, NEW refused \in SUBSET Range(buffer), StartChained(refused)
  PROVE  IInv'
<1> DEFINE sent  == Range(buffer) \ refused
           fresh == [by |-> "chain", lines |-> sent]
<1>1. /\ UNCHANGED <<accepted, timer, phase, upto, stored>>
      /\ Flush("chain", refused)
      /\ links > 0 /\ links' = links - 1
      /\ Chained = {}
      /\ phase = "awaiting" => ahead > 0
      /\ ahead' = IF NothingToSend(refused) /\ phase = "awaiting" THEN ahead - 1
                  ELSE ahead
  BY DEF StartChained, LinkDone
<1>2. \A f \in inflight : f.by # "chain"
  BY <1>1 DEF Chained
<1>3. /\ EveryLineAccountedFor' /\ BufferIsNewest'
      /\ buffer' \in Seq(Line) /\ Range(buffer') = {} /\ Len(buffer') = 0
      /\ inflight' \subseteq [by : {"chain", "shutdown"}, lines : SUBSET Line]
      /\ reported' \subseteq Line
      /\ Settled' = Settled \cup refused
  BY <1>1, <1>2, FlushMovesTheBuffer
<1>4. inflight' = IF sent = {} THEN inflight ELSE inflight \cup {fresh}
  BY <1>1 DEF Flush
<1>5. TypeOK'
  <2>1. links' \in Nat /\ ahead' \in Nat
    BY <1>1 DEF IInv, TypeOK
  <2>. QED BY <1>1, <1>3, <2>1 DEF IInv, TypeOK
<1>6. OnePerStarter' /\ ShutdownFlushWhileDraining'
  <2>1. fresh.by = "chain"
    OBVIOUS
  <2>2. \A f \in inflight' : f \in inflight \/ f = fresh
    BY <1>4
  <2>. HIDE DEF fresh
  <2>. QED
    BY <1>1, <1>2, <2>1, <2>2 DEF IInv, OnePerStarter, ShutdownFlushWhileDraining
<1>7. RunningIsAwaited'
  <2>1. CASE sent = {}
    BY <1>1, <1>4, <2>1 DEF RunningIsAwaited, Chained
  <2>2. CASE sent # {}
    BY <1>1, <2>2 DEF RunningIsAwaited, NothingToSend
  <2>. QED BY <2>1, <2>2
<1>8. InFlightAfterStored'
  <2>1. ASSUME NEW l \in sent, NEW m \in stored
        PROVE  m < l
    BY DEF IInv, EveryLineAccountedFor, BufferIsNewest, Settled
  <2>. QED BY <1>1, <1>4, <2>1 DEF IInv, InFlightAfterStored
<1>9. DrainCovers' /\ ShutdownDrains'
  BY <1>1, <1>3, <1>4 DEF IInv, DrainCovers, ShutdownDrains
<1>10. FullBatchIsScheduled'
  BY <1>3, FlushAssumption DEF FullBatchIsScheduled
<1>. QED
  BY <1>3, <1>5, <1>6, <1>7, <1>8, <1>9, <1>10 DEF IInv

\* The shutdown's flush starts: no chained flush runs, so together with what
\* has settled it covers every line accepted so far.
LEMMA StartDrainPreserves ==
  ASSUME IInv, NEW refused \in SUBSET Range(buffer), StartDrain(refused)
  PROVE  IInv'
<1> DEFINE sent  == Range(buffer) \ refused
           fresh == [by |-> "shutdown", lines |-> sent]
<1>1. /\ UNCHANGED <<accepted, timer, links, ahead, upto, stored>>
      /\ Flush("shutdown", refused)
      /\ phase = "awaiting" /\ ahead = 0
      /\ phase' = IF NothingToSend(refused) THEN "closed" ELSE "draining"
  BY DEF StartDrain
<1>2. inflight = {}
  <2>1. Chained = {}
    BY <1>1 DEF IInv, RunningIsAwaited
  <2>2. \A f \in inflight : f.by = "chain" \/ f.by = "shutdown"
    BY DEF IInv, TypeOK
  <2>. QED BY <1>1, <2>1, <2>2 DEF IInv, ShutdownFlushWhileDraining, Chained
<1>3. /\ EveryLineAccountedFor' /\ BufferIsNewest'
      /\ buffer' \in Seq(Line) /\ Range(buffer') = {} /\ Len(buffer') = 0
      /\ inflight' \subseteq [by : {"chain", "shutdown"}, lines : SUBSET Line]
      /\ reported' \subseteq Line
      /\ Settled' = Settled \cup refused
  BY <1>1, <1>2, FlushMovesTheBuffer
<1>4. inflight' = IF sent = {} THEN {} ELSE {fresh}
  BY <1>1, <1>2 DEF Flush
<1>5. TypeOK'
  BY <1>1, <1>3 DEF IInv, TypeOK
<1>6. OnePerStarter' /\ ShutdownFlushWhileDraining' /\ RunningIsAwaited'
      /\ InFlightAfterStored'
  BY <1>1, <1>4 DEF OnePerStarter, ShutdownFlushWhileDraining, RunningIsAwaited,
                    InFlightAfterStored, NothingToSend
<1>7. 1 .. upto \subseteq Settled' \cup sent
  <2>1. 1 .. upto \subseteq 1 .. accepted
    BY DEF IInv, TypeOK
  <2>2. 1 .. accepted = Range(buffer) \cup Settled
    BY <1>2 DEF IInv, EveryLineAccountedFor
  <2>. QED BY <1>3, <2>1, <2>2
<1>8. DrainCovers' /\ ShutdownDrains'
  <2>1. CASE sent = {}
    BY <1>1, <1>7, <2>1 DEF DrainCovers, ShutdownDrains, NothingToSend
  <2>2. CASE sent # {}
    BY <1>1, <1>4, <1>7, <2>2 DEF DrainCovers, ShutdownDrains, NothingToSend
  <2>. QED BY <2>1, <2>2
<1>9. FullBatchIsScheduled'
  BY <1>3, FlushAssumption DEF FullBatchIsScheduled
<1>. QED
  BY <1>3, <1>5, <1>6, <1>8, <1>9 DEF IInv

\* A flush ends: its lines settle, and if it was the shutdown's own, everything
\* the shutdown promised has settled.
LEMMA FinishPreserves ==
  ASSUME IInv, NEW f \in inflight, NEW kept \in SUBSET f.lines,
         NEW failed \in BOOLEAN, failed \/ kept = f.lines,
         Finish(f, kept, failed)
  PROVE  IInv'
<1>1. /\ UNCHANGED <<accepted, buffer, timer, links, upto>>
      /\ inflight' = inflight \ {f}
      /\ stored' = stored \cup kept
      /\ reported' = IF failed THEN reported \cup f.lines ELSE reported
  BY DEF Finish
<1>2. /\ f.by = "chain" => /\ phase' = phase
                           /\ ahead' = IF phase = "awaiting" THEN ahead - 1 ELSE ahead
      /\ f.by # "chain" => phase' = "closed" /\ ahead' = ahead
  BY DEF Finish, LinkDone
<1>3. f.by \in {"chain", "shutdown"} /\ f.lines \subseteq Line
  BY DEF IInv, TypeOK
<1>4. Settled' = Settled \cup f.lines
  BY <1>1 DEF Settled
<1>5. \A g \in inflight' : g \in inflight /\ g.by # f.by /\ g.lines \cap f.lines = {}
  BY <1>1 DEF IInv, OnePerStarter, EveryLineAccountedFor
<1>6. f.by = "shutdown" => phase = "draining"
  BY DEF IInv, ShutdownFlushWhileDraining
<1>7. TypeOK'
  <2>1. ahead' \in Nat
    <3>1. CASE f.by = "chain" /\ phase = "awaiting"
      <4>1. Chained # {}
        BY <3>1 DEF Chained
      <4>2. ahead > 0 /\ ahead \in Nat
        BY <3>1, <4>1 DEF IInv, RunningIsAwaited, TypeOK
      <4>. QED BY <1>2, <3>1, <4>2
    <3>2. CASE ~(f.by = "chain" /\ phase = "awaiting")
      BY <1>2, <3>2 DEF IInv, TypeOK
    <3>. QED BY <3>1, <3>2
  <2>2. stored' \subseteq Line /\ reported' \subseteq Line
    BY <1>1, <1>3 DEF IInv, TypeOK
  <2>3. phase' \in {"up", "awaiting", "draining", "closed"}
    BY <1>2 DEF IInv, TypeOK
  <2>4. inflight' \subseteq [by : {"chain", "shutdown"}, lines : SUBSET Line]
    BY <1>1 DEF IInv, TypeOK
  <2>. QED BY <1>1, <2>1, <2>2, <2>3, <2>4 DEF IInv, TypeOK
<1>8. EveryLineAccountedFor'
  <2>1. UNION {g.lines : g \in inflight} =
          f.lines \cup UNION {g.lines : g \in inflight'}
    BY <1>1
  <2>2. 1 .. accepted' =
          Range(buffer') \cup Settled' \cup UNION {g.lines : g \in inflight'}
    BY <1>1, <1>4, <2>1 DEF IInv, EveryLineAccountedFor
  <2>3. Range(buffer') \cap Settled' = {}
    BY <1>1, <1>4 DEF IInv, EveryLineAccountedFor
  <2>4. \A g \in inflight' : g.lines \cap (Range(buffer') \cup Settled') = {}
    BY <1>1, <1>4, <1>5 DEF IInv, EveryLineAccountedFor
  <2>5. \A g, h \in inflight' : g # h => g.lines \cap h.lines = {}
    BY <1>1 DEF IInv, EveryLineAccountedFor
  <2>. QED BY <2>2, <2>3, <2>4, <2>5 DEF EveryLineAccountedFor
<1>9. OnePerStarter' /\ ShutdownFlushWhileDraining'
  BY <1>1, <1>2, <1>3, <1>5 DEF IInv, OnePerStarter, ShutdownFlushWhileDraining
<1>10. RunningIsAwaited'
  <2>1. CASE f.by = "chain"
    BY <1>5, <2>1 DEF RunningIsAwaited, Chained
  <2>2. CASE f.by # "chain"
    BY <1>2, <2>2 DEF RunningIsAwaited
  <2>. QED BY <2>1, <2>2
<1>11. BufferIsNewest' /\ FullBatchIsScheduled'
  BY <1>1 DEF IInv, BufferIsNewest, FullBatchIsScheduled
<1>12. InFlightAfterStored'
  <2>1. CASE phase' \in {"up", "awaiting"}
    <3>1. inflight' = {}
      BY <1>2, <1>3, <1>5, <2>1 DEF IInv, TypeOK, ShutdownFlushWhileDraining
    <3>. QED BY <3>1 DEF InFlightAfterStored
  <2>2. CASE phase' \notin {"up", "awaiting"}
    BY <2>2 DEF InFlightAfterStored
  <2>. QED BY <2>1, <2>2
<1>13. DrainCovers'
  <2>1. ASSUME phase' = "draining", NEW l \in 1 .. upto', l \notin Settled'
        PROVE  \E g \in inflight' : g.by = "shutdown" /\ l \in g.lines
    <3>1. f.by = "chain" /\ phase = "draining" /\ l \notin Settled
      BY <1>2, <1>4, <2>1
    <3>2. PICK g \in inflight : g.by = "shutdown" /\ l \in g.lines
      BY <1>1, <2>1, <3>1 DEF IInv, DrainCovers
    <3>. QED BY <1>1, <3>1, <3>2
  <2>. QED BY <2>1 DEF DrainCovers
<1>14. ShutdownDrains'
  <2>1. CASE f.by = "chain"
    BY <1>1, <1>2, <1>4, <2>1 DEF IInv, ShutdownDrains
  <2>2. CASE f.by # "chain"
    <3>1. f.by = "shutdown" /\ phase = "draining"
      BY <1>3, <1>6, <2>2
    <3>2. \A g \in inflight : g.by = "shutdown" => g = f
      BY <3>1 DEF IInv, OnePerStarter
    <3>3. 1 .. upto \subseteq Settled \cup f.lines
      BY <3>1, <3>2 DEF IInv, DrainCovers
    <3>. QED BY <1>1, <1>4, <3>3 DEF ShutdownDrains
  <2>. QED BY <2>1, <2>2
<1>. QED
  BY <1>7, <1>8, <1>9, <1>10, <1>11, <1>12, <1>13, <1>14 DEF IInv

-----------------------------------------------------------------------------
\* The invariant implies the two properties that are not conjuncts of it.
LEMMA InvariantImplies ==
  ASSUME IInv
  PROVE  OneFlushWhileServing /\ StoredInOrder
<1>1. OneFlushWhileServing
  BY DEF IInv, TypeOK, OnePerStarter, ShutdownFlushWhileDraining,
         OneFlushWhileServing
<1>2. StoredInOrder
  <2>1. ASSUME phase \in {"up", "awaiting"},
               NEW m \in stored, NEW l \in 1 .. m, l \notin Settled
        PROVE  FALSE
    <3>1. m \in 1 .. accepted /\ m \notin Range(buffer) /\ accepted \in Nat
      BY DEF IInv, TypeOK, EveryLineAccountedFor, Settled
    <3>2. l \in 1 .. accepted /\ l <= m
      BY <2>1, <3>1
    <3>3. CASE l \in Range(buffer)
      BY <3>1, <3>2, <3>3 DEF IInv, BufferIsNewest
    <3>4. CASE \E f \in inflight : l \in f.lines
      BY <2>1, <3>1, <3>2, <3>4 DEF IInv, InFlightAfterStored
    <3>. QED
      BY <2>1, <3>2, <3>3, <3>4 DEF IInv, EveryLineAccountedFor
  <2>. QED BY <2>1 DEF StoredInOrder
<1>. QED BY <1>1, <1>2

-----------------------------------------------------------------------------
(* Refinement: each action maps to a step of LogSink or to a stutter.       *)

LEMMA SettledIsAccepted ==
  ASSUME IInv
  PROVE  /\ Settled \subseteq 1 .. accepted
         /\ Range(buffer) \subseteq Sink!Unsettled
         /\ \A f \in inflight : f.lines \subseteq Sink!Unsettled
BY DEF IInv, EveryLineAccountedFor, Sink!Unsettled

LEMMA InitRefines == ASSUME Init PROVE Sink!Init
BY DEF Init, Sink!Init, SinkPromised, SinkMode, Settled

LEMMA WriteRefines == ASSUME Write PROVE Sink!Accept
<1>1. /\ accepted < MaxLines /\ accepted' = accepted + 1
      /\ UNCHANGED <<phase, upto, stored, reported>>
  BY DEF Write, shutdownVars, outcomeVars
<1>2. Settled' = Settled /\ SinkMode' = SinkMode
  BY <1>1 DEF Settled, SinkMode
<1>3. SinkPromised' = IF SinkMode = "open" THEN SinkPromised + 1 ELSE SinkPromised
  BY <1>1 DEF SinkPromised, SinkMode
<1>. QED BY <1>1, <1>2, <1>3 DEF Sink!Accept

LEMMA TimerRefines == ASSUME OnInit \/ TimerTick PROVE UNCHANGED Sink!vars
<1>1. UNCHANGED <<accepted, phase, upto, stored, reported>>
  BY DEF OnInit, TimerTick, shutdownVars, outcomeVars
<1>. QED BY <1>1 DEF Sink!vars, SinkPromised, SinkMode, Settled

LEMMA BeginShutdownRefines == ASSUME BeginShutdown PROVE Sink!BeginClose
<1>1. /\ phase = "up" /\ phase' = "awaiting" /\ upto' = accepted
      /\ UNCHANGED <<accepted, stored, reported>>
  BY DEF BeginShutdown, outcomeVars
<1>. QED BY <1>1 DEF Sink!BeginClose, SinkPromised, SinkMode, Settled

LEMMA StartChainedRefines ==
  ASSUME IInv, NEW refused \in SUBSET Range(buffer), StartChained(refused)
  PROVE  Sink!Settle
<1>1. /\ UNCHANGED <<accepted, phase, upto, stored>>
      /\ reported' = reported \cup refused
  BY DEF StartChained, Flush
<1>2. refused \in SUBSET Sink!Unsettled
  BY SettledIsAccepted
<1>3. Settled' = Settled \cup refused
  BY <1>1 DEF Settled
<1>4. SinkPromised' = SinkPromised /\ SinkMode' = SinkMode
  BY <1>1 DEF SinkPromised, SinkMode
<1>. QED BY <1>1, <1>2, <1>3, <1>4 DEF Sink!Settle

LEMMA StartDrainRefines ==
  ASSUME IInv, IInv', NEW refused \in SUBSET Range(buffer), StartDrain(refused)
  PROVE  Sink!Settle \/ Sink!Close
<1>1. /\ UNCHANGED <<accepted, upto, stored>>
      /\ reported' = reported \cup refused
      /\ phase = "awaiting" /\ phase' \in {"closed", "draining"}
  BY DEF StartDrain, Flush
<1>2. refused \in SUBSET Sink!Unsettled
  BY SettledIsAccepted
<1>3. Settled' = Settled \cup refused
  BY <1>1 DEF Settled
<1>4. SinkPromised' = SinkPromised /\ SinkPromised = upto /\ SinkMode = "closing"
  BY <1>1 DEF SinkPromised, SinkMode
<1>5. CASE phase' = "closed"
  <2>1. SinkMode' = "closed"
    BY <1>5 DEF SinkMode
  <2>2. 1 .. SinkPromised \subseteq Settled \cup refused
    BY <1>1, <1>3, <1>4, <1>5 DEF IInv, ShutdownDrains
  <2>. QED BY <1>1, <1>2, <1>3, <1>4, <2>1, <2>2 DEF Sink!Close
<1>6. CASE phase' = "draining"
  <2>1. SinkMode' = "closing"
    BY <1>6 DEF SinkMode
  <2>. QED BY <1>1, <1>2, <1>3, <1>4, <2>1 DEF Sink!Settle
<1>. QED BY <1>1, <1>5, <1>6

LEMMA FinishRefines ==
  ASSUME IInv, IInv', NEW f \in inflight, NEW kept \in SUBSET f.lines,
         NEW failed \in BOOLEAN, failed \/ kept = f.lines,
         Finish(f, kept, failed)
  PROVE  Sink!Settle \/ Sink!Close
<1>1. /\ UNCHANGED <<accepted, upto>>
      /\ stored' = stored \cup kept
      /\ reported' = IF failed THEN reported \cup f.lines ELSE reported
      /\ f.by = "chain" => phase' = phase
      /\ f.by # "chain" => phase' = "closed"
  BY DEF Finish
<1>2. f.lines \in SUBSET Sink!Unsettled
  BY SettledIsAccepted
<1>3. Settled' = Settled \cup f.lines
  BY <1>1 DEF Settled
<1>4. CASE f.by = "chain"
  <2>1. SinkPromised' = SinkPromised /\ SinkMode' = SinkMode
    BY <1>1, <1>4 DEF SinkPromised, SinkMode
  <2>. QED BY <1>1, <1>2, <1>3, <2>1 DEF Sink!Settle
<1>5. CASE f.by # "chain"
  <2>1. f.by = "shutdown" /\ phase = "draining"
    BY <1>5 DEF IInv, TypeOK, ShutdownFlushWhileDraining
  <2>2. /\ SinkPromised' = SinkPromised /\ SinkPromised = upto
        /\ SinkMode = "closing" /\ SinkMode' = "closed"
    BY <1>1, <1>5, <2>1 DEF SinkPromised, SinkMode
  <2>3. 1 .. SinkPromised \subseteq Settled \cup f.lines
    BY <1>1, <1>3, <1>5, <2>2 DEF IInv, ShutdownDrains
  <2>. QED BY <1>1, <1>2, <1>3, <2>2, <2>3 DEF Sink!Close
<1>. QED BY <1>4, <1>5

(***************************************************************************)
(* PrismaLogDestination: a finished createMany is a Finish of the chain.   *)
(***************************************************************************)

LEMMA PrismaRefusedIsBuffered == Refused \in SUBSET Range(buffer)
BY DEF Refused

\* A finished createMany is an instance of Finish.
LEMMA PrismaAnswerIsFinish ==
  ASSUME NEW f \in inflight, Created(f) \/ CreateFailed(f)
  PROVE  \E kept \in SUBSET f.lines, failed \in BOOLEAN :
            (failed \/ kept = f.lines) /\ Finish(f, kept, failed)
<1>1. CASE Created(f)
  BY <1>1 DEF Created
<1>2. CASE CreateFailed(f)
  <2>1. PICK kept \in {{}, f.lines} : Finish(f, kept, TRUE)
    BY <1>2 DEF CreateFailed
  <2>2. kept \in SUBSET f.lines
    OBVIOUS
  <2>. QED BY <2>1, <2>2
<1>. QED BY <1>1, <1>2

\* A stuttering step changes nothing the invariant reads.
LEMMA PrismaStutterPreserves == ASSUME IInv, UNCHANGED vars PROVE IInv'
BY DEF vars, IInv, TypeOK, EveryLineAccountedFor, OnePerStarter,
       ShutdownFlushWhileDraining, RunningIsAwaited, Chained, BufferIsNewest,
       InFlightAfterStored, DrainCovers, ShutdownDrains, FullBatchIsScheduled,
       Settled

LEMMA PrismaNextPreserves == IInv /\ [Next]_vars => IInv'
<1> SUFFICES ASSUME IInv, [Next]_vars PROVE IInv'
  OBVIOUS
<1>1. CASE OnInit \/ TimerTick
  BY <1>1, TimerPreserves
<1>2. CASE Write
  BY <1>2, WritePreserves
<1>3. CASE BeginShutdown
  BY <1>3, BeginShutdownPreserves
<1>4. CASE ChainedFlush
  BY <1>4, PrismaRefusedIsBuffered, StartChainedPreserves DEF ChainedFlush
<1>5. CASE ShutdownFlush
  BY <1>5, PrismaRefusedIsBuffered, StartDrainPreserves DEF ShutdownFlush
<1>6. CASE \E f \in inflight : Created(f) \/ CreateFailed(f)
  BY <1>6, PrismaAnswerIsFinish, FinishPreserves
<1>7. CASE UNCHANGED vars
  BY <1>7, PrismaStutterPreserves
<1>. QED
  BY <1>1, <1>2, <1>3, <1>4, <1>5, <1>6, <1>7 DEF Next

\* The inductive invariant holds in every reachable state.
THEOREM PrismaInvariant == Spec => []IInv
<1>1. Init => IInv
  BY InitEstablishes
<1>. QED
  BY <1>1, PrismaNextPreserves, PTL DEF Spec

\* Type correctness of the destination's state.
THEOREM PrismaTypeCorrect == Spec => []TypeOK
<1>1. IInv => TypeOK
  BY DEF IInv
<1>. QED
  BY <1>1, PrismaInvariant, PTL

\* No line is lost without a notice and none is sent twice: each is in exactly
\* one of the buffer, a flush in flight, and the settled lines.
THEOREM PrismaAccounting == Spec => []EveryLineAccountedFor
<1>1. IInv => EveryLineAccountedFor
  BY DEF IInv
<1>. QED
  BY <1>1, PrismaInvariant, PTL

\* Until the shutdown's own flush starts, at most one createMany is outstanding.
THEOREM PrismaSerialized == Spec => []OneFlushWhileServing
<1>1. IInv => OneFlushWhileServing
  BY InvariantImplies
<1>. QED
  BY <1>1, PrismaInvariant, PTL

\* Until then, rows reach Postgres in the order their lines were written.
THEOREM PrismaInOrder == Spec => []StoredInOrder
<1>1. IInv => StoredInOrder
  BY InvariantImplies
<1>. QED
  BY <1>1, PrismaInvariant, PTL

\* A full batch has a flush chained that will take it: it never waits for the timer.
THEOREM PrismaFullBatchIsScheduled == Spec => []FullBatchIsScheduled
<1>1. IInv => FullBatchIsScheduled
  BY DEF IInv
<1>. QED
  BY <1>1, PrismaInvariant, PTL

\* A resolved onShutdown() means that every line accepted before it settled.
THEOREM PrismaShutdownDrains == Spec => []ShutdownDrains
<1>1. IInv => ShutdownDrains
  BY DEF IInv
<1>. QED
  BY <1>1, PrismaInvariant, PTL

\* Every step of the destination is a step of the abstract sink or a stutter.
LEMMA PrismaNextRefines == IInv /\ IInv' /\ [Next]_vars => [Sink!Next]_(Sink!vars)
<1> SUFFICES ASSUME IInv, IInv', [Next]_vars PROVE [Sink!Next]_(Sink!vars)
  OBVIOUS
<1>1. CASE OnInit \/ TimerTick
  BY <1>1, TimerRefines
<1>2. CASE Write
  BY <1>2, WriteRefines DEF Sink!Next
<1>3. CASE BeginShutdown
  BY <1>3, BeginShutdownRefines DEF Sink!Next
<1>4. CASE ChainedFlush
  BY <1>4, PrismaRefusedIsBuffered, StartChainedRefines DEF ChainedFlush, Sink!Next
<1>5. CASE ShutdownFlush
  BY <1>5, PrismaRefusedIsBuffered, StartDrainRefines DEF ShutdownFlush, Sink!Next
<1>6. CASE \E f \in inflight : Created(f) \/ CreateFailed(f)
  BY <1>6, PrismaAnswerIsFinish, FinishRefines DEF Sink!Next
<1>7. CASE UNCHANGED vars
  BY <1>7 DEF vars, Sink!vars, SinkPromised, SinkMode, Settled
<1>. QED
  BY <1>1, <1>2, <1>3, <1>4, <1>5, <1>6, <1>7 DEF Next

\* PrismaLogDestination implements LogSink.
THEOREM PrismaImplementsLogSink == Spec => ImplementsLogSink
<1>1. Init => Sink!Init
  BY InitRefines
<1>. QED
  BY <1>1, PrismaInvariant, PrismaNextRefines, PTL DEF Spec, ImplementsLogSink, Sink!Spec

(***************************************************************************)
(* LokiDestination: its clock and timestamps do not interfere with the     *)
(* flush chain.                                                            *)
(***************************************************************************)

LEMMA LokiRefusedIsBuffered == LokiRefused \in SUBSET Range(buffer)
BY DEF LokiRefused

\* The end of a push is an instance of Finish.
LEMMA LokiAnswerIsFinish ==
  ASSUME NEW f \in inflight, Pushed(f) \/ PushFailed(f)
  PROVE  \E kept \in SUBSET f.lines, failed \in BOOLEAN :
            (failed \/ kept = f.lines) /\ Finish(f, kept, failed)
<1>1. CASE Pushed(f)
  BY <1>1 DEF Pushed
<1>2. CASE PushFailed(f)
  BY <1>2 DEF PushFailed
<1>. QED BY <1>1, <1>2

LEMMA LokiNextPreserves == IInv /\ [LokiNext]_lokiVars => IInv'
<1> SUFFICES ASSUME IInv, [LokiNext]_lokiVars PROVE IInv'
  OBVIOUS
<1>1. CASE LokiOnInit \/ LokiTimerTick
  BY <1>1, TimerPreserves DEF LokiOnInit, LokiTimerTick
<1>2. CASE LokiWrite
  BY <1>2, WritePreserves DEF LokiWrite
<1>3. CASE LokiBeginShutdown
  BY <1>3, BeginShutdownPreserves DEF LokiBeginShutdown
<1>4. CASE LokiChainedFlush
  BY <1>4, LokiRefusedIsBuffered, StartChainedPreserves DEF LokiChainedFlush
<1>5. CASE LokiShutdownFlush
  BY <1>5, LokiRefusedIsBuffered, StartDrainPreserves DEF LokiShutdownFlush
<1>6. CASE \E f \in inflight : Pushed(f) \/ PushFailed(f)
  BY <1>6, LokiAnswerIsFinish, FinishPreserves
<1>7. CASE UNCHANGED vars
  BY <1>7 DEF vars, IInv, TypeOK, EveryLineAccountedFor, OnePerStarter,
       ShutdownFlushWhileDraining, RunningIsAwaited, Chained, BufferIsNewest,
       InFlightAfterStored, DrainCovers, ShutdownDrains, FullBatchIsScheduled,
       Settled
<1>. QED
  BY <1>1, <1>2, <1>3, <1>4, <1>5, <1>6, <1>7 DEF LokiNext, ClockTick, lokiVars

\* The flush-chain invariant holds of the Loki destination as well.
THEOREM LokiInvariant == LokiSpec => []IInv
<1>1. LokiInit => IInv
  BY InitEstablishes DEF LokiInit
<1>. QED
  BY <1>1, LokiNextPreserves, PTL DEF LokiSpec

\* No line handed to the Loki tier is lost without a notice or pushed twice.
THEOREM LokiAccounting == LokiSpec => []EveryLineAccountedFor
<1>1. IInv => EveryLineAccountedFor
  BY DEF IInv
<1>. QED
  BY <1>1, LokiInvariant, PTL

\* A resolved onShutdown() means that every line accepted before it settled.
THEOREM LokiShutdownDrains == LokiSpec => []ShutdownDrains
<1>1. IInv => ShutdownDrains
  BY DEF IInv
<1>. QED
  BY <1>1, LokiInvariant, PTL

LEMMA LokiNextRefines ==
  IInv /\ IInv' /\ [LokiNext]_lokiVars => [Sink!Next]_(Sink!vars)
<1> SUFFICES ASSUME IInv, IInv', [LokiNext]_lokiVars
             PROVE  [Sink!Next]_(Sink!vars)
  OBVIOUS
<1>1. CASE LokiOnInit \/ LokiTimerTick
  BY <1>1, TimerRefines DEF LokiOnInit, LokiTimerTick
<1>2. CASE LokiWrite
  BY <1>2, WriteRefines DEF LokiWrite, Sink!Next
<1>3. CASE LokiBeginShutdown
  BY <1>3, BeginShutdownRefines DEF LokiBeginShutdown, Sink!Next
<1>4. CASE LokiChainedFlush
  BY <1>4, LokiRefusedIsBuffered, StartChainedRefines DEF LokiChainedFlush, Sink!Next
<1>5. CASE LokiShutdownFlush
  BY <1>5, LokiRefusedIsBuffered, StartDrainRefines DEF LokiShutdownFlush, Sink!Next
<1>6. CASE \E f \in inflight : Pushed(f) \/ PushFailed(f)
  BY <1>6, LokiAnswerIsFinish, FinishRefines DEF Sink!Next
<1>7. CASE UNCHANGED vars
  BY <1>7 DEF vars, Sink!vars, SinkPromised, SinkMode, Settled
<1>. QED
  BY <1>1, <1>2, <1>3, <1>4, <1>5, <1>6, <1>7 DEF LokiNext, ClockTick, lokiVars

\* LokiDestination implements LogSink.
THEOREM LokiImplementsLogSink == LokiSpec => ImplementsLogSink
<1>1. LokiInit => Sink!Init
  BY InitRefines DEF LokiInit
<1>. QED
  BY <1>1, LokiInvariant, LokiNextRefines, PTL
  DEF LokiSpec, ImplementsLogSink, Sink!Spec

(***************************************************************************)
(* Timestamps.                                                             *)
(***************************************************************************)

LEMMA MillisecondsAreApart ==
  ASSUME NEW a \in Nat, NEW b \in Nat, a < b, NEW n \in Nat
  PROVE  a * n + n <= b * n
<1>1. PICK d \in Nat : b = a + 1 + d
  <2>1. b - a - 1 \in Nat /\ b = a + 1 + (b - a - 1)
    OBVIOUS
  <2>. QED BY <2>1
<1>2. b * n = a * n + n + d * n
  BY <1>1
<1>3. d * n \in Nat /\ a * n \in Nat
  OBVIOUS
<1>. QED BY <1>2, <1>3

\* A batch that is sent is no longer than a millisecond has stamps.
LEMMA BatchFitsItsMillisecond ==
  ASSUME TypeOK, NEW l \in Range(buffer) \ LokiRefused
  PROVE  LET i == CHOOSE i \in DOMAIN buffer : buffer[i] = l
         IN  i \in Nat /\ 1 <= i /\ i <= NsPerMs
<1>. DEFINE i == CHOOSE i \in DOMAIN buffer : buffer[i] = l
<1>1. Len(buffer) \in Nat /\ DOMAIN buffer = 1 .. Len(buffer)
  BY DEF TypeOK
<1>2. Len(buffer) <= MaxBody
  BY <1>1, LokiAssumption DEF LokiRefused
<1>3. \E k \in DOMAIN buffer : buffer[k] = l
  BY DEF Range
<1>4. i \in DOMAIN buffer
  BY <1>3
<1>. QED BY <1>1, <1>2, <1>4, LokiAssumption

LEMMA StampBatchKeepsStamps ==
  ASSUME StampInv, StampBatch, TypeOK'
  PROVE  StampInv'
<1>. DEFINE sent == Range(buffer) \ LokiRefused
            Index(l) == CHOOSE i \in DOMAIN buffer : buffer[i] = l
<1>1. /\ now' = now /\ now \in 0 .. MaxMs
      /\ sentAt' = [l \in Sent \cup sent |-> IF l \in sent THEN now ELSE sentAt[l]]
      /\ stamp' = [l \in Sent \cup sent |->
                     IF l \in sent THEN now * NsPerMs + Index(l) - 1 ELSE stamp[l]]
  BY DEF StampBatch, StampInv, LokiTypeOK
<1>2. Sent' = Sent \cup sent
  BY <1>1 DEF Sent
<1>3. sent \subseteq Line
  BY DEF StampInv, LokiTypeOK, TypeOK, Range
<1>4. \A l \in sent : Index(l) \in Nat /\ 1 <= Index(l) /\ Index(l) <= NsPerMs
  BY BatchFitsItsMillisecond DEF StampInv, LokiTypeOK
<1>5. now * NsPerMs \in Nat
  BY <1>1, LokiAssumption
<1>6. \A l \in Sent' :
        stamp'[l] \in Nat /\ sentAt'[l] \in 0 .. MaxMs /\ InsideItsMillisecond(l)'
  <2> SUFFICES ASSUME NEW l \in Sent'
               PROVE  /\ stamp'[l] \in Nat /\ sentAt'[l] \in 0 .. MaxMs
                      /\ InsideItsMillisecond(l)'
    OBVIOUS
  <2>1. CASE l \in sent
    <3>1. sentAt'[l] = now /\ stamp'[l] = now * NsPerMs + Index(l) - 1
      BY <1>1, <2>1
    <3>. HIDE DEF Index
    <3>2. /\ now * NsPerMs <= stamp'[l] /\ stamp'[l] < now * NsPerMs + NsPerMs
          /\ stamp'[l] \in Nat
      BY <1>4, <1>5, <2>1, <3>1, LokiAssumption
    <3>. QED BY <1>1, <3>1, <3>2 DEF InsideItsMillisecond
  <2>2. CASE l \notin sent
    <3>1. l \in Sent /\ sentAt'[l] = sentAt[l] /\ stamp'[l] = stamp[l]
      BY <1>1, <1>2, <2>2
    <3>. QED BY <3>1 DEF InsideItsMillisecond, StampInv, LokiTypeOK
  <2>. QED BY <2>1, <2>2
<1>7. stamp' \in [Sent' -> Nat] /\ sentAt' \in [Sent' -> 0 .. MaxMs]
  BY <1>1, <1>2, <1>6
<1>. QED
  BY <1>1, <1>2, <1>3, <1>6, <1>7 DEF StampInv, LokiTypeOK, Line

LEMMA UnstampedKeepsStamps ==
  ASSUME StampInv, TypeOK', UNCHANGED clockVars
  PROVE  StampInv'
BY DEF StampInv, LokiTypeOK, Sent, InsideItsMillisecond, clockVars

LEMMA StampInvHolds == LokiSpec => []StampInv
<1>1. LokiInit => StampInv
  BY LokiAssumption, FlushAssumption, InitEstablishes
  DEF LokiInit, StampInv, LokiTypeOK, Sent, IInv
<1>2. IInv' /\ StampInv /\ [LokiNext]_lokiVars => StampInv'
  <2> SUFFICES ASSUME IInv', StampInv, [LokiNext]_lokiVars PROVE StampInv'
    OBVIOUS
  <2>1. TypeOK'
    BY DEF IInv
  <2>2. CASE LokiChainedFlush \/ LokiShutdownFlush
    BY <2>1, <2>2, StampBatchKeepsStamps DEF LokiChainedFlush, LokiShutdownFlush
  <2>3. CASE ClockTick
    BY <2>1, <2>3, LokiAssumption
    DEF ClockTick, StampInv, LokiTypeOK, Sent, InsideItsMillisecond
  <2>4. CASE UNCHANGED clockVars
    BY <2>1, <2>4, UnstampedKeepsStamps
  <2>. QED
    BY <2>2, <2>3, <2>4
    DEF LokiNext, lokiVars, LokiOnInit, LokiWrite, LokiTimerTick, LokiBeginShutdown,
        Pushed, PushFailed
<1>. QED
  BY <1>1, <1>2, LokiInvariant, PTL DEF LokiSpec

\* Every variable of the Loki destination keeps its type.
THEOREM LokiTypeCorrect == LokiSpec => []LokiTypeOK
<1>1. StampInv => LokiTypeOK
  BY DEF StampInv
<1>. QED
  BY <1>1, StampInvHolds, PTL

\* Lines that were pushed in different milliseconds sort in the order of the clock.
THEOREM LokiStampsFollowTheClock == LokiSpec => []StampsFollowTheClock
<1>1. StampInv => StampsFollowTheClock
  <2> SUFFICES ASSUME StampInv, NEW l \in Sent, NEW m \in Sent, sentAt[l] < sentAt[m]
               PROVE  stamp[l] < stamp[m]
    BY DEF StampsFollowTheClock
  <2>1. /\ sentAt[l] \in Nat /\ sentAt[m] \in Nat /\ NsPerMs \in Nat
        /\ stamp[l] \in Nat /\ stamp[m] \in Nat
    BY LokiAssumption DEF StampInv, LokiTypeOK
  <2>2. sentAt[l] * NsPerMs + NsPerMs <= sentAt[m] * NsPerMs
    BY <2>1, MillisecondsAreApart
  <2>3. /\ stamp[l] < sentAt[l] * NsPerMs + NsPerMs
        /\ sentAt[m] * NsPerMs <= stamp[m]
    BY DEF StampInv, InsideItsMillisecond
  <2>4. sentAt[l] * NsPerMs \in Nat /\ sentAt[m] * NsPerMs \in Nat
    BY <2>1
  <2>. QED BY <2>1, <2>2, <2>3, <2>4
<1>. QED
  BY <1>1, StampInvHolds, PTL
=============================================================================
