---------------------------- MODULE LiveTailProofs -----------------------------
(***************************************************************************)
(* The theorems about LiveTail: what the tail shows is in order, and what  *)
(* it misses it misses for one of the reasons of `excused`, over any       *)
(* number of broken connections.  One lemma per action of the inductive    *)
(* invariant, after the facts about sequences that they need.              *)
(***************************************************************************)
EXTENDS LiveTail, SequenceTheorems, TLAPS

(***************************************************************************)
(* Sequences: the events are the shown ones and then those on the wire.    *)
(***************************************************************************)

LEMMA EventsFacts ==
  ASSUME TypeOK
  PROVE  /\ events \in Seq(Event)
         /\ DOMAIN events = 1 .. (Len(shown) + Len(wire))
         /\ DOMAIN shown = 1 .. Len(shown) /\ DOMAIN wire = 1 .. Len(wire)
         /\ Len(shown) \in Nat /\ Len(wire) \in Nat
         /\ Len(events) = Len(shown) + Len(wire)
         /\ \A i \in DOMAIN shown : i \in DOMAIN events /\ events[i] = shown[i]
         /\ \A j \in DOMAIN wire : /\ Len(shown) + j \in DOMAIN events
                                   /\ events[Len(shown) + j] = wire[j]
<1>1. shown \in Seq(Event) /\ wire \in Seq(Event)
  BY DEF TypeOK
<1>2. /\ Len(events) = Len(shown) + Len(wire)
      /\ \A i \in 1 .. Len(events) :
           events[i] = IF i <= Len(shown) THEN shown[i] ELSE wire[i - Len(shown)]
      /\ events \in Seq(Event)
  BY <1>1, ConcatProperties DEF events
<1>3. /\ Len(shown) \in Nat /\ Len(wire) \in Nat
      /\ DOMAIN shown = 1 .. Len(shown) /\ DOMAIN wire = 1 .. Len(wire)
      /\ DOMAIN events = 1 .. Len(events)
  BY <1>1, <1>2
<1>4. \A i \in DOMAIN shown : i \in DOMAIN events /\ events[i] = shown[i]
  BY <1>2, <1>3
<1>5. \A j \in DOMAIN wire : /\ Len(shown) + j \in DOMAIN events
                             /\ events[Len(shown) + j] = wire[j]
  <2> SUFFICES ASSUME NEW j \in 1 .. Len(wire)
               PROVE  /\ Len(shown) + j \in 1 .. Len(events)
                      /\ events[Len(shown) + j] = wire[j]
    BY <1>3
  <2>1. /\ Len(shown) + j \in 1 .. Len(events) /\ ~(Len(shown) + j <= Len(shown))
        /\ Len(shown) + j - Len(shown) = j
    BY <1>2, <1>3
  <2>. QED BY <1>2, <2>1
<1>. QED BY <1>2, <1>3, <1>4, <1>5

\* Whatever is true of all shown events and of all on the wire is true of all events.
LEMMA EventsSplit ==
  ASSUME TypeOK, NEW i \in DOMAIN events
  PROVE  \/ i \in DOMAIN shown /\ events[i] = shown[i]
         \/ \E j \in DOMAIN wire : i = Len(shown) + j /\ events[i] = wire[j]
<1>1. CASE i <= Len(shown)
  BY <1>1, EventsFacts
<1>2. CASE ~(i <= Len(shown))
  <2>1. i - Len(shown) \in DOMAIN wire /\ i = Len(shown) + (i - Len(shown))
    BY <1>2, EventsFacts
  <2>. QED BY <2>1, EventsFacts
<1>. QED BY <1>1, <1>2

LEMMA EventsDelivered ==
  ASSUME NEW s \in Seq(Event), NEW w \in Seq(Event), w # <<>>
  PROVE  Append(s, Head(w)) \o Tail(w) = s \o w
<1>1. w = <<Head(w)>> \o Tail(w) /\ Head(w) \in Event /\ Tail(w) \in Seq(Event)
  BY HeadTailProperties, HeadTailAppend
<1>2. Append(s, Head(w)) = s \o <<Head(w)>>
  BY <1>1, AppendIsConcat
<1>3. <<Head(w)>> \in Seq(Event)
  BY <1>1
<1>4. (s \o <<Head(w)>>) \o Tail(w) = s \o (<<Head(w)>> \o Tail(w))
  BY <1>1, <1>3, ConcatAssociative
<1>. QED BY <1>1, <1>2, <1>4

LEMMA EventsSent ==
  ASSUME NEW s \in Seq(Event), NEW w \in Seq(Event), NEW e \in Event
  PROVE  s \o Append(w, e) = Append(s \o w, e)
<1>1. Append(w, e) = w \o <<e>> /\ <<e>> \in Seq(Event)
  BY AppendIsConcat
<1>2. s \o w \in Seq(Event)
  BY ConcatProperties
<1>3. Append(s \o w, e) = (s \o w) \o <<e>>
  BY <1>2, AppendIsConcat
<1>. QED BY <1>1, <1>3, ConcatAssociative

LEMMA AppendFacts ==
  ASSUME NEW S, NEW s \in Seq(S), NEW e \in S
  PROVE  /\ Append(s, e) \in Seq(S)
         /\ Len(s) \in Nat /\ DOMAIN s = 1 .. Len(s)
         /\ DOMAIN Append(s, e) = 1 .. (Len(s) + 1)
         /\ Len(Append(s, e)) = Len(s) + 1
         /\ \A i \in DOMAIN s : Append(s, e)[i] = s[i]
         /\ Append(s, e)[Len(s) + 1] = e
         /\ Append(s, e) # <<>>
BY AppendProperties

LEMMA TimesAreNumbers ==
  ASSUME TypeOK
  PROVE  /\ Len(log) \in Nat /\ Lines = 1 .. Len(log) /\ DOMAIN log = Lines
         /\ \A l \in Lines : log[l].ms \in Nat /\ log[l].ms <= MaxMs
<1>1. log \in Seq([ms: 1..MaxMs, durable: BOOLEAN])
  BY DEF TypeOK
<1>2. Len(log) \in Nat /\ Lines = 1 .. Len(log) /\ DOMAIN log = Lines
  BY <1>1 DEF Lines
<1>3. ASSUME NEW l \in Lines PROVE log[l].ms \in Nat /\ log[l].ms <= MaxMs
  <2>1. log[l] \in [ms: 1..MaxMs, durable: BOOLEAN]
    BY <1>1, <1>2, ElementOfSeq
  <2>. QED BY <2>1, LiveTailAssumption
<1>. QED BY <1>2, <1>3

\* A Last-Event-ID that is no keep-alive's is the last event shown, and a cursor if
\* there is one.
LEMMA CursorFacts ==
  ASSUME IInv
  PROVE  /\ NoCursor # PingId /\ NoCursor \notin Cursors /\ PingId \notin Cursors
         /\ PingId.live = TRUE
         /\ resume \in Cursors \cup {NoCursor}
         /\ resume \in Cursors => resume.line \in Lines
         /\ lastId \in Cursors => lastId.line \in Lines
         /\ lastId # PingId =>
              /\ lastId \in Cursors \cup {NoCursor}
              /\ lastId = NoCursor => shown = <<>>
              /\ lastId # NoCursor => shown # <<>> /\ lastId = shown[Len(shown)]
<1>1. NoCursor # PingId /\ NoCursor \notin Cursors /\ PingId \notin Cursors /\ PingId.live = TRUE
  BY LiveTailAssumption DEF NoCursor, PingId, Cursors
<1>2. TypeOK /\ CursorsNameLines
  BY DEF IInv
<1>3. resume \in Cursors \cup {NoCursor} /\ lastId \in Cursors \cup {NoCursor, PingId}
  BY <1>2 DEF TypeOK
<1>4. shown # <<>> => shown[Len(shown)].line # 0
  <2> SUFFICES ASSUME shown # <<>> PROVE shown[Len(shown)].line # 0
    OBVIOUS
  <2>1. shown \in Seq(Event) /\ Len(shown) \in DOMAIN shown
    BY <1>2 DEF TypeOK
  <2>2. shown[Len(shown)] \in Event
    BY <2>1, ElementOfSeq
  <2>. QED BY <2>2, LiveTailAssumption DEF Event
<1>. QED BY <1>1, <1>2, <1>3, <1>4 DEF CursorsNameLines, NoCursor

(***************************************************************************)
(* The server: the clock, a new line, a batch that leaves the buffer.      *)
(***************************************************************************)

LEMMA TickPreserves == ASSUME IInv, ClockTick PROVE IInv'
<1>. USE DEF ClockTick, server, client, stream
<1>1. events' = events
  BY DEF events
<1>2. now \in Nat /\ now' = now + 1
  BY LiveTailAssumption DEF IInv, TypeOK
<1>3. TypeOK'
  BY <1>2, LiveTailAssumption DEF IInv, TypeOK, Lines
<1>4. ClockOrder'
  <2>1. \A l \in Lines : log[l].ms \in Nat
    BY TimesAreNumbers DEF IInv
  <2>. QED BY <1>2, <2>1 DEF IInv, ClockOrder, Lines
<1>5. CursorsNameLines' /\ Ordered'
  BY <1>1 DEF IInv, CursorsNameLines, Ordered, Lines
<1>6. ReplayIsAhead'
  BY <1>1 DEF IInv, ReplayIsAhead, After
<1>7. LiveFeed' /\ ReplayDue' /\ ReconnectDue'
  BY <1>1 DEF IInv, LiveFeed, ReplayDue, ReconnectDue, Behind, After, Tied, Shows, Lines
<1>. QED BY <1>3, <1>4, <1>5, <1>6, <1>7 DEF IInv

LEMMA FlushPreserves ==
  ASSUME IInv, NEW n \in 1 .. MaxLines, FlushBatch(n) PROVE IInv'
<1>. USE DEF FlushBatch, server, client, stream
<1>1. events' = events
  BY DEF events
<1>2. /\ flushed \in Nat /\ Len(log) \in Nat /\ flushed <= Len(log)
      /\ stored \subseteq 1 .. flushed
  BY DEF IInv, TypeOK
<1>3. /\ flushed' \in 0 .. Len(log) /\ flushed <= flushed'
      /\ stored \subseteq stored' /\ stored' \subseteq 1 .. flushed'
  <2>1. PICK kept \in BOOLEAN :
          stored' = IF kept THEN stored \cup {l \in (flushed + 1) .. n : log[l].durable}
                    ELSE stored
    OBVIOUS
  <2>2. n \in Nat /\ flushed < n /\ n <= Len(log) /\ flushed' = n
    BY <1>2, LiveTailAssumption
  <2>3. stored \subseteq stored'
    BY <2>1
  <2>4. ASSUME NEW l \in stored' PROVE l \in 1 .. flushed'
    <3>1. l \in 1 .. flushed \/ l \in (flushed + 1) .. n
      BY <1>2, <2>1
    <3>. QED BY <1>2, <2>2, <3>1
  <2>5. stored' \subseteq 1 .. flushed'
    BY <2>4
  <2>6. flushed' \in 0 .. Len(log) /\ flushed <= flushed'
    BY <1>2, <2>2
  <2>. QED BY <2>3, <2>5, <2>6
<1>4. TypeOK'
  BY <1>3 DEF IInv, TypeOK, Lines
<1>5. ClockOrder' /\ CursorsNameLines' /\ Ordered'
  BY <1>1 DEF IInv, ClockOrder, CursorsNameLines, Ordered, Lines
<1>6. ReplayIsAhead'
  BY <1>1 DEF IInv, ReplayIsAhead, After
<1>7. LiveFeed' /\ ReplayDue' /\ ReconnectDue'
  BY <1>1 DEF IInv, LiveFeed, ReplayDue, ReconnectDue, Behind, After, Tied, Shows, Lines
<1>. QED BY <1>4, <1>5, <1>6, <1>7 DEF IInv

\* A line that is written later is behind no cursor that a line now gives.
LEMMA NewLineIsBehind ==
  ASSUME IInv, NEW c \in Cursors \cup {NoCursor}, c # NoCursor => c.line \in Lines,
         NEW l \in Lines, c # NoCursor => c.line < l
  PROVE  Behind(c, l)
<1>0. Lines \subseteq Nat /\ \A m \in Lines : log[m].ms \in Nat
  BY TimesAreNumbers DEF IInv
<1>1. CASE c = NoCursor
  BY <1>1 DEF Behind, After, NoCursor, Lines
<1>2. CASE c # NoCursor
  <2>1. c.line \in Lines /\ c.line < l /\ c.line <= l
    BY <1>2 DEF Lines
  <2>2. log[c.line].ms <= log[l].ms
    BY <2>1 DEF IInv, ClockOrder
  <2>3. /\ l \in Nat /\ c.line \in Nat
        /\ log[c.line].ms \in Nat /\ log[l].ms \in Nat
    BY <1>0, <2>1
  <2>4. CASE c.live
    BY <2>2, <2>3, <2>4 DEF Behind, After, Tied
  <2>5. CASE ~c.live
    BY <2>1, <2>3, <2>5 DEF Behind, After
  <2>. QED BY <2>4, <2>5
<1>. QED BY <1>1, <1>2

LEMMA WritePreserves ==
  ASSUME IInv, NEW durable \in BOOLEAN, Write(durable) PROVE IInv'
<1>. DEFINE row == [ms |-> now, durable |-> durable]
            new == Len(log) + 1
            e   == [line |-> new, live |-> TRUE]
<1>1. TypeOK
  BY DEF IInv
<1>2. /\ log \in Seq([ms: 1..MaxMs, durable: BOOLEAN])
      /\ row \in [ms: 1..MaxMs, durable: BOOLEAN] /\ log' = Append(log, row)
  BY <1>1 DEF TypeOK, Write
<1>3. /\ Len(log) \in Nat /\ Len(log') = new /\ new \in 1 .. MaxLines
      /\ log' \in Seq([ms: 1..MaxMs, durable: BOOLEAN])
      /\ \A l \in Lines : log'[l] = log[l]
      /\ log'[new] = row /\ Lines' = Lines \cup {new} /\ Lines = 1 .. Len(log)
      /\ \A l \in Lines : l < new
  <2>1. Len(log) < MaxLines
    BY DEF Write
  <2>. QED BY <1>2, <2>1, AppendFacts, LiveTailAssumption DEF Lines
<1>4. /\ UNCHANGED <<now, flushed, stored, link, until, lastId, shown>>
      /\ UNCHANGED <<resume, query, rows, heard, excused>>
      /\ wire' = IF link = "open" THEN Append(wire, e) ELSE wire
  BY DEF Write, client
<1>5. e \in Event /\ shown \in Seq(Event) /\ wire \in Seq(Event)
  BY <1>1, <1>3 DEF Event, TypeOK
<1>6. wire' \in Seq(Event)
  BY <1>4, <1>5
<1>7. TypeOK'
  BY <1>1, <1>3, <1>4, <1>6 DEF TypeOK
<1>8. events' = IF link = "open" THEN Append(events, e) ELSE events
  BY <1>4, <1>5, EventsSent DEF events
<1>9. /\ events \in Seq(Event) /\ Len(events) \in Nat
      /\ DOMAIN events = 1 .. Len(events)
      /\ \A i \in DOMAIN events : events[i].line \in Lines
  BY <1>1, EventsFacts DEF IInv, CursorsNameLines
<1>10. /\ link = "open" => /\ DOMAIN events' = 1 .. (Len(events) + 1)
                            /\ events'[Len(events) + 1] = e
       /\ link # "open" => events' = events
       /\ \A i \in DOMAIN events : i \in DOMAIN events' /\ events'[i] = events[i]
  <2>1. CASE link = "open"
    <3>1. events' = Append(events, e)
      BY <1>8, <2>1
    <3>. QED BY <1>5, <1>9, <2>1, <3>1, AppendFacts
  <2>2. CASE link # "open"
    BY <1>8, <2>2
  <2>. QED BY <2>1, <2>2
<1>11. /\ link = "open" => /\ DOMAIN wire' = 1 .. (Len(wire) + 1)
                            /\ wire'[Len(wire) + 1] = e
       /\ link # "open" => wire' = wire
       /\ \A i \in DOMAIN wire : i \in DOMAIN wire' /\ wire'[i] = wire[i]
       /\ DOMAIN wire = 1 .. Len(wire) /\ Len(wire) \in Nat
  BY <1>4, <1>5, AppendFacts
\* What the new event adds to the events and to the wire.
<1>12. \A i \in DOMAIN events' : i \in DOMAIN events \/ (i = Len(events) + 1 /\ events'[i] = e)
  BY <1>9, <1>10
<1>13. \A i \in DOMAIN wire' : i \in DOMAIN wire \/ wire'[i] = e
  BY <1>10, <1>11
<1>14. \A c \in Cursors \cup {NoCursor}, l \in Lines :
         (c # NoCursor => c.line \in Lines) =>
            (After(c, l)' <=> After(c, l)) /\ (Tied(c, l)' <=> Tied(c, l))
  BY <1>3 DEF After, Tied, NoCursor
<1>15. ClockOrder'
  <2>1. \A l \in Lines : log[l].ms <= now
    BY DEF IInv, ClockOrder
  <2>2. \A l \in Lines' : log'[l].ms <= now
    <3>1. now <= now
      BY <1>1, LiveTailAssumption DEF TypeOK
    <3>. QED BY <1>3, <2>1, <3>1
  <2>3. ASSUME NEW l \in Lines', NEW m \in Lines', l <= m PROVE log'[l].ms <= log'[m].ms
    <3>1. CASE m = new
      BY <1>3, <2>2, <3>1
    <3>2. CASE m # new
      <4>1. l \in Lines /\ m \in Lines
        BY <1>3, <2>3, <3>2
      <4>. QED BY <1>3, <2>3, <4>1 DEF IInv, ClockOrder
    <3>. QED BY <3>1, <3>2
  <2>. QED BY <1>4, <2>2, <2>3 DEF ClockOrder
<1>16. CursorsNameLines'
  BY <1>3, <1>4, <1>10, <1>12 DEF IInv, CursorsNameLines
<1>17. Ordered'
  <2> SUFFICES ASSUME NEW i \in DOMAIN events', NEW j \in DOMAIN events', i < j,
                      events'[j].live \/ ~events'[i].live
               PROVE  events'[i].line < events'[j].line
    BY DEF Ordered
  <2>1. CASE j \in DOMAIN events
    <3>1. i \in DOMAIN events
      BY <1>9, <1>12, <2>1
    <3>. QED BY <1>10, <2>1, <3>1 DEF IInv, Ordered
  <2>2. CASE j = Len(events) + 1 /\ events'[j] = e
    <3>1. i \in DOMAIN events /\ events'[i].line \in Lines
      BY <1>9, <1>10, <1>12, <2>2
    <3>. QED BY <1>3, <2>2, <3>1
  <2>. QED BY <1>12, <2>1, <2>2
<1>18. rows \subseteq Lines
  BY <1>1, <1>3 DEF TypeOK
<1>19. /\ resume \in Cursors \cup {NoCursor} /\ (resume # NoCursor => resume.line \in Lines)
       /\ lastId # PingId => /\ lastId \in Cursors \cup {NoCursor}
                             /\ lastId # NoCursor => lastId.line \in Lines
  BY CursorFacts
<1>20. \A i \in DOMAIN wire : wire[i].line \in Lines
  BY <1>1, <1>9, EventsFacts
<1>21. ReplayIsAhead'
  <2>1. link # "open" => wire' = <<>> /\ query = "none"
    BY <1>11 DEF IInv, ReplayIsAhead
  <2>2. \A l \in rows : After(resume, l)'
    BY <1>4, <1>14, <1>18, <1>19 DEF IInv, ReplayIsAhead
  <2>3. (\A i \in DOMAIN wire : ~wire[i].live => After(resume, wire[i].line))'
    <3> SUFFICES ASSUME NEW i \in DOMAIN wire', ~wire'[i].live
                 PROVE  After(resume, wire[i].line)'
      OBVIOUS
    <3>1. i \in DOMAIN wire /\ wire'[i] = wire[i]
      BY <1>11, <1>13
    <3>. DEFINE l == wire[i].line
    <3>2. After(resume, l) /\ l \in Lines
      BY <1>20, <3>1 DEF IInv, ReplayIsAhead
    <3>. HIDE DEF l
    <3>. QED BY <1>3, <1>4, <1>19, <3>1, <3>2 DEF After, NoCursor, l
  <2>4. \A l \in rows, i \in DOMAIN events' : ~events'[i].live => events'[i].line < l
    BY <1>10, <1>12 DEF IInv, ReplayIsAhead
  <2>5. query = "asked" =>
          /\ \A i \in DOMAIN events' : ~events'[i].live => events'[i].line <= resume.line
          /\ \A i \in DOMAIN wire' : wire'[i].live
          /\ lastId.live \/ lastId = resume
    BY <1>10, <1>11, <1>12, <1>13 DEF IInv, ReplayIsAhead
  <2>6. query # "yielding" => rows = {}
    BY DEF IInv, ReplayIsAhead
  <2>. QED
    BY <1>4, <2>1, <2>2, <2>3, <2>4, <2>5, <2>6 DEF ReplayIsAhead
<1>22. LiveFeed'
  <2> SUFFICES ASSUME link = "open", NEW l \in Lines', l > heard
               PROVE  \E i \in DOMAIN events' : events'[i] = [line |-> l, live |-> TRUE]
    BY <1>4 DEF LiveFeed
  <2>1. CASE l = new
    <3>1. Len(events) + 1 \in DOMAIN events'
      BY <1>9, <1>10
    <3>. QED BY <1>10, <2>1, <3>1
  <2>2. CASE l \in Lines
    BY <1>10, <2>2 DEF IInv, LiveFeed
  <2>. QED BY <1>3, <2>1, <2>2
<1>23. \A l \in 1 .. heard : l \in Lines
  BY <1>1, <1>3 DEF TypeOK
<1>24. ReplayDue'
  BY <1>4, <1>11, <1>14, <1>19, <1>23 DEF IInv, ReplayDue, Shows, Behind
<1>25. ReconnectDue'
  <2> SUFFICES ASSUME link = "connecting", lastId # PingId, NEW l \in Lines'
               PROVE  Shows(l) \/ l \in excused \/ Behind(lastId, l)'
    BY <1>4 DEF ReconnectDue, Shows
  <2>1. CASE l \in Lines
    BY <1>4, <1>14, <1>19, <2>1 DEF IInv, ReconnectDue, Behind
  <2>2. CASE l = new
    <3>1. CASE lastId = NoCursor
      BY <1>3, <1>4, <2>2, <3>1 DEF Behind, After, NoCursor
    <3>2. CASE lastId # NoCursor
      <4>1. lastId.line \in Lines /\ log'[lastId.line] = log[lastId.line]
        BY <1>3, <1>19, <3>2
      <4>2. log[lastId.line].ms <= now /\ log'[new].ms = now
        BY <1>3, <4>1 DEF IInv, ClockOrder
      <4>3. now \in Nat /\ log[lastId.line].ms \in Nat /\ lastId.line < new
        BY <1>1, <1>3, <4>1, TimesAreNumbers, LiveTailAssumption DEF TypeOK
      <4>. QED BY <1>4, <2>2, <4>1, <4>2, <4>3 DEF Behind, After, Tied
    <3>. QED BY <3>1, <3>2
  <2>. QED BY <1>3, <2>1, <2>2
<1>. QED
  BY <1>7, <1>15, <1>16, <1>17, <1>21, <1>22, <1>24, <1>25 DEF IInv

(***************************************************************************)
(* The stream: the connection is made, the replay answered, a row or an    *)
(* event sent on.                                                          *)
(***************************************************************************)

LEMMA ConnectPreserves == ASSUME IInv, Connect PROVE IInv'
<1>. USE DEF Connect, server, client
<1>1. events' = events
  BY DEF events
<1>2. TypeOK /\ wire = <<>> /\ query = "none" /\ rows = {}
  BY DEF IInv, ReplayIsAhead
<1>3. Len(log) \in Nat /\ Lines = 1 .. Len(log) /\ Lines' = Lines
  BY <1>2, TimesAreNumbers DEF Lines
<1>4. TypeOK'
  <2>1. excused' \subseteq Lines
    <3>1. excused \subseteq Lines
      BY <1>2 DEF TypeOK
    <3>2. excused' = excused \/ excused' = excused \cup Lines
      BY DEF ExcuseAtConnect
    <3>. QED BY <3>1, <3>2
  <2>3. heard' \in 0 .. Len(log)
    BY <1>3
  <2>2. query' \in {"none", "asked"} /\ resume' \in Cursors \cup {NoCursor} /\ link' = "open"
    BY <1>2
  <2>. QED BY <1>2, <1>3, <2>1, <2>2, <2>3 DEF TypeOK
<1>5. ClockOrder' /\ CursorsNameLines' /\ Ordered'
  BY <1>1, <1>3, CursorFacts DEF IInv, ClockOrder, CursorsNameLines, Ordered
\* All that has been replayed is no newer than the last event, the cursor.
<1>6. ASSUME lastId \in Cursors, NEW i \in DOMAIN events, ~events[i].live
      PROVE  events[i].line <= lastId.line
  <2>1. /\ DOMAIN events = 1 .. Len(shown) /\ Len(shown) \in Nat
        /\ \A k \in DOMAIN events : events[k] = shown[k]
    BY <1>2, EventsFacts
  <2>2. shown # <<>> /\ lastId = shown[Len(shown)]
    BY <1>6, CursorFacts
  <2>3. Len(shown) \in DOMAIN events /\ lastId = events[Len(shown)]
    BY <2>1, <2>2
  <2>4. events[i].line \in Nat /\ lastId.line \in Nat
    BY <1>3, <2>3 DEF IInv, CursorsNameLines
  <2>5. CASE i = Len(shown)
    BY <2>3, <2>4, <2>5
  <2>6. CASE i # Len(shown)
    <3>1. i < Len(shown)
      BY <2>1, <2>6
    <3>2. events[i].line < events[Len(shown)].line
      BY <1>6, <2>3, <3>1 DEF IInv, Ordered
    <3>. QED BY <2>3, <2>4, <3>2
  <2>. QED BY <2>5, <2>6
<1>7. ReplayIsAhead'
  <2>1. query' = "asked" => \A i \in DOMAIN events : ~events[i].live => events[i].line <= resume'.line
    BY <1>6
  <2>. QED BY <1>1, <1>2, <2>1 DEF ReplayIsAhead
<1>8. LiveFeed'
  BY <1>3 DEF LiveFeed
<1>9. ReplayDue' /\ ReconnectDue'
  <2>1. CASE lastId \notin Cursors
    BY <1>3, <2>1 DEF ReplayDue, ReconnectDue, ExcuseAtConnect
  <2>2. CASE lastId \in Cursors
    <3>1. lastId # PingId
      BY <2>2, CursorFacts
    <3>. QED
      BY <1>3, <2>2, <3>1
      DEF IInv, ReplayDue, ReconnectDue, Behind, After, Tied, Shows, ExcuseAtConnect
  <2>. QED BY <2>1, <2>2
<1>. QED BY <1>4, <1>5, <1>7, <1>8, <1>9 DEF IInv

LEMMA QueryAnswersPreserves == ASSUME IInv, QueryAnswers PROVE IInv'
<1>. USE DEF QueryAnswers, server, client
<1>1. events' = events /\ Lines' = Lines
  BY DEF events, Lines
<1>2. TypeOK /\ query = "asked" /\ link = "open" /\ wire' = wire
  BY DEF IInv, ReplayIsAhead
<1>3. RowsAfter(resume) \subseteq {l \in stored : After(resume, l)}
  BY DEF RowsAfter, Newer
<1>4. /\ Len(log) \in Nat /\ Lines = 1 .. Len(log) /\ 1 .. heard \subseteq Lines
      /\ stored \subseteq Lines
  BY <1>2 DEF TypeOK, Lines
<1>5. ExcuseAtQuery \subseteq Lines
  BY <1>4 DEF ExcuseAtQuery
<1>6. TypeOK'
  BY <1>1, <1>2, <1>3, <1>5 DEF TypeOK
<1>7. ClockOrder' /\ CursorsNameLines' /\ Ordered'
  BY <1>1 DEF IInv, ClockOrder, CursorsNameLines, Ordered
<1>8. ReplayIsAhead'
  <2>1. \A l \in rows' : After(resume, l)'
    BY <1>3 DEF After
  <2>2. \A i \in DOMAIN wire : wire[i].live
    BY <1>2 DEF IInv, ReplayIsAhead
  <2>3. ASSUME NEW l \in rows', NEW i \in DOMAIN events, ~events[i].live
        PROVE  events[i].line < l
    <3>1. /\ After(resume, l) /\ l \in Lines /\ events[i].line <= resume.line
          /\ events[i].line \in Lines
      BY <1>2, <1>3, <1>4, <2>3 DEF IInv, ReplayIsAhead, CursorsNameLines
    <3>2. l \in Nat /\ events[i].line \in Nat /\ resume.line \in Nat
      BY <1>2, <1>4, <3>1, LiveTailAssumption DEF TypeOK, Cursors, NoCursor
    <3>3. resume.line < l
      <4>1. CASE ~resume.live
        BY <3>1, <3>2, <4>1 DEF After
      <4>2. CASE resume.live
        <5>1. resume # NoCursor /\ resume.line \in Lines
          BY <4>2, CursorFacts DEF NoCursor
        <5>2. log[l].ms > log[resume.line].ms
          BY <3>1, <4>2 DEF After
        <5>3. l <= resume.line => log[l].ms <= log[resume.line].ms
          BY <3>1, <5>1 DEF IInv, ClockOrder
        <5>4. log[l].ms \in Nat /\ log[resume.line].ms \in Nat
          BY <1>2, <3>1, <5>1, TimesAreNumbers
        <5>. QED BY <3>2, <5>2, <5>3, <5>4
      <4>. QED BY <4>1, <4>2
    <3>. QED BY <3>1, <3>2, <3>3
  <2>. QED BY <1>1, <1>2, <2>1, <2>2, <2>3 DEF ReplayIsAhead
<1>9. LiveFeed' /\ ReconnectDue'
  BY <1>1, <1>2 DEF IInv, LiveFeed, ReconnectDue
<1>10. ReplayDue'
  <2> SUFFICES ASSUME NEW l \in 1 .. heard
               PROVE  \/ Shows(l) \/ l \in excused' \/ l \in rows'
                      \/ \E i \in DOMAIN wire : ~wire[i].live /\ wire[i].line = l
    BY DEF ReplayDue, Shows
  <2>1. CASE Behind(resume, l)
    <3>1. l \in RowsAfter(resume) \/ l \in ExcuseAtQuery
      BY <2>1 DEF Behind, RowsAfter, Newer, ExcuseAtQuery
    <3>. QED BY <3>1
  <2>2. CASE ~Behind(resume, l)
    BY <1>2, <2>2 DEF IInv, ReplayDue, ReplayIsAhead
  <2>. QED BY <2>1, <2>2
<1>. QED BY <1>6, <1>7, <1>8, <1>9, <1>10 DEF IInv

LEMMA SendRowPreserves ==
  ASSUME IInv, query = "yielding", SendRow,
         UNCHANGED <<query, server, link, client, resume, heard, excused>>
  PROVE  IInv'
<1>. USE DEF server, client
<1>1. TypeOK /\ link = "open"
  BY DEF IInv, ReplayIsAhead
<1>2. /\ Len(log) \in Nat /\ Lines = 1 .. Len(log) /\ Lines' = Lines
      /\ stored \subseteq Lines /\ Lines \subseteq 1 .. MaxLines
  BY <1>1, LiveTailAssumption DEF TypeOK, Lines
<1>3. PICK l \in rows : /\ \A m \in rows : l <= m
                       /\ wire' = Append(wire, [line |-> l, live |-> FALSE])
                       /\ rows' = rows \ {l}
  BY DEF SendRow
<1>. DEFINE e == [line |-> l, live |-> FALSE]
<1>4. e \in Event /\ l \in Lines /\ rows \subseteq Lines
  BY <1>1, <1>2 DEF TypeOK, Event
<1>5. shown \in Seq(Event) /\ wire \in Seq(Event)
  BY <1>1 DEF TypeOK
<1>6. events' = Append(events, e)
  BY <1>3, <1>4, <1>5, EventsSent DEF events
<1>7. /\ DOMAIN wire' = 1 .. (Len(wire) + 1) /\ DOMAIN wire = 1 .. Len(wire)
      /\ Len(wire) \in Nat /\ wire' \in Seq(Event)
      /\ \A i \in DOMAIN wire : wire'[i] = wire[i]
      /\ wire'[Len(wire) + 1] = e
  BY <1>3, <1>4, <1>5, AppendFacts
<1>8. /\ DOMAIN events' = 1 .. (Len(events) + 1) /\ DOMAIN events = 1 .. Len(events)
      /\ Len(events) \in Nat
      /\ \A i \in DOMAIN events : events'[i] = events[i]
      /\ events'[Len(events) + 1] = e
  <2>1. events \in Seq(Event)
    BY <1>1, EventsFacts
  <2>. QED BY <1>4, <1>6, <2>1, AppendFacts
<1>9. \A i \in DOMAIN events' : i \in DOMAIN events \/ (i = Len(events) + 1 /\ events'[i] = e)
  BY <1>8
<1>10. \A i \in DOMAIN events : i \in DOMAIN events' /\ i < Len(events) + 1
  BY <1>8
<1>11. \A i \in DOMAIN wire' : i \in DOMAIN wire \/ wire'[i] = e
  BY <1>7
<1>12. (Len(wire) + 1) \in DOMAIN wire' /\ \A i \in DOMAIN wire : i \in DOMAIN wire'
  BY <1>7
<1>13. TypeOK'
  BY <1>1, <1>2, <1>3, <1>7 DEF TypeOK
<1>14. ClockOrder'
  BY <1>2 DEF IInv, ClockOrder
<1>15. CursorsNameLines'
  BY <1>2, <1>4, <1>8, <1>9 DEF IInv, CursorsNameLines
\* Every replayed event is older than the row.
<1>16. \A i \in DOMAIN events : ~events[i].live => events[i].line < l
  BY DEF IInv, ReplayIsAhead
<1>17. Ordered'
  <2> SUFFICES ASSUME NEW i \in DOMAIN events', NEW j \in DOMAIN events', i < j,
                      events'[j].live \/ ~events'[i].live
               PROVE  events'[i].line < events'[j].line
    BY DEF Ordered
  <2>1. i \in DOMAIN events
    BY <1>8, <1>9
  <2>2. CASE j \in DOMAIN events
    BY <1>8, <2>1, <2>2 DEF IInv, Ordered
  <2>3. CASE events'[j] = e
    BY <1>8, <1>16, <2>1, <2>3
  <2>. QED BY <1>9, <2>2, <2>3
<1>18. ReplayIsAhead'
  <2>1. \A m \in rows' : After(resume, m)'
    BY <1>3 DEF IInv, ReplayIsAhead, After
  <2>2. (\A i \in DOMAIN wire : ~wire[i].live => After(resume, wire[i].line))'
    <3> SUFFICES ASSUME NEW i \in DOMAIN wire', ~wire'[i].live
                 PROVE  After(resume, wire[i].line)'
      OBVIOUS
    <3>1. CASE i \in DOMAIN wire
      BY <1>7, <3>1 DEF IInv, ReplayIsAhead, After
    <3>2. CASE wire'[i] = e
      <4>1. After(resume, l)
        BY DEF IInv, ReplayIsAhead
      <4>. QED BY <3>2, <4>1 DEF After
    <3>. QED BY <1>11, <3>1, <3>2
  <2>3. ASSUME NEW m \in rows', NEW i \in DOMAIN events', ~events'[i].live
        PROVE  events'[i].line < m
    <3>1. m \in rows /\ m # l /\ l <= m /\ m \in Lines
      BY <1>3, <1>4
    <3>2. CASE i \in DOMAIN events
      BY <1>8, <2>3, <3>1, <3>2 DEF IInv, ReplayIsAhead
    <3>3. CASE events'[i] = e
      BY <1>2, <1>4, <3>1, <3>3
    <3>. QED BY <1>9, <3>2, <3>3
  <2>. QED BY <1>1, <2>1, <2>2, <2>3 DEF ReplayIsAhead
<1>19. LiveFeed'
  BY <1>2, <1>8, <1>10 DEF IInv, LiveFeed
<1>20. ReplayDue' /\ ReconnectDue'
  <2>1. \A m \in rows : m \in rows' \/ (~wire'[Len(wire) + 1].live /\ wire'[Len(wire) + 1].line = m)
    BY <1>3, <1>7
  <2>. QED BY <1>1, <1>7, <1>12, <2>1 DEF IInv, ReplayDue, ReconnectDue, Shows
<1>. QED
  BY <1>13, <1>14, <1>15, <1>17, <1>18, <1>19, <1>20 DEF IInv

LEMMA YieldRowPreserves == ASSUME IInv, YieldRow PROVE IInv'
<1>1. CASE SendRow /\ UNCHANGED query
  BY <1>1, SendRowPreserves DEF YieldRow
<1>2. CASE rows = {} /\ query' = "none" /\ UNCHANGED <<rows, wire>>
  <2>. USE <1>2 DEF YieldRow, server, client
  <2>1. events' = events /\ Lines' = Lines
    BY DEF events, Lines
  <2>2. TypeOK' /\ ClockOrder' /\ CursorsNameLines' /\ Ordered'
    BY <2>1 DEF IInv, TypeOK, ClockOrder, CursorsNameLines, Ordered
  <2>3. ReplayIsAhead'
    BY <2>1 DEF IInv, ReplayIsAhead, After
  <2>4. LiveFeed' /\ ReplayDue' /\ ReconnectDue'
    BY <2>1 DEF IInv, LiveFeed, ReplayDue, ReconnectDue, Shows, Behind, After, Tied
  <2>. QED BY <2>2, <2>3, <2>4 DEF IInv
<1>. QED BY <1>1, <1>2 DEF YieldRow

LEMMA DeliverPreserves == ASSUME IInv, Deliver PROVE IInv'
<1>. USE DEF Deliver, server
<1>1. TypeOK /\ link = "open" /\ wire # <<>>
  BY DEF IInv, ReplayIsAhead
<1>. DEFINE e == Head(wire)
<1>2. shown \in Seq(Event) /\ wire \in Seq(Event)
  BY <1>1 DEF TypeOK
<1>3. events' = events /\ Lines' = Lines
  BY <1>1, <1>2, EventsDelivered DEF events, Lines
<1>4. /\ e \in Event /\ e = wire[1] /\ Tail(wire) \in Seq(Event)
      /\ Len(wire) \in Nat /\ DOMAIN wire = 1 .. Len(wire) /\ 1 \in DOMAIN wire
      /\ DOMAIN Tail(wire) = 1 .. (Len(wire) - 1)
      /\ \A i \in DOMAIN Tail(wire) : Tail(wire)[i] = wire[i + 1]
  BY <1>1, <1>2, HeadTailProperties
<1>5. /\ shown' \in Seq(Event) /\ shown' # <<>> /\ Len(shown') = Len(shown) + 1
      /\ Len(shown) \in Nat /\ DOMAIN shown' = 1 .. (Len(shown) + 1)
      /\ DOMAIN shown = 1 .. Len(shown)
      /\ \A i \in DOMAIN shown : i \in DOMAIN shown' /\ shown'[i] = shown[i]
      /\ shown'[Len(shown) + 1] = e /\ Len(shown) + 1 \in DOMAIN shown'
  BY <1>2, <1>4, AppendFacts
<1>6. /\ \A i \in DOMAIN wire' : i + 1 \in DOMAIN wire /\ wire'[i] = wire[i + 1]
      /\ \A i \in DOMAIN wire : i # 1 => i - 1 \in DOMAIN wire' /\ wire'[i - 1] = wire[i]
  BY <1>4
<1>7. Len(shown) + 1 \in DOMAIN events /\ events[Len(shown) + 1] = e
  BY <1>1, <1>4, EventsFacts
<1>8. e.line \in Lines /\ e # NoCursor
  <2>1. e.line \in Lines
    BY <1>7 DEF IInv, CursorsNameLines
  <2>. QED BY <2>1 DEF NoCursor, Lines
<1>9. TypeOK'
  BY <1>1, <1>3, <1>4, <1>5 DEF TypeOK, Event, Cursors
<1>10. ClockOrder' /\ Ordered'
  BY <1>3 DEF IInv, ClockOrder, Ordered
<1>11. CursorsNameLines'
  <2>1. \A c \in {lastId', resume} : c \in Cursors => c.line \in Lines
    BY <1>8, CursorFacts
  <2>. QED BY <1>3, <1>5, <1>8, <2>1 DEF IInv, CursorsNameLines
<1>12. ReplayIsAhead'
  <2>1. (\A i \in DOMAIN wire : ~wire[i].live => After(resume, wire[i].line))'
    BY <1>6 DEF IInv, ReplayIsAhead, After
  <2>2. query = "asked" => lastId'.live /\ \A i \in DOMAIN wire' : wire'[i].live
    BY <1>4, <1>6 DEF IInv, ReplayIsAhead
  <2>3. \A l \in rows : After(resume, l)'
    BY DEF IInv, ReplayIsAhead, After
  <2>. QED BY <1>1, <1>3, <2>1, <2>2, <2>3 DEF IInv, ReplayIsAhead
<1>13. LiveFeed'
  BY <1>3 DEF IInv, LiveFeed
<1>14. \A l \in Lines : Shows(l) => Shows(l)'
  BY <1>5 DEF Shows
<1>15. ReplayDue' /\ ReconnectDue'
  <2> SUFFICES ASSUME NEW l \in 1 .. heard
               PROVE  \/ Shows(l)' \/ l \in excused \/ l \in rows
                      \/ \E i \in DOMAIN wire' : ~wire'[i].live /\ wire'[i].line = l
                      \/ query = "asked" /\ Behind(resume, l)
    BY <1>1 DEF ReplayDue, ReconnectDue, Behind, After, Tied
  <2>0. l \in Lines
    BY <1>1 DEF TypeOK, Lines
  <2>1. CASE \E i \in DOMAIN wire : ~wire[i].live /\ wire[i].line = l
    <3>1. PICK i \in DOMAIN wire : ~wire[i].live /\ wire[i].line = l
      BY <2>1
    <3>2. CASE i = 1
      BY <1>4, <1>5, <3>1, <3>2 DEF Shows
    <3>3. CASE i # 1
      BY <1>6, <3>1, <3>3
    <3>. QED BY <3>2, <3>3
  <2>2. CASE Shows(l)
    BY <1>14, <2>0, <2>2
  <2>. QED BY <1>1, <2>1, <2>2 DEF IInv, ReplayDue
<1>. QED
  BY <1>9, <1>10, <1>11, <1>12, <1>13, <1>15 DEF IInv

\* A keep-alive changes nothing but Last-Event-ID, of which an open connection has no need.
LEMMA KeepAlivePreserves == ASSUME IInv, KeepAlive PROVE IInv'
<1>. USE DEF KeepAlive, server, stream
<1>1. events' = events /\ Lines' = Lines /\ TypeOK
  BY DEF events, Lines, IInv
<1>2. TypeOK' /\ ClockOrder' /\ Ordered'
  BY <1>1 DEF IInv, TypeOK, ClockOrder, Ordered
<1>3. CursorsNameLines'
  BY <1>1, CursorFacts DEF IInv, CursorsNameLines
<1>4. ReplayIsAhead'
  BY <1>1, CursorFacts DEF IInv, ReplayIsAhead, After
<1>5. LiveFeed' /\ ReplayDue' /\ ReconnectDue'
  BY <1>1 DEF IInv, LiveFeed, ReplayDue, ReconnectDue, Shows, Behind, After, Tied
<1>. QED BY <1>2, <1>3, <1>4, <1>5 DEF IInv

(***************************************************************************)
(* The connection ends: it breaks, is refused, idles out or is replaced.   *)
(***************************************************************************)

LEMMA HangUpKeeps ==
  ASSUME IInv, NEW state \in {"connecting", "closed"}, HangUp(state),
         UNCHANGED <<server, client>>, excused' \subseteq Lines
  PROVE  TypeOK' /\ ClockOrder' /\ CursorsNameLines' /\ Ordered' /\ ReplayIsAhead'
         /\ LiveFeed' /\ ReplayDue'
<1>. USE DEF HangUp, server, client
<1>1. TypeOK /\ Lines' = Lines /\ Lines = 1 .. Len(log) /\ Len(log) \in Nat
  BY TimesAreNumbers DEF IInv, Lines
<1>2. /\ DOMAIN events' = DOMAIN shown
      /\ \A i \in DOMAIN shown : events'[i] = shown[i] /\ i \in DOMAIN events /\ events[i] = shown[i]
  <2>1. shown \in Seq(Event)
    BY <1>1 DEF TypeOK
  <2>2. events' = shown
    BY <2>1, ConcatEmptySeq DEF events
  <2>. QED BY <1>1, <2>2, EventsFacts
<1>3. TypeOK'
  BY <1>1 DEF TypeOK
<1>4. ClockOrder'
  BY <1>1 DEF IInv, ClockOrder
<1>5. CursorsNameLines'
  <2>1. \A c \in {lastId, resume'} : c \in Cursors => c.line \in Lines
    BY CursorFacts
  <2>. QED BY <1>1, <1>2, <2>1 DEF IInv, CursorsNameLines
<1>6. Ordered'
  BY <1>2 DEF IInv, Ordered
<1>7. ReplayIsAhead' /\ LiveFeed' /\ ReplayDue'
  BY DEF ReplayIsAhead, LiveFeed, ReplayDue
<1>. QED BY <1>3, <1>4, <1>5, <1>6, <1>7

\* What the connection still owed is shown, excused, or behind the last event.
LEMMA OwedIsBehind ==
  ASSUME IInv, link = "open", NEW l \in Lines
  PROVE  lastId = PingId \/ Shows(l) \/ l \in excused \cup ExcuseAtDrop \/ Behind(lastId, l)
<1>. SUFFICES ASSUME lastId # PingId
              PROVE  Shows(l) \/ l \in excused \cup ExcuseAtDrop \/ Behind(lastId, l)
  OBVIOUS
<1>1. /\ TypeOK /\ Lines = 1 .. Len(log) /\ Len(log) \in Nat /\ heard \in Nat
  BY TimesAreNumbers DEF IInv, TypeOK
<1>2. /\ lastId \in Cursors \cup {NoCursor} /\ (lastId # NoCursor => lastId.line \in Lines)
      /\ resume \in Cursors \cup {NoCursor}
      /\ lastId = IF shown = <<>> THEN NoCursor ELSE shown[Len(shown)]
  BY CursorFacts DEF IInv, CursorsNameLines
\* An event on the wire comes after the last event.
<1>3. ASSUME NEW j \in DOMAIN wire, wire[j].line = l, wire[j].live \/ ~lastId.live
      PROVE  Behind(lastId, l)
  <2>1. CASE shown = <<>>
    BY <1>1, <1>2, <2>1 DEF Behind, After, NoCursor
  <2>2. CASE shown # <<>>
    <3>1. /\ Len(shown) \in DOMAIN events /\ Len(shown) + j \in DOMAIN events
          /\ Len(shown) < Len(shown) + j
          /\ events[Len(shown)] = lastId /\ events[Len(shown) + j] = wire[j]
      BY <1>1, <1>2, <2>2, EventsFacts
    <3>2. lastId.line < l
      BY <1>3, <3>1 DEF IInv, Ordered
    <3>. QED BY <1>2, <3>2, NewLineIsBehind
  <2>. QED BY <2>1, <2>2
\* What the replay still has to send is behind its cursor.
<1>4. ASSUME Replaying, l <= heard, Behind(resume, l), lastId = resume \/ lastId.live
      PROVE  l \in ExcuseAtDrop \/ Behind(lastId, l)
  <2>1. CASE lastId = resume
    BY <1>4, <2>1
  <2>2. CASE lastId # resume
    <3>1. l \in 1 .. heard /\ lastId.live
      BY <1>1, <1>4, <2>2
    <3>2. lastId \in Cursors
      BY <1>2, <3>1 DEF NoCursor
    <3>. QED BY <1>4, <2>2, <3>1, <3>2 DEF ExcuseAtDrop, Behind
  <2>. QED BY <2>1, <2>2
<1>5. CASE l > heard
  <2>1. PICK i \in DOMAIN events : events[i] = [line |-> l, live |-> TRUE]
    BY <1>5 DEF IInv, LiveFeed
  <2>2. CASE i \in DOMAIN shown /\ events[i] = shown[i]
    BY <2>1, <2>2 DEF Shows
  <2>3. CASE \E j \in DOMAIN wire : i = Len(shown) + j /\ events[i] = wire[j]
    BY <1>3, <2>1, <2>3
  <2>. QED BY <1>1, <2>2, <2>3, EventsSplit
<1>6. CASE l <= heard
  <2>1. l \in 1 .. heard
    BY <1>1, <1>6
  <2>2. CASE \E i \in DOMAIN wire : ~wire[i].live /\ wire[i].line = l
    <3>1. PICK i \in DOMAIN wire : ~wire[i].live /\ wire[i].line = l
      BY <2>2
    <3>2. Replaying /\ Behind(resume, l)
      BY <3>1 DEF IInv, ReplayIsAhead, Replaying, Behind
    <3>. QED BY <1>3, <1>4, <1>6, <3>1, <3>2
  <2>3. CASE l \in rows
    <3>1. Replaying /\ Behind(resume, l)
      BY <2>3 DEF IInv, ReplayIsAhead, Replaying, Behind
    <3>2. CASE lastId.live
      BY <1>4, <1>6, <3>1, <3>2
    <3>3. CASE ~lastId.live
      <4>1. CASE shown = <<>>
        BY <1>1, <1>2, <4>1 DEF Behind, After, NoCursor
      <4>2. CASE shown # <<>>
        <5>1. Len(shown) \in DOMAIN events /\ events[Len(shown)] = lastId
          BY <1>1, <1>2, <4>2, EventsFacts
        <5>2. lastId.line < l
          BY <2>3, <3>3, <5>1 DEF IInv, ReplayIsAhead
        <5>. QED BY <1>2, <5>2, NewLineIsBehind
      <4>. QED BY <4>1, <4>2
    <3>. QED BY <3>2, <3>3
  <2>4. CASE query = "asked" /\ Behind(resume, l)
    <3>1. Replaying /\ (lastId.live \/ lastId = resume)
      BY <2>4 DEF IInv, ReplayIsAhead, Replaying
    <3>. QED BY <1>4, <1>6, <2>4, <3>1
  <2>. QED BY <2>1, <2>2, <2>3, <2>4 DEF IInv, ReplayDue
<1>. QED BY <1>1, <1>5, <1>6

LEMMA DropPreserves == ASSUME IInv, Drop PROVE IInv'
<1>1. /\ HangUp("connecting") /\ UNCHANGED <<server, client>> /\ link = "open"
      /\ excused' = excused \cup ExcuseAtDrop
  BY DEF Drop
<1>2. excused' \subseteq Lines
  <2>1. excused \subseteq Lines /\ 1 .. heard \subseteq Lines
    BY DEF IInv, TypeOK, Lines
  <2>2. ExcuseAtDrop \subseteq 1 .. heard
    BY DEF ExcuseAtDrop
  <2>. QED BY <1>1, <2>1, <2>2
<1>3. ReconnectDue'
  BY <1>1, OwedIsBehind
  DEF ReconnectDue, Shows, Behind, After, Tied, Lines, server, client
<1>. QED BY <1>1, <1>2, <1>3, HangUpKeeps DEF IInv

LEMMA ClosePreserves == ASSUME IInv, Refuse \/ IdleStop PROVE IInv'
<1>1. HangUp("closed") /\ UNCHANGED <<server, client, excused>>
  BY DEF Refuse, IdleStop
<1>2. excused' \subseteq Lines
  BY <1>1 DEF IInv, TypeOK
<1>3. ReconnectDue'
  BY <1>1 DEF ReconnectDue, HangUp
<1>. QED BY <1>1, <1>2, <1>3, HangUpKeeps DEF IInv

LEMMA ResubscribePreserves == ASSUME IInv, Resubscribe PROVE IInv'
<1>. USE DEF Resubscribe, HangUp, server
<1>1. TypeOK /\ Lines' = Lines /\ NoCursor \notin Cursors
  BY CursorFacts DEF IInv, Lines
<1>2. events' = <<>>
  BY DEF events
<1>3. TypeOK'
  BY <1>1 DEF TypeOK
<1>4. ClockOrder'
  BY <1>1 DEF IInv, ClockOrder
<1>5. CursorsNameLines' /\ Ordered'
  BY <1>1, <1>2 DEF CursorsNameLines, Ordered
<1>6. ReplayIsAhead' /\ LiveFeed' /\ ReplayDue' /\ ReconnectDue'
  BY <1>1 DEF ReplayIsAhead, LiveFeed, ReplayDue, ReconnectDue
<1>. QED BY <1>3, <1>4, <1>5, <1>6 DEF IInv

(***************************************************************************)
(* The initial state and the step.                                         *)
(***************************************************************************)
LEMMA InitHolds == ASSUME Init PROVE IInv
<1>. USE DEF Init
<1>1. TypeOK /\ Lines = {}
  BY LiveTailAssumption DEF TypeOK, Lines, NoCursor
<1>2. events = <<>> /\ DOMAIN events = {}
  BY DEF events
<1>3. ClockOrder /\ Ordered
  BY <1>1, <1>2 DEF ClockOrder, Ordered
<1>4. CursorsNameLines
  <2>1. NoCursor \notin Cursors
    BY LiveTailAssumption DEF NoCursor, Cursors
  <2>. QED BY <1>2, <2>1 DEF CursorsNameLines
<1>5. ReplayIsAhead
  BY <1>2 DEF ReplayIsAhead
<1>6. LiveFeed /\ ReplayDue /\ ReconnectDue
  BY <1>1 DEF LiveFeed, ReplayDue, ReconnectDue
<1>. QED BY <1>1, <1>3, <1>4, <1>5, <1>6 DEF IInv

LEMMA NextPreserves == ASSUME IInv, [Next]_vars PROVE IInv'
<1>1. ASSUME NEW durable \in BOOLEAN, Write(durable) PROVE IInv'
  BY <1>1, WritePreserves
<1>2. ASSUME NEW n \in 1 .. MaxLines, FlushBatch(n) PROVE IInv'
  BY <1>2, FlushPreserves
<1>3. CASE ClockTick
  BY <1>3, TickPreserves
<1>4. CASE Connect
  BY <1>4, ConnectPreserves
<1>5. CASE QueryAnswers
  BY <1>5, QueryAnswersPreserves
<1>6. CASE YieldRow
  BY <1>6, YieldRowPreserves
<1>7. CASE Deliver
  BY <1>7, DeliverPreserves
<1>8. CASE Drop
  BY <1>8, DropPreserves
<1>9. CASE Refuse \/ IdleStop
  BY <1>9, ClosePreserves
<1>10. CASE Resubscribe
  BY <1>10, ResubscribePreserves
<1>11. CASE KeepAlive
  BY <1>11, KeepAlivePreserves
<1>12. CASE UNCHANGED vars
  <2>. USE <1>12 DEF vars, server, client, stream
  <2>1. events' = events /\ Lines' = Lines
    BY DEF events, Lines
  <2>2. TypeOK' /\ ClockOrder' /\ CursorsNameLines' /\ Ordered'
    BY <2>1 DEF IInv, TypeOK, ClockOrder, CursorsNameLines, Ordered
  <2>3. ReplayIsAhead' /\ LiveFeed' /\ ReplayDue' /\ ReconnectDue'
    BY <2>1 DEF IInv, ReplayIsAhead, LiveFeed, ReplayDue, ReconnectDue, Shows, Behind, After, Tied
  <2>. QED BY <2>2, <2>3 DEF IInv
<1>. QED
  BY <1>1, <1>2, <1>3, <1>4, <1>5, <1>6, <1>7, <1>8, <1>9, <1>10, <1>11,
     <1>12 DEF Next

(***************************************************************************)
(* The results.                                                            *)
(***************************************************************************)

(* The parts of IInv hold together in every state of the live tail         *)
(* (LogsSseController.stream and the EventSource that follows it).         *)
THEOREM LiveTailInvariant == Spec => []IInv
<1>1. Init => IInv
  BY InitHolds
<1>2. IInv /\ [Next]_vars => IInv'
  BY NextPreserves
<1>. QED BY <1>1, <1>2, PTL DEF Spec

(* Every variable of the live tail keeps its declared set, whatever the    *)
(* number of lines, the clock and the replay query's limit.                *)
THEOREM LiveTailTypeCorrect == Spec => []TypeOK
<1>1. IInv => TypeOK
  BY DEF IInv
<1>. QED BY <1>1, LiveTailInvariant, PTL

(* The rows that came by replay, over all the tail's connections, are in   *)
(* the order they were written and none came twice; so are those that came *)
(* live (fetchSince's keyset and orderBy, and the order of publish).       *)
THEOREM LiveTailOrderedPerSource == Spec => []OrderedPerSource
<1>1. ASSUME IInv PROVE OrderedPerSource
  <2>1. ASSUME NEW i \in DOMAIN shown, NEW j \in DOMAIN shown,
               i < j, shown[i].live = shown[j].live
        PROVE  shown[i].line < shown[j].line
    <3>1. /\ i \in DOMAIN events /\ events[i] = shown[i]
          /\ j \in DOMAIN events /\ events[j] = shown[j]
      BY <1>1, EventsFacts DEF IInv
    <3>2. shown[j].live \/ ~shown[i].live
      <4>1. shown \in Seq(Event) /\ DOMAIN shown = 1 .. Len(shown)
        BY <1>1, EventsFacts DEF IInv, TypeOK
      <4>2. shown[i] \in Event /\ shown[j] \in Event
        BY <4>1, ElementOfSeq
      <4>. QED BY <2>1, <4>2 DEF Event
    <3>. QED BY <1>1, <2>1, <3>1, <3>2 DEF IInv, Ordered
  <2>. QED BY <2>1 DEF OrderedPerSource
<1>2. IInv => OrderedPerSource
  BY <1>1
<1>. QED BY <1>2, LiveTailInvariant, PTL

(* A tail that has settled, after any number of breaks and reconnects,     *)
(* shows every line written since it was opened or has an excuse for it,    *)
(* a keep-alive that was the last event before a break among them:         *)
(* the merge of replaySince and the live feed in LogsSseController.stream  *)
(* loses no line for any other reason.                                     *)
THEOREM LiveTailMissesAreExplained == Spec => []MissesAreExplained
<1>1. ASSUME IInv, Settled, NEW l \in Lines PROVE Shows(l) \/ l \in excused
  <2>1. /\ TypeOK /\ link = "open" /\ query = "none" /\ wire = <<>> /\ rows = {}
        /\ DOMAIN wire = {} /\ heard \in Nat /\ l \in Nat /\ 1 <= l
    BY <1>1 DEF IInv, Settled, ReplayIsAhead, TypeOK, Lines
  <2>2. CASE l > heard
    <3>1. PICK i \in DOMAIN events : events[i] = [line |-> l, live |-> TRUE]
      BY <1>1, <2>1, <2>2 DEF IInv, LiveFeed
    <3>2. i \in DOMAIN shown /\ shown[i] = events[i]
      BY <2>1, EventsSplit
    <3>. QED BY <3>1, <3>2 DEF Shows
  <2>3. CASE ~(l > heard)
    <3>1. l \in 1 .. heard
      BY <2>1, <2>3
    <3>. QED BY <1>1, <2>1, <3>1 DEF IInv, ReplayDue
  <2>. QED BY <2>2, <2>3
<1>2. IInv => MissesAreExplained
  BY <1>1 DEF MissesAreExplained
<1>. QED BY <1>2, LiveTailInvariant, PTL
=============================================================================
