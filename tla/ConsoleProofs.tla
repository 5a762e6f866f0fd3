----------------------------- MODULE ConsoleProofs ---------------------------
(***************************************************************************)
(* Theorems about the views that read - the live tail, the list over Loki, *)
(* the Trigger Center, the Overview - and about the console as a whole: a  *)
(* behaviour of the console is, for each of its views, a behaviour of that *)
(* view, so what is invariant of a view is invariant of the console.       *)
(***************************************************************************)
EXTENDS PanelProofs

(***************************************************************************)
(* The live tail's view.                                                   *)
(***************************************************************************)

\* Rows and batch of a tail that is on are the end of what was received, which is
\* all for the URL of this render.
StreamWindow ==
  enabled =>
    /\ \A k \in DOMAIN received : received[k].url = tailUrl
    /\ Len(tailRows) + Len(pending) <= Len(received)
    /\ \A k \in 1 .. Len(tailRows) :
         tailRows[k] = received[Len(received) - Len(pending) - Len(tailRows) + k]
    /\ \A k \in 1 .. Len(pending) :
         pending[k] = received[Len(received) - Len(pending) + k]
    /\ Len(tailRows) <= BUFFER_CAPACITY
    /\ Len(tailRows) < BUFFER_CAPACITY => Len(tailRows) + Len(pending) = Len(received)

\* The badge counts from where the reader stopped, which is here while he follows.
StreamBadge ==
  /\ buffer = tailRows /\ prevCount = Len(tailRows)
  /\ ~Stream!paused => newCount = 0 /\ seenAt = Len(tailRows)
  /\ Stream!paused /\ ~disturbed => newCount = Len(tailRows) - seenAt

StreamOff == ~enabled => source = "closed"

StreamInv == Stream!TypeOK /\ StreamWindow /\ StreamBadge /\ StreamOff

LEMMA LastsAreTheEnd ==
  ASSUME NEW S, NEW s \in Seq(S), NEW n \in 0 .. Len(s)
  PROVE  /\ Stream!Lasts(s, n) \in Seq(S) /\ Len(Stream!Lasts(s, n)) = n
         /\ \A k \in 1 .. n : Stream!Lasts(s, n)[k] = s[Len(s) - n + k]
<1>1. Len(s) \in Nat /\ Len(s) - n + 1 \in 1 .. Len(s) + 1
  OBVIOUS
<1>2. \A k \in Len(s) - n + 1 .. Len(s) : s[k] \in S
  OBVIOUS
<1>3. SubSeq(s, Len(s) - n + 1, Len(s)) \in Seq(S)
  BY <1>1, <1>2, SubSeqProperties
<1>. QED BY <1>1, <1>3, SubSeqProperties DEF Stream!Lasts

\* A batch is pushed: the newest rows of buffer and batch are left.
LEMMA PushKeepsTheEnd ==
  ASSUME NEW S, NEW buf \in Seq(S), NEW items \in Seq(S)
  PROVE  LET all == buf \o items
             kept == Stream!pushMany(buf, items)
         IN  /\ all \in Seq(S) /\ Len(all) = Len(buf) + Len(items)
             /\ kept \in Seq(S) /\ Len(kept) <= Len(all)
             /\ Len(kept) <= BUFFER_CAPACITY
             /\ Len(kept) < BUFFER_CAPACITY => Len(kept) = Len(all)
             /\ Len(all) <= BUFFER_CAPACITY => Len(kept) = Len(all)
             /\ \A k \in 1 .. Len(kept) : kept[k] = all[Len(all) - Len(kept) + k]
<1>. DEFINE all == buf \o items
            kept == Stream!pushMany(buf, items)
<1>1. all \in Seq(S) /\ Len(all) = Len(buf) + Len(items) /\ Len(all) \in Nat
  OBVIOUS
<1>2. CASE Len(all) > BUFFER_CAPACITY
  <2>1. BUFFER_CAPACITY \in 0 .. Len(all) /\ kept = Stream!Lasts(all, BUFFER_CAPACITY)
    BY <1>1, <1>2, TailBufferAssumption DEF Stream!pushMany
  <2>. HIDE DEF all, kept
  <2>2. /\ kept \in Seq(S) /\ Len(kept) = BUFFER_CAPACITY
        /\ \A k \in 1 .. BUFFER_CAPACITY : kept[k] = all[Len(all) - BUFFER_CAPACITY + k]
    BY <1>1, <2>1, LastsAreTheEnd
  <2>3. Len(kept) <= Len(all) /\ Len(kept) <= BUFFER_CAPACITY
    BY <1>1, <1>2, <2>2, TailBufferAssumption
  <2>. QED BY <1>1, <1>2, <2>2, <2>3, TailBufferAssumption DEF all, kept
<1>3. CASE ~(Len(all) > BUFFER_CAPACITY)
  <2>1. kept = all
    BY <1>3 DEF Stream!pushMany
  <2>. QED BY <1>1, <1>3, <2>1, TailBufferAssumption
<1>. QED BY <1>2, <1>3

\* Rows and batch together are the end of what was received.
LEMMA RowsAndBatchAreTheEnd ==
  ASSUME StreamInv, enabled
  PROVE  LET all == tailRows \o pending
         IN  /\ all \in Seq(Stream!Line) /\ Len(all) = Len(tailRows) + Len(pending)
             /\ Len(all) \in 0 .. Len(received)
             /\ \A k \in 1 .. Len(all) : all[k] = received[Len(received) - Len(all) + k]
<1>. DEFINE all == tailRows \o pending
<1>1. /\ pending \in Seq(Stream!Line) /\ received \in Seq(Stream!Line)
      /\ tailRows \in Seq(Stream!Line)
      /\ Len(pending) \in Nat /\ Len(received) \in Nat /\ Len(tailRows) \in Nat
  BY DEF StreamInv, Stream!TypeOK
<1>2. /\ all \in Seq(Stream!Line) /\ Len(all) = Len(tailRows) + Len(pending)
      /\ \A k \in 1 .. Len(all) :
           all[k] = IF k <= Len(tailRows) THEN tailRows[k] ELSE pending[k - Len(tailRows)]
  BY <1>1
<1>. HIDE DEF all
<1>3. /\ Len(tailRows) + Len(pending) <= Len(received)
      /\ \A k \in 1 .. Len(tailRows) :
           tailRows[k] = received[Len(received) - Len(pending) - Len(tailRows) + k]
      /\ \A k \in 1 .. Len(pending) :
           pending[k] = received[Len(received) - Len(pending) + k]
  BY DEF StreamInv, StreamWindow
<1>4. Len(all) \in 0 .. Len(received)
  BY <1>1, <1>2, <1>3
<1>5. ASSUME NEW k \in 1 .. Len(all) PROVE all[k] = received[Len(received) - Len(all) + k]
  <2>1. CASE k <= Len(tailRows)
    <3>1. k \in 1 .. Len(tailRows) /\ all[k] = tailRows[k]
      BY <1>1, <1>2, <2>1
    <3>2. Len(received) - Len(pending) - Len(tailRows) + k = Len(received) - Len(all) + k
      BY <1>1, <1>2
    <3>. QED BY <1>3, <3>1, <3>2
  <2>2. CASE ~(k <= Len(tailRows))
    <3>1. k - Len(tailRows) \in 1 .. Len(pending) /\ all[k] = pending[k - Len(tailRows)]
      BY <1>1, <1>2, <2>2
    <3>2. Len(received) - Len(pending) + (k - Len(tailRows)) = Len(received) - Len(all) + k
      BY <1>1, <1>2
    <3>. QED BY <1>3, <3>1, <3>2
  <2>. QED BY <2>1, <2>2
<1>. QED BY <1>2, <1>4, <1>5 DEF all

LEMMA StreamMessagePreserves == ASSUME StreamInv, Stream!onmessage PROVE StreamInv'
<1>. DEFINE line == [n |-> tailLines + 1, url |-> tailUrl]
<1>1. /\ pending' = Append(pending, line) /\ received' = Append(received, line)
      /\ source = "open" /\ tailLines < MaxLines /\ tailLines' = tailLines + 1
      /\ raf' = TRUE
      /\ UNCHANGED <<tailUrl, enabled, source, failed, buffer, tailRows, tailPinned,
                     explicitPause, newCount, prevCount, seenAt, disturbed, tailRestarts>>
  BY DEF Stream!onmessage, Stream!follow
<1>2. line \in Stream!Line /\ tailLines' \in 0 .. MaxLines
  BY <1>1, StreamAssumption DEF StreamInv, Stream!TypeOK, Stream!Line
<1>. HIDE DEF line
<1>3. /\ pending \in Seq(Stream!Line) /\ received \in Seq(Stream!Line)
      /\ tailRows \in Seq(Stream!Line)
      /\ Len(pending) \in Nat /\ Len(received) \in Nat /\ Len(tailRows) \in Nat
  BY DEF StreamInv, Stream!TypeOK
<1>4. /\ pending' \in Seq(Stream!Line) /\ received' \in Seq(Stream!Line)
      /\ Len(pending') = Len(pending) + 1 /\ Len(received') = Len(received) + 1
      /\ \A k \in 1 .. Len(pending) : pending'[k] = pending[k]
      /\ \A k \in 1 .. Len(received) : received'[k] = received[k]
      /\ pending'[Len(pending) + 1] = line /\ received'[Len(received) + 1] = line
  BY <1>1, <1>2, <1>3
<1>5. Stream!TypeOK'
  BY <1>1, <1>2, <1>4 DEF StreamInv, Stream!TypeOK
<1>6. StreamWindow'
  <2>. SUFFICES ASSUME enabled PROVE StreamWindow'
    BY <1>1 DEF StreamWindow
  <2>1. line.url = tailUrl
    BY DEF line
  <2>2. \A k \in DOMAIN received' : received'[k].url = tailUrl'
    BY <1>1, <1>3, <1>4, <2>1 DEF StreamInv, StreamWindow
  <2>3. \A k \in 1 .. Len(tailRows') :
          tailRows'[k] = received'[Len(received') - Len(pending') - Len(tailRows') + k]
    BY <1>1, <1>3, <1>4 DEF StreamInv, StreamWindow
  <2>4. \A k \in 1 .. Len(pending') :
          pending'[k] = received'[Len(received') - Len(pending') + k]
    <3>. TAKE k \in 1 .. Len(pending')
    <3>1. CASE k = Len(pending) + 1
      BY <1>3, <1>4, <3>1
    <3>2. CASE k \in 1 .. Len(pending)
      <4>1. Len(received) - Len(pending) + k \in 1 .. Len(received)
        BY <1>3, <3>2 DEF StreamInv, StreamWindow
      <4>2. pending[k] = received[Len(received) - Len(pending) + k]
        BY <3>2 DEF StreamInv, StreamWindow
      <4>3. Len(received') - Len(pending') + k = Len(received) - Len(pending) + k
        BY <1>3, <1>4, <3>2
      <4>4. received'[Len(received) - Len(pending) + k] = received[Len(received) - Len(pending) + k]
        BY <1>4, <4>1
      <4>. QED BY <1>4, <3>2, <4>2, <4>3, <4>4
    <3>. QED BY <1>3, <1>4, <3>1, <3>2
  <2>5. /\ Len(tailRows') + Len(pending') <= Len(received')
        /\ Len(tailRows') <= BUFFER_CAPACITY
        /\ Len(tailRows') < BUFFER_CAPACITY => Len(tailRows') + Len(pending') = Len(received')
    <3>1. /\ Len(tailRows) + Len(pending) <= Len(received)
          /\ Len(tailRows) <= BUFFER_CAPACITY
          /\ Len(tailRows) < BUFFER_CAPACITY => Len(tailRows) + Len(pending) = Len(received)
      BY DEF StreamInv, StreamWindow
    <3>2. tailRows' = tailRows
      BY <1>1
    <3>. QED BY <1>3, <1>4, <3>1, <3>2
  <2>. QED BY <1>1, <2>2, <2>3, <2>4, <2>5 DEF StreamWindow
<1>7. StreamBadge' /\ StreamOff'
  BY <1>1 DEF StreamInv, StreamBadge, StreamOff, Stream!paused
<1>. QED BY <1>5, <1>6, <1>7 DEF StreamInv

\* The rows are `kept`, the end of the old rows and the batch.
LEMMA StreamFramePreserves == ASSUME StreamInv, Stream!frame PROVE StreamInv'
<1>1. /\ tailRows' = Stream!pushMany(tailRows, pending) /\ buffer' = tailRows'
      /\ pending' = <<>> /\ raf' = FALSE
      /\ prevCount' = Len(tailRows')
      /\ newCount' = IF Len(tailRows') - prevCount > 0 /\ Stream!paused
                     THEN newCount + (Len(tailRows') - prevCount) ELSE newCount
      /\ seenAt' = IF Stream!paused THEN seenAt ELSE Len(tailRows')
      /\ disturbed' = (disturbed \/ Len(tailRows) + Len(pending) > BUFFER_CAPACITY)
      /\ UNCHANGED <<tailUrl, enabled, source, failed, tailPinned, explicitPause,
                     received, tailLines, tailRestarts>>
  BY DEF Stream!frame, Stream!Follow, StreamInv, StreamBadge
<1>2. /\ pending \in Seq(Stream!Line) /\ received \in Seq(Stream!Line)
      /\ tailRows \in Seq(Stream!Line)
  BY DEF StreamInv, Stream!TypeOK
<1>. DEFINE all == tailRows \o pending
<1>3. /\ all \in Seq(Stream!Line) /\ Len(all) = Len(tailRows) + Len(pending)
      /\ tailRows' \in Seq(Stream!Line) /\ Len(tailRows') <= Len(all)
      /\ Len(tailRows') <= BUFFER_CAPACITY
      /\ Len(tailRows') < BUFFER_CAPACITY => Len(tailRows') = Len(all)
      /\ Len(all) <= BUFFER_CAPACITY => Len(tailRows') = Len(all)
      /\ \A k \in 1 .. Len(tailRows') : tailRows'[k] = all[Len(all) - Len(tailRows') + k]
  <2>. DEFINE kept == Stream!pushMany(tailRows, pending)
  <2>1. /\ all \in Seq(Stream!Line) /\ Len(all) = Len(tailRows) + Len(pending)
        /\ kept \in Seq(Stream!Line) /\ Len(kept) <= Len(all)
        /\ Len(kept) <= BUFFER_CAPACITY
        /\ Len(kept) < BUFFER_CAPACITY => Len(kept) = Len(all)
        /\ Len(all) <= BUFFER_CAPACITY => Len(kept) = Len(all)
        /\ \A k \in 1 .. Len(kept) : kept[k] = all[Len(all) - Len(kept) + k]
    BY <1>2, PushKeepsTheEnd
  <2>2. tailRows' = kept
    BY <1>1
  <2>. HIDE DEF all, kept
  <2>. QED BY <2>1, <2>2
<1>4. /\ pending' \in Seq(Stream!Line) /\ Len(pending') = 0
      /\ Len(tailRows') \in Nat /\ Len(tailRows) \in Nat /\ Len(pending) \in Nat
  BY <1>1, <1>2, <1>3
<1>. HIDE DEF all
<1>6. newCount' \in Nat /\ seenAt' \in Nat /\ prevCount' \in Nat /\ disturbed' \in BOOLEAN
  BY <1>1, <1>4 DEF StreamInv, Stream!TypeOK
<1>7. Stream!TypeOK'
  BY <1>1, <1>3, <1>4, <1>6 DEF StreamInv, Stream!TypeOK
<1>8. StreamWindow'
  <2>. SUFFICES ASSUME enabled PROVE StreamWindow'
    BY <1>1 DEF StreamWindow
  <2>1. /\ Len(all) \in 0 .. Len(received)
        /\ \A k \in 1 .. Len(all) : all[k] = received[Len(received) - Len(all) + k]
    BY RowsAndBatchAreTheEnd DEF all
  <2>2. \A k \in 1 .. Len(tailRows') :
          tailRows'[k] = received[Len(received) - Len(tailRows') + k]
    <3>. TAKE k \in 1 .. Len(tailRows')
    <3>1. Len(all) - Len(tailRows') + k \in 1 .. Len(all)
      BY <1>3, <1>4
    <3>2. tailRows'[k] = all[Len(all) - Len(tailRows') + k]
      BY <1>3
    <3>3. PICK m \in 1 .. Len(all) : m = Len(all) - Len(tailRows') + k
      BY <3>1
    <3>4. all[m] = received[Len(received) - Len(all) + m]
      BY <2>1
    <3>5. Len(received) \in Nat /\ Len(all) \in Nat /\ Len(tailRows') \in Nat /\ k \in Nat
      BY <1>4, <2>1 DEF StreamInv, Stream!TypeOK
    <3>6. Len(received) - Len(all) + m = Len(received) - Len(tailRows') + k
      BY <3>3, <3>5
    <3>. QED BY <3>2, <3>3, <3>4, <3>6
  <2>3. Len(tailRows') + Len(pending') <= Len(received)
    BY <1>2, <1>3, <1>4 DEF StreamInv, StreamWindow
  <2>4. Len(tailRows') < BUFFER_CAPACITY => Len(tailRows') = Len(received)
    BY <1>2, <1>3, <1>4, TailBufferAssumption DEF StreamInv, StreamWindow
  <2>5. \A k \in DOMAIN received : received[k].url = tailUrl
    BY DEF StreamInv, StreamWindow
  <2>. QED BY <1>1, <1>2, <1>3, <1>4, <2>2, <2>3, <2>4, <2>5 DEF StreamWindow
<1>9. StreamBadge' /\ StreamOff'
  <2>1. StreamOff'
    BY <1>1 DEF StreamInv, StreamOff
  <2>2. Stream!paused' <=> Stream!paused
    BY <1>1 DEF Stream!paused
  <2>3. /\ prevCount = Len(tailRows) /\ newCount \in Nat /\ seenAt \in Nat
        /\ disturbed \in BOOLEAN
        /\ ~Stream!paused => newCount = 0 /\ seenAt = Len(tailRows)
        /\ Stream!paused /\ ~disturbed => newCount = Len(tailRows) - seenAt
    BY DEF StreamInv, StreamBadge, Stream!TypeOK
  <2>4. ~Stream!paused => newCount' = 0 /\ seenAt' = Len(tailRows')
    BY <1>1, <2>3
  <2>5. ASSUME Stream!paused, ~disturbed' PROVE newCount' = Len(tailRows') - seenAt'
    <3>1. ~disturbed /\ Len(tailRows) + Len(pending) <= BUFFER_CAPACITY
      <4>1. ~disturbed /\ ~(Len(tailRows) + Len(pending) > BUFFER_CAPACITY)
        BY <1>1, <2>5
      <4>. QED BY <1>4, <4>1, TailBufferAssumption
    <3>2. Len(tailRows') = Len(tailRows) + Len(pending)
      BY <1>3, <3>1
    <3>. QED BY <1>1, <1>4, <2>3, <2>5, <3>1, <3>2
  <2>6. StreamBadge'
    BY <1>1, <2>2, <2>4, <2>5 DEF StreamBadge
  <2>. QED BY <2>1, <2>6
<1>. QED BY <1>7, <1>8, <1>9 DEF StreamInv

\* A subscription and the Clear button start over with nothing.
LEMMA StreamEmptiedPreserves ==
  ASSUME StreamInv, Stream!resubscribe \/ Stream!clear PROVE StreamInv'
<1>1. /\ pending' = <<>> /\ buffer' = <<>> /\ tailRows' = <<>> /\ received' = <<>>
      /\ prevCount' = 0 /\ seenAt' = (IF Stream!paused THEN seenAt ELSE 0)
      /\ newCount' = newCount /\ disturbed' = TRUE /\ raf' = FALSE /\ enabled' = TRUE
      /\ UNCHANGED <<tailPinned, explicitPause, tailLines>>
  BY DEF Stream!resubscribe, Stream!Subscribe, Stream!clear, Stream!Follow, StreamInv,
         Stream!TypeOK
<1>2. /\ tailUrl' \in Urls /\ source' \in {"connecting", "open", "closed"}
      /\ failed' \in BOOLEAN /\ tailRestarts' \in 0 .. MaxRestarts
  <2>1. CASE Stream!clear
    BY <2>1 DEF Stream!clear, StreamInv, Stream!TypeOK
  <2>2. CASE Stream!resubscribe
    <3>1. /\ tailUrl' \in Urls /\ source' = "connecting" /\ failed' = FALSE
          /\ tailRestarts < MaxRestarts /\ tailRestarts' = tailRestarts + 1
      BY <2>2 DEF Stream!resubscribe, Stream!Subscribe
    <3>2. tailRestarts \in 0 .. MaxRestarts
      BY DEF StreamInv, Stream!TypeOK
    <3>3. tailRestarts' \in 0 .. MaxRestarts
      BY <3>1, <3>2, StreamAssumption
    <3>. QED BY <3>1, <3>3
  <2>. QED BY <2>1, <2>2
<1>3. <<>> \in Seq(Stream!Line) /\ Len(<<>>) = 0 /\ DOMAIN <<>> = {}
  OBVIOUS
<1>4. Stream!TypeOK'
  BY <1>1, <1>2, <1>3 DEF StreamInv, Stream!TypeOK
<1>5. StreamWindow'
  BY <1>1, <1>3, TailBufferAssumption DEF StreamWindow
<1>6. StreamBadge' /\ StreamOff'
  BY <1>1, <1>3 DEF StreamInv, StreamBadge, StreamOff, Stream!paused
<1>. QED BY <1>4, <1>5, <1>6 DEF StreamInv

\* Steps that touch nothing but the source, or switch it off.
LEMMA StreamSourcePreserves ==
  ASSUME StreamInv,
         Stream!onopen \/ Stream!onerror \/ Stream!idleStop \/ Stream!disable
           \/ UNCHANGED Stream!vars
  PROVE  StreamInv'
<1>. USE DEF Stream!onopen, Stream!onerror, Stream!idleStop, Stream!disable, Stream!vars,
             Stream!stream, Stream!follow, Stream!history
<1>1. Stream!TypeOK'
  BY DEF StreamInv, Stream!TypeOK
<1>2. StreamWindow'
  BY DEF StreamInv, StreamWindow
<1>3. StreamBadge' /\ StreamOff'
  BY DEF StreamInv, StreamBadge, StreamOff, Stream!paused, Stream!TypeOK
<1>. QED BY <1>1, <1>2, <1>3 DEF StreamInv

LEMMA StreamFollowPreserves ==
  ASSUME StreamInv,
         Stream!scrollUp \/ Stream!scrollToBottom \/ Stream!pause \/ Stream!resume
  PROVE  StreamInv'
<1>. USE DEF Stream!scrollUp, Stream!scrollToBottom, Stream!pause, Stream!resume,
             Stream!BadgeReset, Stream!stream, Stream!history
<1>1. Len(tailRows) \in Nat
  BY DEF StreamInv, Stream!TypeOK
<1>2. Stream!TypeOK'
  <2>1. tailPinned' \in BOOLEAN /\ explicitPause' \in BOOLEAN /\ disturbed' \in BOOLEAN
    BY DEF StreamInv, Stream!TypeOK
  <2>2. newCount' \in Nat /\ seenAt' \in Nat
    BY <1>1 DEF StreamInv, Stream!TypeOK
  <2>. QED BY <2>1, <2>2 DEF StreamInv, Stream!TypeOK
<1>3. StreamWindow'
  BY DEF StreamInv, StreamWindow
<1>4. StreamBadge' /\ StreamOff'
  BY <1>1 DEF StreamInv, StreamBadge, StreamOff, Stream!paused, Stream!TypeOK
<1>. QED BY <1>2, <1>3, <1>4 DEF StreamInv

LEMMA StreamInitHolds == ASSUME Stream!Init PROVE StreamInv
<1>. USE DEF Stream!Init
<1>1. <<>> \in Seq(Stream!Line) /\ Len(<<>>) = 0 /\ DOMAIN <<>> = {}
  OBVIOUS
<1>2. Stream!TypeOK
  <2>1. /\ enabled \in BOOLEAN /\ failed \in BOOLEAN /\ raf \in BOOLEAN
        /\ tailPinned \in BOOLEAN /\ explicitPause \in BOOLEAN /\ disturbed \in BOOLEAN
    OBVIOUS
  <2>2. /\ newCount \in Nat /\ prevCount \in Nat /\ seenAt \in Nat
        /\ tailLines \in 0 .. MaxLines /\ tailRestarts \in 0 .. MaxRestarts
    BY StreamAssumption
  <2>3. /\ pending \in Seq(Stream!Line) /\ buffer \in Seq(Stream!Line)
        /\ tailRows \in Seq(Stream!Line) /\ received \in Seq(Stream!Line)
    BY <1>1
  <2>. QED BY <2>1, <2>2, <2>3 DEF Stream!TypeOK
<1>3. StreamWindow
  BY <1>1, TailBufferAssumption DEF StreamWindow
<1>4. StreamBadge /\ StreamOff
  BY <1>1 DEF StreamBadge, StreamOff, Stream!paused
<1>. QED BY <1>2, <1>3, <1>4 DEF StreamInv

LEMMA StreamNextPreserves == ASSUME StreamInv, [Stream!Next]_(Stream!vars) PROVE StreamInv'
BY StreamMessagePreserves, StreamFramePreserves, StreamEmptiedPreserves,
   StreamSourcePreserves, StreamFollowPreserves DEF Stream!Next

\* The properties of the view follow from its invariant.
LEMMA StreamInvImplies == StreamInv => Stream!NoForeignRows /\ Stream!ShowsTheNewest
<1>. SUFFICES ASSUME StreamInv PROVE Stream!NoForeignRows /\ Stream!ShowsTheNewest
  OBVIOUS
<1>1. /\ pending \in Seq(Stream!Line) /\ received \in Seq(Stream!Line)
      /\ tailRows \in Seq(Stream!Line)
      /\ Len(pending) \in Nat /\ Len(received) \in Nat /\ Len(tailRows) \in Nat
  BY DEF StreamInv, Stream!TypeOK
<1>2. Stream!NoForeignRows
  <2>. SUFFICES ASSUME enabled, NEW k \in 1 .. Len(tailRows) PROVE tailRows[k].url = tailUrl
    BY <1>1 DEF Stream!NoForeignRows
  <2>1. Len(received) - Len(pending) - Len(tailRows) + k \in DOMAIN received
    BY <1>1 DEF StreamInv, StreamWindow
  <2>. QED BY <1>1, <2>1 DEF StreamInv, StreamWindow
<1>. DEFINE all == tailRows \o pending
<1>3. /\ all \in Seq(Stream!Line) /\ Len(all) = Len(tailRows) + Len(pending)
  BY <1>1
<1>. HIDE DEF all
<1>4. ASSUME enabled
      PROVE  /\ all = Stream!Lasts(received, Len(all))
             /\ Len(tailRows) <= BUFFER_CAPACITY
             /\ Len(tailRows) < BUFFER_CAPACITY => all = received
  <2>1. /\ Len(all) \in 0 .. Len(received)
        /\ \A k \in 1 .. Len(all) : all[k] = received[Len(received) - Len(all) + k]
    BY <1>4, RowsAndBatchAreTheEnd DEF all
  <2>2. /\ Stream!Lasts(received, Len(all)) \in Seq(Stream!Line)
        /\ Len(Stream!Lasts(received, Len(all))) = Len(all)
        /\ \A k \in 1 .. Len(all) :
             Stream!Lasts(received, Len(all))[k] = received[Len(received) - Len(all) + k]
    BY <1>1, <2>1, LastsAreTheEnd
  <2>3. all = Stream!Lasts(received, Len(all))
    BY <1>3, <2>1, <2>2, SeqEqual
  <2>4. ASSUME Len(tailRows) < BUFFER_CAPACITY PROVE all = received
    <3>1. Len(all) = Len(received)
      BY <1>3, <1>4, <2>4 DEF StreamInv, StreamWindow
    <3>. QED BY <1>1, <1>3, <2>1, <3>1, SeqEqual
  <2>5. Len(tailRows) <= BUFFER_CAPACITY
    BY <1>4 DEF StreamInv, StreamWindow
  <2>. QED BY <2>3, <2>4, <2>5
<1>5. Stream!ShowsTheNewest
  BY <1>4 DEF Stream!ShowsTheNewest, StreamInv, StreamBadge, all
<1>. QED BY <1>2, <1>5

\* useLogStream and useFollowMode keep this invariant: rows and batch are the end of
\* what the open source has delivered.
THEOREM StreamInvariant == Stream!Spec => []StreamInv
<1>1. Stream!Init => StreamInv
  BY StreamInitHolds
<1>2. StreamInv /\ [Stream!Next]_(Stream!vars) => StreamInv'
  BY StreamNextPreserves
<1>. QED BY <1>1, <1>2, PTL DEF Stream!Spec

(***************************************************************************)
(* The list over Loki.                                                     *)
(***************************************************************************)

LokiTyped ==
  /\ lokiClock \in Nat /\ lineTime \in Nat /\ lineTime <= lokiClock
  /\ startNs \in Int /\ endNs \in Int
  /\ IsFiniteSet(pushed) /\ IsFiniteSet(pushing) /\ IsFiniteSet(entries)
  /\ pushing \subseteq Loki!Stamped /\ entries \subseteq Loki!Stamped
  /\ listed \in Seq(SUBSET entries) /\ held \subseteq entries

\* An entry knows its batch and its time, and the ids below it, down to the
\* beginning of the millisecond of its push, are taken.
LokiBatches ==
  \A e \in Loki!Stamped :
    /\ e.id \in Nat /\ e.time \in Nat /\ e.time <= lineTime
    /\ e.batch \in Nat /\ e.batch < Cardinality(pushed)
    /\ \E ms \in 0 .. lokiClock :
         /\ ms * NS_PER_MS <= e.id
         /\ \A n \in ms * NS_PER_MS .. e.id : \E g \in Loki!Stamped : g.id = n

\* So the ids of entries that share theirs with none are in the order of time.
LokiOrder ==
  \A e, f \in Loki!Stamped :
    Loki!HasItsOwnStamp(e) /\ e.id < f.id => e.time <= f.time

\* Such an entry is below the end of the next page and in no page yet; or it is not, and
\* in one page or at the seam of two if it was there when the list began.
InAPage(e) == \E i \in DOMAIN listed : e \in listed[i]
LokiPages ==
  /\ lokiReading \in {"no", "more", "failed", "done"}
  /\ lokiReading = "no" => listed = <<>>
  /\ lokiReading # "no" => \A e \in held : startNs <= e.id
  /\ \A e \in Loki!Stamped :
       Loki!HasItsOwnStamp(e) =>
         /\ \A i, j \in DOMAIN listed : e \in listed[i] /\ e \in listed[j] => i = j
         /\ lokiReading \in {"more", "failed"} /\ e.id < endNs => ~InAPage(e)
         /\ lokiReading \in {"more", "failed"} /\ e \in held /\ e.id >= endNs =>
              InAPage(e) \/ Loki!AtSeam(e)
         /\ lokiReading = "done" /\ e \in held => InAPage(e) \/ Loki!AtSeam(e)

LokiInv == LokiTyped /\ LokiBatches /\ LokiOrder /\ LokiPages

\* The cardinality that LokiList takes from FiniteSets is the one of FiniteSets.
LEMMA LokiCardinality == \A S : Loki!Cardinality(S) = Cardinality(S)
BY DEF Loki!Cardinality, Cardinality

\* A later millisecond begins at a later timestamp.
LEMMA LaterMillisecond ==
  ASSUME NEW a \in Nat, NEW b \in Nat, NEW n \in Nat, a <= b
  PROVE  a * n <= b * n /\ a * n \in Nat /\ b * n \in Nat
<1>1. a * n \in Nat /\ b * n \in Nat /\ (b - a) \in Nat /\ (b - a) * n \in Nat
  OBVIOUS
<1>2. b * n = a * n + (b - a) * n
  OBVIOUS
<1>. QED BY <1>1, <1>2

LEMMA TickPreserves == ASSUME LokiInv, Loki!Tick PROVE LokiInv'
<1>1. /\ lokiClock' = lokiClock + 1
      /\ UNCHANGED <<lineTime, pushed, pushing, entries, lokiReading, lokiWindow,
                     startNs, endNs, listed, held>>
  BY DEF Loki!Tick, Loki!list
<1>2. LokiTyped' /\ LokiOrder' /\ LokiPages'
  BY <1>1 DEF LokiInv, LokiTyped, LokiOrder, LokiPages, Loki!Stamped,
              Loki!HasItsOwnStamp, Loki!AtSeam, InAPage
<1>3. \A ms \in 0 .. lokiClock : ms \in 0 .. lokiClock'
  BY <1>1 DEF LokiInv, LokiTyped
<1>4. LokiBatches'
  BY <1>1, <1>3 DEF LokiInv, LokiBatches, Loki!Stamped
<1>. QED BY <1>2, <1>4 DEF LokiInv

\* What a list did with the entries that were pushed before stays true.
LEMMA PushKeepsPages ==
  ASSUME LokiInv, Loki!Stamped \subseteq Loki!Stamped',
         UNCHANGED <<entries, lokiReading, startNs, endNs, listed, held>>,
         \A e \in Loki!Stamped' : e.id \in Int
  PROVE  LokiPages'
<1>1. \A e \in Loki!Stamped : Loki!HasItsOwnStamp(e)' => Loki!HasItsOwnStamp(e)
  BY DEF Loki!HasItsOwnStamp
<1>2. \A e : InAPage(e) => e \in Loki!Stamped
  BY DEF InAPage, LokiInv, LokiTyped
<1>3. \A e : (InAPage(e)' <=> InAPage(e)) /\ (Loki!AtSeam(e)' <=> Loki!AtSeam(e))
  BY DEF InAPage, Loki!AtSeam
<1>4. held \subseteq Loki!Stamped
  BY DEF LokiInv, LokiTyped
<1>. QED BY <1>1, <1>2, <1>3, <1>4 DEF LokiInv, LokiPages, InAPage

LEMMA PushPreserves ==
  ASSUME LokiInv, NEW size \in BatchSizes, NEW time \in 0 .. MaxMs, Loki!Push(size, time)
  PROVE  LokiInv'
<1>. DEFINE base == lokiClock * NS_PER_MS
            b == Cardinality(pushed)
<1>0. pushing' = {[id |-> base + i - 1, time |-> time, batch |-> b] : i \in 1 .. size}
  BY Zenon, LokiCardinality DEF Loki!Push
<1>1. /\ pushing = {} /\ time \in lineTime .. lokiClock /\ lineTime' = time
      /\ pushing' = {[id |-> base + i - 1, time |-> time, batch |-> b] : i \in 1 .. size}
      /\ pushed' = pushed \cup {pushing'}
      /\ UNCHANGED <<lokiClock, entries, lokiReading, lokiWindow, startNs, endNs,
                     listed, held>>
  <2>. HIDE DEF base, b
  <2>. QED BY <1>0 DEF Loki!Push, Loki!list
<1>2. base \in Nat /\ b \in Nat /\ size \in Nat /\ size >= 1 /\ time \in Nat
  BY <1>1, LokiListAssumption, LaterMillisecond, FS_CardinalityType DEF LokiInv, LokiTyped
<1>. HIDE DEF b
<1>3. /\ Loki!Stamped' = Loki!Stamped \cup pushing'
      /\ \A e \in pushing' : /\ e.id \in Nat /\ base <= e.id /\ e.time = time
                             /\ e.batch = b /\ e \notin Loki!Stamped
      /\ \A e \in pushing' : \A n \in base .. e.id : \E g \in pushing' : g.id = n
  <2>1. Loki!Stamped' = Loki!Stamped \cup pushing'
    BY <1>1 DEF Loki!Stamped
  <2>2. ASSUME NEW e \in pushing'
        PROVE  /\ e.id \in Nat /\ base <= e.id /\ e.time = time /\ e.batch = b
               /\ \A n \in base .. e.id : \E g \in pushing' : g.id = n
    <3>. HIDE DEF base
    <3>1. PICK i \in 1 .. size : e = [id |-> base + i - 1, time |-> time, batch |-> b]
      BY <1>1, <2>2
    <3>2. e.id = base + i - 1 /\ e.time = time /\ e.batch = b
      BY <3>1
    <3>3. ASSUME NEW n \in base .. e.id PROVE \E g \in pushing' : g.id = n
      <4>1. n - base + 1 \in 1 .. size /\ base + (n - base + 1) - 1 = n
        BY <1>2, <3>2
      <4>2. [id |-> base + (n - base + 1) - 1, time |-> time, batch |-> b] \in pushing'
        BY <1>1, <4>1
      <4>. QED BY <4>1, <4>2
    <3>. QED BY <1>2, <3>2, <3>3
  <2>3. \A e \in Loki!Stamped : e.batch # b
    BY <1>2 DEF LokiInv, LokiBatches, b
  <2>. QED BY <2>1, <2>2, <2>3
<1>4. IsFiniteSet(pushing') /\ pushing' # {}
  <2>1. IsFiniteSet(1 .. size)
    BY <1>2, FS_Interval
  <2>. DEFINE entry(i) == [id |-> base + i - 1, time |-> time, batch |-> b]
  <2>2. IsFiniteSet({entry(i) : i \in 1 .. size})
    <3>. DEFINE stamps == [i \in 1 .. size |-> entry(i)]
                all == {entry(i) : i \in 1 .. size}
    <3>1. stamps \in Surjection(1 .. size, all)
      BY Zenon DEF Surjection
    <3>. HIDE DEF stamps, all
    <3>2. IsFiniteSet(all)
      BY <2>1, <3>1, FS_Surjection
    <3>. QED BY <3>2 DEF all
  <2>3. 1 \in 1 .. size
    BY <1>2
  <2>. QED BY <1>1, <2>2, <2>3
<1>5. Cardinality(pushed') = b + 1 /\ IsFiniteSet(pushed')
  <2>1. pushing' \notin pushed
    BY <1>3, <1>4 DEF Loki!Stamped
  <2>. QED BY <1>1, <2>1, FS_AddElement DEF LokiInv, LokiTyped, b
<1>. HIDE DEF base
<1>6. LokiTyped'
  BY <1>1, <1>2, <1>3, <1>4, <1>5 DEF LokiInv, LokiTyped
<1>7. LokiBatches'
  <2>. SUFFICES ASSUME NEW e \in Loki!Stamped'
                PROVE  /\ e.id \in Nat /\ e.time \in Nat /\ e.time <= lineTime'
                       /\ e.batch \in Nat /\ e.batch < Cardinality(pushed')
                       /\ \E ms \in 0 .. lokiClock' :
                            /\ ms * NS_PER_MS <= e.id
                            /\ \A n \in ms * NS_PER_MS .. e.id : \E g \in Loki!Stamped' : g.id = n
    BY DEF LokiBatches
  <2>1. CASE e \in Loki!Stamped
    <3>1. /\ e.id \in Nat /\ e.time \in Nat /\ e.time <= lineTime /\ e.batch \in Nat
          /\ e.batch < b /\ lineTime \in Nat
          /\ \E ms \in 0 .. lokiClock :
                            /\ ms * NS_PER_MS <= e.id
                            /\ \A n \in ms * NS_PER_MS .. e.id : \E g \in Loki!Stamped : g.id = n
      BY <2>1 DEF LokiInv, LokiBatches, LokiTyped, b
    <3>2. e.time <= lineTime' /\ e.batch < Cardinality(pushed')
      BY <1>1, <1>2, <1>5, <3>1
    <3>. QED BY <1>1, <1>3, <3>1, <3>2
  <2>2. CASE e \in pushing'
    <3>1. lokiClock \in 0 .. lokiClock /\ base = lokiClock * NS_PER_MS
      BY DEF LokiInv, LokiTyped, base
    <3>2. /\ e.time \in Nat /\ e.time <= lineTime' /\ e.batch \in Nat
          /\ e.batch < Cardinality(pushed')
      BY <1>1, <1>2, <1>3, <1>5, <2>2
    <3>. QED BY <1>1, <1>3, <2>2, <3>1, <3>2
  <2>. QED BY <1>3, <2>1, <2>2
<1>8. LokiOrder'
  <2>. SUFFICES ASSUME NEW e \in Loki!Stamped', NEW f \in Loki!Stamped',
                       Loki!HasItsOwnStamp(e)', e.id < f.id
                PROVE  e.time <= f.time
    BY DEF LokiOrder
  <2>1. CASE e \in Loki!Stamped /\ f \in Loki!Stamped
    <3>1. Loki!HasItsOwnStamp(e)
      BY <1>3 DEF Loki!HasItsOwnStamp
    <3>. QED BY <2>1, <3>1 DEF LokiInv, LokiOrder
  <2>2. CASE e \in Loki!Stamped /\ f \in pushing'
    BY <1>1, <1>2, <1>3, <2>2 DEF LokiInv, LokiBatches, LokiTyped
  <2>3. CASE e \in pushing' /\ f \in pushing'
    BY <1>2, <1>3, <2>3
  <2>4. CASE e \in pushing' /\ f \in Loki!Stamped
    <3>1. PICK ms \in 0 .. lokiClock :
            /\ ms * NS_PER_MS <= f.id
            /\ \A n \in ms * NS_PER_MS .. f.id : \E g \in Loki!Stamped : g.id = n
      BY <2>4 DEF LokiInv, LokiBatches
    <3>2. ms * NS_PER_MS <= base /\ ms * NS_PER_MS \in Nat
      BY LaterMillisecond, LokiListAssumption DEF base, LokiInv, LokiTyped
    <3>3. f.id \in Nat /\ e.id \in Nat /\ base <= e.id
      BY <1>3, <2>4 DEF LokiInv, LokiBatches
    <3>4. e.id \in ms * NS_PER_MS .. f.id
      BY <1>2, <3>2, <3>3
    <3>5. PICK g \in Loki!Stamped : g.id = e.id
      BY <3>1, <3>4
    <3>6. g # e /\ g \in Loki!Stamped'
      BY <1>3, <2>4, <3>5
    <3>. QED BY <3>5, <3>6 DEF Loki!HasItsOwnStamp
  <2>. QED BY <1>3, <2>1, <2>2, <2>3, <2>4
<1>9. LokiPages'
  <2>1. Loki!Stamped \subseteq Loki!Stamped' /\ \A e \in Loki!Stamped' : e.id \in Int
    BY <1>3, <1>7 DEF LokiBatches
  <2>. QED BY <1>1, <2>1, PushKeepsPages
<1>. QED BY <1>6, <1>7, <1>8, <1>9 DEF LokiInv

LEMMA StoredPreserves ==
  ASSUME LokiInv, NEW kept \in SUBSET pushing, Loki!Stored(kept) PROVE LokiInv'
<1>1. /\ entries' = entries \cup kept /\ pushing' = {}
      /\ UNCHANGED <<lokiClock, lineTime, pushed, lokiReading, lokiWindow, startNs,
                     endNs, listed, held>>
  BY DEF Loki!Stored, Loki!list
<1>2. Loki!Stamped' = Loki!Stamped
  BY <1>1 DEF Loki!Stamped
<1>3. IsFiniteSet(entries') /\ IsFiniteSet(pushing')
  BY <1>1, FS_Union, FS_Subset, FS_EmptySet DEF LokiInv, LokiTyped
<1>4. listed' \in Seq(SUBSET entries')
  <2>1. SUBSET entries \subseteq SUBSET entries'
    BY <1>1
  <2>. QED BY <1>1, <2>1 DEF LokiInv, LokiTyped
<1>5. LokiTyped'
  BY <1>1, <1>2, <1>3, <1>4 DEF LokiInv, LokiTyped
<1>6. LokiBatches' /\ LokiOrder'
  BY <1>1, <1>2 DEF LokiInv, LokiBatches, LokiOrder, Loki!HasItsOwnStamp
<1>7. LokiPages'
  BY <1>1, <1>2 DEF LokiInv, LokiPages, Loki!HasItsOwnStamp, Loki!AtSeam, InAPage
<1>. QED BY <1>5, <1>6, <1>7 DEF LokiInv

LEMMA OpenListPreserves ==
  ASSUME LokiInv, NEW from \in Int, NEW to \in Int, Loki!OpenList(from, to)
  PROVE  LokiInv'
<1>1. /\ lokiReading = "no" /\ lokiReading' = "more"
      /\ startNs' = from * NS_PER_MS /\ endNs' = to * NS_PER_MS
      /\ held' = {e \in entries : startNs' <= e.id /\ e.id < endNs'}
      /\ UNCHANGED <<lokiClock, lineTime, pushed, pushing, entries, listed>>
  BY DEF Loki!OpenList, Loki!InRange, Loki!loki
<1>2. startNs' \in Int /\ endNs' \in Int
  BY <1>1, LokiListAssumption
<1>3. LokiTyped' /\ LokiBatches' /\ LokiOrder'
  BY <1>1, <1>2 DEF LokiInv, LokiTyped, LokiBatches, LokiOrder, Loki!Stamped,
                    Loki!HasItsOwnStamp
<1>4. listed' = <<>> /\ DOMAIN listed' = {}
  BY <1>1 DEF LokiInv, LokiPages
<1>5. \A e \in held' : startNs' <= e.id /\ ~(e.id >= endNs')
  BY <1>1, <1>2 DEF LokiInv, LokiTyped, LokiBatches
<1>6. LokiPages'
  BY <1>1, <1>4, <1>5 DEF LokiPages, InAPage
<1>. QED BY <1>3, <1>6 DEF LokiInv

\* A page ends at its last row by time, and no entry with a timestamp of its own
\* that is in the page has a smaller id than that row.
LEMMA CursorIsTheSmallestId ==
  ASSUME LokiInv, NEW pg \in SUBSET entries, NEW last \in Loki!LastRows(pg),
         NEW e \in pg, Loki!HasItsOwnStamp(e)
  PROVE  e.id >= last.id
<1>1. /\ last \in pg /\ ~Loki!Before(last, e)
      /\ e \in Loki!Stamped /\ last \in Loki!Stamped
      /\ e.id \in Nat /\ last.id \in Nat /\ e.time \in Nat /\ last.time \in Nat
  BY DEF Loki!LastRows, LokiInv, LokiTyped, LokiBatches
<1>2. e.id < last.id => e.time <= last.time
  BY <1>1 DEF LokiInv, LokiOrder
<1>. QED BY <1>1, <1>2 DEF Loki!Before

LEMMA ListPagePreserves == ASSUME LokiInv, Loki!ListPage PROVE LokiInv'
<1>1. PICK pg \in Loki!queryRange(startNs, endNs) :
        /\ listed' = Append(listed, pg)
        /\ IF Cardinality(pg) >= Limit
           THEN \E last \in Loki!LastRows(pg) :
                  endNs' = Loki!endNanos(last) /\ lokiReading' = "more"
           ELSE lokiReading' = "done" /\ UNCHANGED endNs
  <2>1. PICK pg \in Loki!queryRange(startNs, endNs) :
          /\ listed' = Append(listed, pg)
          /\ IF Loki!Cardinality(pg) >= Limit
             THEN \E last \in Loki!LastRows(pg) :
                    endNs' = Loki!endNanos(last) /\ lokiReading' = "more"
             ELSE lokiReading' = "done" /\ UNCHANGED endNs
    BY Zenon DEF Loki!ListPage
  <2>2. Loki!Cardinality(pg) = Cardinality(pg)
    BY LokiCardinality
  <2>. QED BY Zenon, <2>1, <2>2
<1>2. /\ lokiReading \in {"more", "failed"}
      /\ UNCHANGED <<lokiClock, lineTime, pushed, pushing, entries, lokiWindow, startNs, held>>
  BY DEF Loki!ListPage, Loki!handleScroll, Loki!loki
<1>3. /\ pg \subseteq entries
      /\ \A e \in pg : startNs <= e.id /\ e.id < endNs
      /\ Cardinality(pg) < Limit =>
           \A e \in entries : startNs <= e.id /\ e.id < endNs => e \in pg
      /\ \A e \in pg, other \in entries :
           startNs <= other.id /\ other.id < endNs /\ other \notin pg => other.id <= e.id
  BY LokiCardinality DEF Loki!queryRange, Loki!InRange
<1>4. /\ listed \in Seq(SUBSET entries) /\ DOMAIN listed = 1 .. Len(listed)
      /\ Len(listed) \in Nat
      /\ listed' \in Seq(SUBSET entries) /\ DOMAIN listed' = 1 .. Len(listed) + 1
      /\ listed'[Len(listed) + 1] = pg
      /\ \A i \in 1 .. Len(listed) : listed'[i] = listed[i]
  BY <1>1, <1>3 DEF LokiInv, LokiTyped
<1>5. /\ entries \subseteq Loki!Stamped /\ held \subseteq entries
      /\ \A e \in Loki!Stamped : e.id \in Nat
      /\ endNs \in Int /\ startNs \in Int
  BY DEF LokiInv, LokiTyped, LokiBatches
<1>6. \A e : InAPage(e)' <=> (InAPage(e) \/ e \in pg)
  BY <1>4 DEF InAPage
<1>13. \A e : Loki!AtSeam(e) => Loki!AtSeam(e)'
  BY <1>4 DEF Loki!AtSeam
<1>14. ASSUME Cardinality(pg) >= Limit, NEW last \in Loki!LastRows(pg), NEW e, e.id = last.id - 1
       PROVE  Loki!AtSeam(e)'
  <2>1. Loki!Cardinality(pg) >= Limit
    BY <1>14, LokiCardinality
  <2>2. Len(listed) + 1 \in DOMAIN listed'
    BY <1>4
  <2>. QED BY <1>4, <1>14, <2>1, <2>2 DEF Loki!AtSeam
<1>7. \A e \in Loki!Stamped : Loki!HasItsOwnStamp(e)' <=> Loki!HasItsOwnStamp(e)
  BY <1>2 DEF Loki!HasItsOwnStamp, Loki!Stamped
<1>8. Loki!Stamped' = Loki!Stamped
  BY <1>2 DEF Loki!Stamped
<1>9. ASSUME NEW e \in Loki!Stamped, Loki!HasItsOwnStamp(e),
             NEW i \in DOMAIN listed', NEW j \in DOMAIN listed', e \in listed'[i], e \in listed'[j]
      PROVE  i = j
  <2>1. e \in pg => ~InAPage(e)
    BY <1>2, <1>3, <1>9 DEF LokiInv, LokiPages
  <2>2. \A k \in 1 .. Len(listed) : e \in listed'[k] => InAPage(e)
    BY <1>4 DEF InAPage
  <2>3. i \in 1 .. Len(listed) \/ i = Len(listed) + 1
    BY <1>4
  <2>4. j \in 1 .. Len(listed) \/ j = Len(listed) + 1
    BY <1>4
  <2>5. CASE i \in 1 .. Len(listed) /\ j \in 1 .. Len(listed)
    BY <1>4, <1>9, <2>5 DEF LokiInv, LokiPages
  <2>. QED BY <1>4, <1>9, <2>1, <2>2, <2>3, <2>4, <2>5
<1>10. /\ endNs' \in Int /\ lokiReading' \in {"more", "done"}
       /\ \A e \in Loki!Stamped : Loki!HasItsOwnStamp(e) =>
            /\ lokiReading' = "more" /\ e.id < endNs' => ~(InAPage(e) \/ e \in pg)
            /\ e \in held /\ (lokiReading' = "done" \/ e.id >= endNs') =>
                 InAPage(e) \/ e \in pg \/ Loki!AtSeam(e)'
  <2>1. ASSUME NEW e \in Loki!Stamped, Loki!HasItsOwnStamp(e)
        PROVE  /\ e.id < endNs => ~InAPage(e)
               /\ e \in held /\ e.id >= endNs => InAPage(e) \/ Loki!AtSeam(e)
               /\ e \in held => startNs <= e.id
    BY <1>2, <2>1 DEF LokiInv, LokiPages
  <2>2. CASE Cardinality(pg) >= Limit
    <3>1. PICK last \in Loki!LastRows(pg) : endNs' = last.id - 1 /\ lokiReading' = "more"
      BY <1>1, <2>2 DEF Loki!endNanos
    <3>2. last \in pg /\ last \in Loki!Stamped /\ last.id \in Nat /\ last.id < endNs
      BY <1>3, <1>5 DEF Loki!LastRows
    <3>3. ASSUME NEW e \in Loki!Stamped, Loki!HasItsOwnStamp(e)
          PROVE  /\ e.id < endNs' => ~(InAPage(e) \/ e \in pg)
                 /\ e \in held /\ e.id >= endNs' => InAPage(e) \/ e \in pg \/ Loki!AtSeam(e)'
      <4>1. e \in pg => e.id >= last.id
        BY <1>3, <3>3, CursorIsTheSmallestId
      <4>2. e.id = last.id => e \in pg
        BY <3>2, <3>3 DEF Loki!HasItsOwnStamp
      <4>3. e \in held /\ e \notin pg /\ e.id < endNs => e.id <= last.id
        BY <1>3, <1>5, <2>1, <3>2, <3>3
      <4>4. e.id = last.id - 1 => Loki!AtSeam(e)'
        BY <1>14, <2>2
      <4>. QED BY <1>5, <1>13, <2>1, <3>1, <3>2, <3>3, <4>1, <4>2, <4>3, <4>4
    <3>. QED BY <3>1, <3>2, <3>3
  <2>3. CASE ~(Cardinality(pg) >= Limit)
    <3>1. Cardinality(pg) < Limit
      <4>1. Cardinality(pg) \in Nat
        BY <1>3, FS_Subset, FS_CardinalityType DEF LokiInv, LokiTyped
      <4>. QED BY <2>3, <4>1, LogReadsAssumption
    <3>2. lokiReading' = "done" /\ endNs' = endNs
      BY <1>1, <2>3
    <3>3. ASSUME NEW e \in Loki!Stamped, Loki!HasItsOwnStamp(e), e \in held
          PROVE  InAPage(e) \/ e \in pg \/ Loki!AtSeam(e)'
      BY <1>3, <1>5, <1>13, <2>1, <3>1, <3>3
    <3>. QED BY <1>5, <3>2, <3>3
  <2>. QED BY <2>2, <2>3
<1>11. LokiTyped' /\ LokiBatches' /\ LokiOrder'
  BY <1>2, <1>4, <1>7, <1>8, <1>10 DEF LokiInv, LokiTyped, LokiBatches, LokiOrder
<1>12. LokiPages'
  <2>1. lokiReading' # "no" /\ \A e \in held' : startNs' <= e.id
    BY <1>2, <1>10 DEF LokiInv, LokiPages
  <2>. QED BY <1>2, <1>6, <1>7, <1>8, <1>9, <1>10, <2>1 DEF LokiPages
<1>. QED BY <1>11, <1>12 DEF LokiInv

LEMMA LokiRestPreserves ==
  ASSUME LokiInv, Loki!PageFails \/ UNCHANGED Loki!vars PROVE LokiInv'
<1>1. /\ lokiReading' = lokiReading \/ (lokiReading = "more" /\ lokiReading' = "failed")
      /\ UNCHANGED <<lokiClock, lineTime, pushed, pushing, entries, lokiWindow, startNs,
                     endNs, listed, held>>
  BY DEF Loki!PageFails, Loki!vars, Loki!loki, Loki!list
<1>2. LokiTyped' /\ LokiBatches' /\ LokiOrder'
  BY <1>1 DEF LokiInv, LokiTyped, LokiBatches, LokiOrder, Loki!Stamped, Loki!HasItsOwnStamp
<1>3. LokiPages'
  BY <1>1 DEF LokiInv, LokiPages, Loki!Stamped, Loki!HasItsOwnStamp, Loki!AtSeam, InAPage
<1>. QED BY <1>2, <1>3 DEF LokiInv

LEMMA LokiInitHolds == ASSUME Loki!Init PROVE LokiInv
<1>. USE DEF Loki!Init
<1>1. Loki!Stamped = {}
  BY DEF Loki!Stamped
<1>2. LokiTyped
  BY FS_EmptySet DEF LokiTyped
<1>. QED BY <1>1, <1>2 DEF LokiInv, LokiBatches, LokiOrder, LokiPages

LEMMA LokiNextPreserves == ASSUME LokiInv, [Loki!Next]_(Loki!vars) PROVE LokiInv'
<1>1. ASSUME NEW to \in {lokiClock - 1, lokiClock} \ {-1},
             Loki!OpenList(IF to > LokiSpan THEN to - LokiSpan ELSE 0, to)
      PROVE  LokiInv'
  <2>1. to \in Int /\ (IF to > LokiSpan THEN to - LokiSpan ELSE 0) \in Int
    BY LokiListAssumption DEF LokiInv, LokiTyped
  <2>. QED BY <1>1, <2>1, OpenListPreserves
<1>. QED
  BY <1>1, TickPreserves, PushPreserves, StoredPreserves, ListPagePreserves,
     LokiRestPreserves DEF Loki!Next

LEMMA LokiInvImplies == LokiInv => Loki!LokiListIsStable
<1>. SUFFICES ASSUME LokiInv, NEW e \in Loki!Stamped, Loki!HasItsOwnStamp(e)
              PROVE  /\ Cardinality(Loki!PagesWith(e)) <= 1
                     /\ lokiReading = "done" /\ e \in held =>
                          Loki!PagesWith(e) # {} \/ Loki!AtSeam(e)
  BY Zenon, LokiCardinality DEF Loki!LokiListIsStable
<1>1. /\ \A i, j \in Loki!PagesWith(e) : i = j
      /\ InAPage(e) <=> Loki!PagesWith(e) # {}
      /\ lokiReading = "done" /\ e \in held => InAPage(e) \/ Loki!AtSeam(e)
  BY DEF LokiInv, LokiPages, Loki!PagesWith, InAPage
<1>2. Cardinality(Loki!PagesWith(e)) <= 1
  <2>1. CASE Loki!PagesWith(e) = {}
    BY <2>1, FS_EmptySet
  <2>2. CASE Loki!PagesWith(e) # {}
    <3>1. PICK i : Loki!PagesWith(e) = {i}
      BY <1>1, <2>2
    <3>2. Cardinality({i}) = 1
      BY FS_Singleton
    <3>. QED BY <3>1, <3>2
  <2>. QED BY <2>1, <2>2
<1>. QED BY <1>1, <1>2

\* LogsLokiService.query() keeps this invariant: between two pages there is one nanosecond.
THEOREM LokiListInvariant == Loki!Spec => []LokiInv
<1>1. Loki!Init => LokiInv
  BY LokiInitHolds
<1>2. LokiInv /\ [Loki!Next]_(Loki!vars) => LokiInv'
  BY LokiNextPreserves
<1>. QED BY <1>1, <1>2, PTL DEF Loki!Spec

(***************************************************************************)
(* The Trigger Center.                                                     *)
(***************************************************************************)

SUCCESS == "DOWNSTREAM_DISPATCH_SUCCESS"
DEGRADED == "DOWNSTREAM_DISPATCH_DEGRADED"
States == {"sent", "running", "answered", "lost"}
CallStates == {"sent", "accepted", "refused", "ok", "degraded"}

TriggerTyped ==
  /\ card \in Trigger!Cards /\ clock \in Nat /\ firedAt \in Nat /\ firedAt <= clock
  /\ \E n \in Nat : DOMAIN fires = 1 .. n
  /\ \A f \in DOMAIN fires :
       /\ fires[f] = [ctx |-> fires[f].ctx, state |-> fires[f].state, status |-> fires[f].status]
       /\ fires[f].state \in States
  /\ isFiring \in {0} \cup DOMAIN fires

\* Lines are of requests that the API has taken; those of a burst are its ticks.
TriggerLines ==
  \A l \in written :
    /\ l.fire \in DOMAIN fires /\ fires[l.fire].state \in {"running", "answered"}
    /\ l.service = "api" /\ card = "burst" => l.logKey = "TRIGGER_BURST_TICK"

\* Rows are lines of the API, and stamped no earlier than their request was sent.
TriggerRows ==
  /\ \A l \in waiting : l \in written /\ l.service = "api"
  /\ \A row \in loki :
       /\ row.line \in written /\ row.line.service = "api"
       /\ row.stamp \in Nat /\ row.stamp <= clock
       /\ row.line.fire = isFiring => firedAt <= row.stamp
       /\ row.line.fire = result.fire => result.at <= row.stamp

\* The link of a result has an id of its fire, or none, or the window of its ticks.
TriggerResult ==
  \/ result = Trigger!NoResult
  \/ /\ result.fire \in DOMAIN fires /\ fires[result.fire].state = "answered"
     /\ result.at \in Nat /\ result.at <= clock
     /\ IF card = "burst"
        THEN /\ result.target.by = "window" /\ result.target.logKey = "TRIGGER_BURST_TICK"
             /\ result.target.from \in Int /\ result.target.from <= result.at
             /\ result.target.to = result.shown + BURST_PAD
        ELSE /\ result.target.by # "window"
             /\ result.target.by = "range" \/ result.target.id = result.fire

\* The lines with the outcome of a worker call, and those of the worker.
Outcomes(c) ==
  {l \in written : l.fire = c[1] /\ l.logKey \in {SUCCESS, DEGRADED} /\ l.n = c[2]}
Tasks(c) == {l \in written : l.service = "worker" /\ l.fire = c[1] /\ l.path = c[2]}
Task(c, key) ==
  [fire |-> c[1], service |-> "worker", logKey |-> key, level |-> "info", path |-> c[2]]
Processed(c) == {Task(c, "WORKER_TASK_RECEIVED"), Task(c, "WORKER_TASK_PROCESSED")}

\* A call is ok only after its task, has one outcome, and that before the answer.
TriggerCalls ==
  /\ card # "dispatch" => DOMAIN workerCalls = {}
  /\ \A c \in DOMAIN workerCalls :
       /\ c \in (DOMAIN fires) \X {1, 2} /\ workerCalls[c] \in CallStates
       /\ fires[c[1]].state \in {"running", "answered"}
       /\ fires[c[1]].state = "answered" => workerCalls[c] \in {"ok", "degraded"}
       /\ workerCalls[c] \in {"accepted", "ok"} => Tasks(c) = Processed(c)
       /\ workerCalls[c] \notin {"ok", "degraded"} => Outcomes(c) = {}
       /\ workerCalls[c] = "ok" => \E l : Outcomes(c) = {l} /\ l.logKey = SUCCESS
       /\ workerCalls[c] = "degraded" => \E l : Outcomes(c) = {l} /\ l.logKey = DEGRADED

TriggerInv ==
  TriggerTyped /\ TriggerLines /\ TriggerRows /\ TriggerResult /\ TriggerCalls

LEMMA TriggerCardinality == \A S : Trigger!Cardinality(S) = Cardinality(S)
BY DEF Trigger!Cardinality, Cardinality

LEMMA LineFields ==
  ASSUME NEW id, NEW key, NEW level, NEW n
  PROVE  /\ Trigger!Line(id, key, level, n).fire = id
         /\ Trigger!Line(id, key, level, n).service = "api"
         /\ Trigger!Line(id, key, level, n).logKey = key
         /\ Trigger!Line(id, key, level, n).n = n
BY DEF Trigger!Line

\* What a handler writes is of its request; of a burst, ticks.
LEMMA HandlersWrite ==
  ASSUME card \in Trigger!Cards, card # "dispatch", NEW id, NEW ctx,
         NEW l \in Trigger!Written(id, ctx)
  PROVE  /\ l.fire = id /\ l.service = "api"
         /\ card = "burst" => l.logKey = "TRIGGER_BURST_TICK"
<1>1. CASE card = "burst"
  BY <1>1, LineFields DEF Trigger!Written, Trigger!burst
<1>2. CASE card # "burst"
  <2>1. \E key, level, n : l = Trigger!Line(id, key, level, n)
    <3>1. CASE card = "level"
      BY <3>1 DEF Trigger!Written, Trigger!fireLevel
    <3>2. CASE card = "fault-loki"
      BY <3>2 DEF Trigger!Written, Trigger!requestFault
    <3>3. CASE card = "payment"
      BY <3>3 DEF Trigger!Written, Trigger!charge
    <3>4. CASE card \in {"order", "slow"}
      BY <3>4 DEF Trigger!Written, Trigger!Orders
    <3>5. CASE card = "status"
      BY <3>5 DEF Trigger!Written
    <3>6. CASE card \in {"pii-signup", "pii-nested", "pii-headers", "huge"}
      <4>1. l \in Trigger!PiiDemo(id)
        BY <3>6 DEF Trigger!Written
      <4>2. Trigger!route.path \in {"/pii-demo/signup", "/pii-demo/nested",
                                    "/pii-demo/echo-headers", "/pii-demo/huge"}
        BY <3>6 DEF Trigger!route, Trigger!triggerApi, Trigger!Cards
      <4>. QED BY <4>1, <4>2 DEF Trigger!PiiDemo
    <3>. QED BY <1>2, <3>1, <3>2, <3>3, <3>4, <3>5, <3>6 DEF Trigger!Cards
  <2>. QED BY <1>2, <2>1, LineFields
<1>. QED BY <1>1, <1>2

\* Nothing but a flush makes rows, and a result takes over what the card waited for.
LEMMA RowsStay ==
  ASSUME TriggerInv, written \subseteq written', loki' = loki,
         \A l \in waiting' : l \in waiting \/ (l \in written' /\ l.service = "api"),
         clock' \in Nat, clock <= clock',
         isFiring' \in DOMAIN fires => isFiring' = isFiring /\ firedAt' = firedAt,
         \/ result' = result
         \/ result'.fire = isFiring /\ result'.at = firedAt
  PROVE  TriggerRows'
<1>1. \A row \in loki : row.line.fire \in DOMAIN fires
  BY DEF TriggerInv, TriggerRows, TriggerLines
<1>2. \A l \in waiting' : l \in written' /\ l.service = "api"
  BY DEF TriggerInv, TriggerRows
<1>3. clock \in Nat
  BY DEF TriggerInv, TriggerTyped
<1>. QED BY <1>1, <1>2, <1>3 DEF TriggerInv, TriggerRows

LEMMA WritesAreHandedOn ==
  ASSUME NEW new, Trigger!Write(new)
  PROVE  /\ written' = written \cup new /\ loki' = loki
         /\ \A l \in waiting' : l \in waiting \/ (l \in new /\ l.service = "api")
BY DEF Trigger!Write

\* A handler moves the request on, and no other.
LEMMA FireChanges ==
  ASSUME TriggerTyped, NEW id \in DOMAIN fires, NEW st \in States, NEW v,
         \/ fires' = [fires EXCEPT ![id] = [@ EXCEPT !.state = st, !.status = v]]
         \/ fires' = [fires EXCEPT ![id].state = st],
         card' = card, clock' = clock, firedAt' = firedAt, isFiring' \in {0, isFiring}
  PROVE  /\ TriggerTyped' /\ DOMAIN fires' = DOMAIN fires /\ fires'[id].state = st
         /\ \A f \in DOMAIN fires : f # id => fires'[f] = fires[f]
<1>1. fires[id] = [ctx |-> fires[id].ctx, state |-> fires[id].state, status |-> fires[id].status]
  BY DEF TriggerTyped
<1>2. PICK ctx, old, status : fires[id] = [ctx |-> ctx, state |-> old, status |-> status]
  BY <1>1
<1>3. /\ DOMAIN fires' = DOMAIN fires
      /\ \A f \in DOMAIN fires : f # id => fires'[f] = fires[f]
  OBVIOUS
<1>4. \E s : fires'[id] = [ctx |-> ctx, state |-> st, status |-> s]
  <2>1. CASE fires' = [fires EXCEPT ![id] = [@ EXCEPT !.state = st, !.status = v]]
    <3>1. fires'[id] = [[fires[id] EXCEPT !.state = st] EXCEPT !.status = v]
      BY <2>1
    <3>2. [fires[id] EXCEPT !.state = st] = [ctx |-> ctx, state |-> st, status |-> status]
      BY <1>2
    <3>. QED BY <3>1, <3>2
  <2>2. CASE fires' = [fires EXCEPT ![id].state = st]
    <3>1. fires'[id] = [fires[id] EXCEPT !.state = st]
      BY <2>2
    <3>2. fires'[id] = [ctx |-> ctx, state |-> st, status |-> status]
      BY <1>2, <3>1
    <3>. QED BY <3>2
  <2>. QED BY <2>1, <2>2
<1>5. PICK s : fires'[id] = [ctx |-> ctx, state |-> st, status |-> s]
  BY <1>4
<1>6. /\ fires'[id].state = st
      /\ fires'[id] = [ctx |-> fires'[id].ctx, state |-> fires'[id].state,
                       status |-> fires'[id].status]
  BY <1>5
<1>. QED BY <1>3, <1>6 DEF TriggerTyped

\* The calls stay as they are while their requests do.
LEMMA CallsStay ==
  ASSUME TriggerInv, UNCHANGED <<card, workerCalls, written>>,
         \A f \in DOMAIN fires :
           f \in DOMAIN fires' /\ (fires[f].state \in {"running", "answered"} => fires'[f] = fires[f])
  PROVE  TriggerCalls'
<1> SUFFICES ASSUME NEW c \in DOMAIN workerCalls
             PROVE  /\ c \in (DOMAIN fires)' \X {1, 2} /\ workerCalls[c] \in CallStates
                    /\ fires'[c[1]] = fires[c[1]]
                    /\ Outcomes(c)' = Outcomes(c) /\ Tasks(c)' = Tasks(c)
  BY DEF TriggerInv, TriggerCalls
<1>1. c \in (DOMAIN fires) \X {1, 2} /\ fires[c[1]].state \in {"running", "answered"}
      /\ workerCalls[c] \in CallStates
  BY DEF TriggerInv, TriggerCalls
<1>2. c[1] \in DOMAIN fires /\ c[2] \in {1, 2} /\ c = <<c[1], c[2]>>
  BY <1>1
<1>3. Outcomes(c)' = Outcomes(c) /\ Tasks(c)' = Tasks(c)
  BY DEF Outcomes, Tasks
<1>4. c \in (DOMAIN fires)' \X {1, 2}
  BY <1>2
<1>. QED BY <1>1, <1>2, <1>3, <1>4

LEMMA TriggerFirePreserves == ASSUME TriggerInv, Trigger!onFire PROVE TriggerInv'
<1>1. PICK n \in Nat : DOMAIN fires = 1 .. n
  BY DEF TriggerInv, TriggerTyped
<1>2. Trigger!Cardinality(Trigger!Fired) = n
  BY <1>1, TriggerCardinality, FS_Interval DEF Trigger!Fired
<1>3. PICK ctx : fires' = [f \in DOMAIN fires \cup {n + 1} |->
                             IF f = n + 1 THEN [ctx |-> ctx, state |-> "sent", status |-> 0]
                             ELSE fires[f]]
  BY <1>2 DEF Trigger!onFire, Trigger!Fired
<1>4. /\ isFiring' = n + 1 /\ firedAt' = clock
      /\ UNCHANGED <<card, result, workerCalls, written, waiting, loki, clock>>
  BY <1>2 DEF Trigger!onFire, Trigger!sink
<1>5. /\ DOMAIN fires' = 1 .. n + 1 /\ n + 1 \notin DOMAIN fires
      /\ \A f \in DOMAIN fires : f \in DOMAIN fires' /\ fires'[f] = fires[f]
      /\ fires'[n + 1] = [ctx |-> ctx, state |-> "sent", status |-> 0]
  BY <1>1, <1>3
<1>6. TriggerTyped'
  <2>1. \A f \in DOMAIN fires' :
          /\ fires'[f] = [ctx |-> fires'[f].ctx, state |-> fires'[f].state,
                          status |-> fires'[f].status]
          /\ fires'[f].state \in States
    <3> SUFFICES ASSUME NEW f \in DOMAIN fires'
                 PROVE  /\ fires'[f] = [ctx |-> fires'[f].ctx, state |-> fires'[f].state,
                                        status |-> fires'[f].status]
                        /\ fires'[f].state \in States
      OBVIOUS
    <3>1. CASE f = n + 1
      BY <1>5, <3>1 DEF States
    <3>2. CASE f # n + 1
      <4>1. f \in DOMAIN fires
        BY <1>1, <1>5, <3>2
      <4>. QED BY <1>5, <4>1 DEF TriggerInv, TriggerTyped
    <3>. QED BY <3>1, <3>2
  <2>2. n + 1 \in Nat /\ n + 1 \in DOMAIN fires' /\ DOMAIN fires' = 1 .. n + 1
    BY <1>1, <1>5
  <2>. QED BY <1>4, <2>1, <2>2 DEF TriggerInv, TriggerTyped
<1>7. TriggerLines'
  BY <1>4, <1>5 DEF TriggerInv, TriggerLines
<1>8. TriggerResult'
  BY <1>4, <1>5 DEF TriggerInv, TriggerResult, Trigger!NoResult
<1>9. TriggerCalls'
  BY <1>4, <1>5, CallsStay
<1>10. TriggerRows'
  BY <1>4, <1>5, RowsStay DEF TriggerInv, TriggerTyped
<1>. QED BY <1>6, <1>7, <1>8, <1>9, <1>10 DEF TriggerInv

LEMMA TriggerShownPreserves == ASSUME TriggerInv, Trigger!Shown PROVE TriggerInv'
<1>1. PICK target \in Trigger!explorerTarget(isFiring) :
        /\ isFiring # 0 /\ fires[isFiring].state = "answered" /\ isFiring' = 0
        /\ result' = [fire |-> isFiring, at |-> firedAt, shown |-> clock, target |-> target]
        /\ UNCHANGED <<card, firedAt, fires, workerCalls, written, waiting, loki, clock>>
  BY DEF Trigger!Shown, Trigger!sink
<1>2. isFiring \in DOMAIN fires /\ firedAt \in Nat /\ clock \in Nat /\ firedAt <= clock
      /\ 0 \notin DOMAIN fires
  BY <1>1 DEF TriggerInv, TriggerTyped
<1>3. /\ result'.fire = isFiring /\ result'.at = firedAt /\ result'.shown = clock
      /\ result'.target = target
  BY <1>1
<1>4. TriggerTyped'
  BY <1>1 DEF TriggerInv, TriggerTyped
<1>5. TriggerLines' /\ TriggerRows'
  <2>1. TriggerRows'
    BY <1>1, <1>2, <1>3, RowsStay
  <2>. QED BY <1>1, <2>1 DEF TriggerInv, TriggerLines
<1>6. TriggerResult'
  <2>1. CASE card = "burst"
    <3>1. target = [by |-> "window", logKey |-> "TRIGGER_BURST_TICK",
                    from |-> firedAt - BURST_PAD, to |-> clock + BURST_PAD]
      BY <2>1 DEF Trigger!explorerTarget
    <3>2. /\ result'.target.by = "window" /\ result'.target.logKey = "TRIGGER_BURST_TICK"
          /\ result'.target.from = firedAt - BURST_PAD
          /\ result'.target.to = result'.shown + BURST_PAD
      BY <1>3, <3>1
    <3>3. result'.target.from \in Int /\ result'.target.from <= firedAt
      BY <1>2, <3>2, TriggerAssumption
    <3>. QED BY <1>1, <1>2, <1>3, <2>1, <3>2, <3>3 DEF TriggerResult
  <2>2. CASE card # "burst"
    <3>1. target \in Trigger!ById(isFiring)
      BY <2>2 DEF Trigger!explorerTarget
    <3>2. target.by # "window" /\ (target.by = "range" \/ target.id = isFiring)
      BY <3>1 DEF Trigger!ById
    <3>. QED BY <1>1, <1>2, <1>3, <2>2, <3>2 DEF TriggerResult
  <2>. QED BY <2>1, <2>2
<1>7. TriggerCalls'
  BY <1>1 DEF TriggerInv, TriggerCalls, Outcomes, Tasks
<1>. QED BY <1>4, <1>5, <1>6, <1>7 DEF TriggerInv

LEMMA TriggerErrorPreserves == ASSUME TriggerInv, Trigger!NetworkError PROVE TriggerInv'
<1>1. /\ isFiring # 0 /\ isFiring' = 0
      /\ UNCHANGED <<card, firedAt, result, workerCalls, written, waiting, loki, clock>>
  BY DEF Trigger!NetworkError, Trigger!sink
<1>2. isFiring \in DOMAIN fires /\ 0 \notin DOMAIN fires
  BY <1>1 DEF TriggerInv, TriggerTyped
<1>3. /\ TriggerTyped' /\ DOMAIN fires' = DOMAIN fires
      /\ \A f \in DOMAIN fires : fires[f].state # "sent" => fires'[f] = fires[f]
  <2>1. CASE UNCHANGED fires
    BY <1>1, <2>1 DEF TriggerInv, TriggerTyped
  <2>2. CASE fires[isFiring].state = "sent" /\ fires' = [fires EXCEPT ![isFiring].state = "lost"]
    BY <1>1, <1>2, <2>2, FireChanges DEF TriggerInv, States
  <2>. QED BY <2>1, <2>2 DEF Trigger!NetworkError
<1>4. TriggerLines'
  BY <1>1, <1>2, <1>3 DEF TriggerInv, TriggerLines
<1>5. TriggerResult'
  BY <1>1, <1>3 DEF TriggerInv, TriggerResult, Trigger!NoResult
<1>6. TriggerCalls'
  BY <1>1, <1>3, CallsStay
<1>7. TriggerRows'
  BY <1>1, <1>2, RowsStay DEF TriggerInv, TriggerTyped
<1>. QED BY <1>3, <1>4, <1>5, <1>6, <1>7 DEF TriggerInv

LEMMA TriggerTickPreserves == ASSUME TriggerInv, Trigger!Tick PROVE TriggerInv'
<1>1. /\ clock' = clock + 1
      /\ UNCHANGED <<card, isFiring, firedAt, result, fires, workerCalls, written, waiting,
                     loki>>
  BY DEF Trigger!Tick, Trigger!sink
<1>2. clock \in Nat /\ firedAt \in Nat /\ firedAt <= clock
  BY DEF TriggerInv, TriggerTyped
<1>3. TriggerTyped'
  <2>1. clock' \in Nat /\ firedAt <= clock'
    BY <1>1, <1>2
  <2>. QED BY <1>1, <2>1 DEF TriggerInv, TriggerTyped
<1>4. TriggerLines' /\ TriggerRows'
  <2>1. TriggerRows'
    BY <1>1, <1>2, RowsStay
  <2>. QED BY <1>1, <2>1 DEF TriggerInv, TriggerLines
<1>5. TriggerResult'
  <2>1. result # Trigger!NoResult => result.at <= clock'
    BY <1>1, <1>2 DEF TriggerInv, TriggerResult
  <2>. QED BY <1>1, <2>1 DEF TriggerInv, TriggerResult, Trigger!NoResult
<1>6. TriggerCalls'
  BY <1>1 DEF TriggerInv, TriggerCalls, Outcomes, Tasks
<1>. QED BY <1>3, <1>4, <1>5, <1>6 DEF TriggerInv

\* A flush stamps what waits with the present, or loses it.
LEMMA TriggerFlushPreserves == ASSUME TriggerInv, Trigger!flush PROVE TriggerInv'
<1>1. /\ waiting' = {}
      /\ loki' \in {loki, loki \cup [line : waiting, stamp : {clock}]}
      /\ UNCHANGED <<card, isFiring, firedAt, result, fires, workerCalls, written, clock>>
  BY DEF Trigger!flush
<1>2. TriggerTyped' /\ TriggerLines' /\ TriggerResult'
  BY <1>1 DEF TriggerInv, TriggerTyped, TriggerLines, TriggerResult, Trigger!NoResult
<1>3. TriggerCalls'
  BY <1>1, CallsStay
<1>4. ASSUME NEW row \in loki', row \notin loki
      PROVE  row.line \in waiting /\ row.stamp = clock
  BY <1>1, <1>4
<1>5. \A l \in written : l.fire = result.fire => result.at <= clock
  BY DEF TriggerInv, TriggerTyped, TriggerLines, TriggerResult, Trigger!NoResult
<1>6. TriggerRows'
  <2> SUFFICES ASSUME NEW row \in loki'
               PROVE  /\ row.line \in written /\ row.line.service = "api"
                      /\ row.stamp \in Nat /\ row.stamp <= clock
                      /\ row.line.fire = isFiring => firedAt <= row.stamp
                      /\ row.line.fire = result.fire => result.at <= row.stamp
    BY <1>1 DEF TriggerRows
  <2>1. CASE row \in loki
    BY <2>1 DEF TriggerInv, TriggerRows
  <2>2. CASE row \notin loki
    <3>1. row.line \in written /\ row.line.service = "api" /\ row.stamp = clock
      BY <1>4, <2>2 DEF TriggerInv, TriggerRows
    <3>2. clock \in Nat /\ firedAt <= clock
      BY DEF TriggerInv, TriggerTyped
    <3>. QED BY <1>5, <3>1, <3>2
  <2>. QED BY <2>1, <2>2
<1>. QED BY <1>2, <1>3, <1>6 DEF TriggerInv

\* The handlers of every card but the dispatch, also when Postgres fails.
LEMMA TriggerHandlePreserves ==
  ASSUME TriggerInv, NEW id \in DOMAIN fires, Trigger!handle(id) \/ Trigger!OrderFails(id)
  PROVE  TriggerInv'
<1>1. /\ card # "dispatch" /\ fires[id].state = "sent"
      /\ \E v : fires' = Trigger!Answer(id, v)
      /\ written \subseteq written' /\ loki' = loki
      /\ written' \subseteq written \cup Trigger!Written(id, fires[id].ctx)
      /\ \A l \in waiting' : l \in waiting \/ (l \in written' /\ l.service = "api")
      /\ UNCHANGED <<card, isFiring, firedAt, result, workerCalls, clock>>
  <2>1. CASE Trigger!handle(id)
    <3>1. Trigger!Write(Trigger!Written(id, fires[id].ctx))
      BY <2>1 DEF Trigger!handle
    <3>2. /\ written' = written \cup Trigger!Written(id, fires[id].ctx) /\ loki' = loki
          /\ \A l \in waiting' : l \in waiting \/ (l \in written' /\ l.service = "api")
      BY <3>1, WritesAreHandedOn
    <3>. QED BY <2>1, <3>2, Zenon DEF Trigger!handle
  <2>2. CASE Trigger!OrderFails(id)
    <3>1. card = "order" /\ "order" # "dispatch"
      BY <2>2 DEF Trigger!OrderFails
    <3>2. UNCHANGED <<card, isFiring, firedAt, result, workerCalls, written, waiting, loki, clock>>
      BY <2>2 DEF Trigger!OrderFails, Trigger!sink
    <3>3. \E v : fires' = Trigger!Answer(id, v)
      BY <2>2, Zenon DEF Trigger!OrderFails
    <3>. QED BY <2>2, <3>1, <3>2, <3>3 DEF Trigger!OrderFails
  <2>. QED BY <2>1, <2>2
<1>2. PICK v : fires' = [fires EXCEPT ![id] = [@ EXCEPT !.state = "answered", !.status = v]]
  BY <1>1 DEF Trigger!Answer
<1>3. /\ TriggerTyped' /\ DOMAIN fires' = DOMAIN fires /\ fires'[id].state = "answered"
      /\ \A f \in DOMAIN fires : f # id => fires'[f] = fires[f]
  BY <1>1, <1>2, FireChanges DEF TriggerInv, States
<1>4. card \in Trigger!Cards /\ clock \in Nat /\ firedAt <= clock
  BY DEF TriggerInv, TriggerTyped
<1>5. \A l \in written' : l \notin written =>
        /\ l.fire = id /\ l.service = "api"
        /\ card = "burst" => l.logKey = "TRIGGER_BURST_TICK"
  BY <1>1, <1>4, HandlersWrite
<1>6. result.fire # id
  <2>1. CASE result = Trigger!NoResult
    <3>1. result.fire = 0
      BY <2>1 DEF Trigger!NoResult
    <3>. QED BY <3>1 DEF TriggerInv, TriggerTyped
  <2>2. CASE result # Trigger!NoResult
    BY <1>1, <2>2 DEF TriggerInv, TriggerResult
  <2>. QED BY <2>1, <2>2
<1>7. TriggerLines'
  <2> SUFFICES ASSUME NEW l \in written'
               PROVE  /\ l.fire \in DOMAIN fires' /\ fires'[l.fire].state \in {"running", "answered"}
                      /\ l.service = "api" /\ card = "burst" =>
                           l.logKey = "TRIGGER_BURST_TICK"
    BY <1>1 DEF TriggerLines
  <2>1. CASE l \in written
    BY <1>1, <1>3, <2>1 DEF TriggerInv, TriggerLines
  <2>2. CASE l \notin written
    BY <1>3, <1>4, <1>5, <1>6, <2>2
  <2>. QED BY <2>1, <2>2
<1>8. TriggerResult'
  BY <1>1, <1>3, <1>5, <1>6 DEF TriggerInv, TriggerResult, Trigger!NoResult
<1>9. TriggerCalls'
  BY <1>1 DEF TriggerInv, TriggerCalls
<1>10. TriggerRows'
  BY <1>1, <1>4, RowsStay
<1>. QED BY <1>3, <1>7, <1>8, <1>9, <1>10 DEF TriggerInv
\* A request without a line has no outcome, and a line has its place.
LEMMA OutcomesGrow ==
  ASSUME NEW c, NEW w, written' = written \cup w,
         \A l \in w : ~(l.fire = c[1] /\ l.logKey \in {SUCCESS, DEGRADED} /\ l.n = c[2])
  PROVE  Outcomes(c)' = Outcomes(c)
BY DEF Outcomes

LEMMA TasksGrow ==
  ASSUME NEW c, NEW w, written' = written \cup w,
         \A l \in w : ~(l.service = "worker" /\ l.fire = c[1] /\ l.path = c[2])
  PROVE  Tasks(c)' = Tasks(c)
BY DEF Tasks

\* The start of a dispatch.
LEMMA TriggerDispatchPreserves ==
  ASSUME TriggerInv, NEW id \in DOMAIN fires, Trigger!dispatch(id)
  PROVE  TriggerInv'
<1>. DEFINE w == {Trigger!Line(id, "DOWNSTREAM_DISPATCH_START", "info", 1),
                  Trigger!Line(id, "DOWNSTREAM_DISPATCH_MANUAL", "info", 1)}
<1>1. /\ card = "dispatch" /\ fires[id].state = "sent"
      /\ fires' = [fires EXCEPT ![id].state = "running"]
      /\ workerCalls' = [c \in DOMAIN workerCalls \cup ({id} \X {1, 2}) |->
                           IF c[1] = id THEN "sent" ELSE workerCalls[c]]
      /\ Trigger!Write(w)
      /\ UNCHANGED <<card, isFiring, firedAt, result, clock>>
  BY DEF Trigger!dispatch, Trigger!Paths
<1>2. /\ TriggerTyped' /\ DOMAIN fires' = DOMAIN fires /\ fires'[id].state = "running"
      /\ \A f \in DOMAIN fires : f # id => fires'[f] = fires[f]
  BY <1>1, FireChanges DEF TriggerInv, States
<1>3. \A l \in w : /\ l.fire = id /\ l.service = "api"
                   /\ l.logKey \notin {SUCCESS, DEGRADED}
  BY LineFields DEF SUCCESS, DEGRADED
<1>. HIDE DEF w
<1>w. /\ written' = written \cup w /\ loki' = loki
      /\ \A l \in waiting' : l \in waiting \/ (l \in written' /\ l.service = "api")
  BY <1>1, WritesAreHandedOn
<1>4. clock \in Nat /\ firedAt <= clock
  BY DEF TriggerInv, TriggerTyped
<1>5. result.fire # id
  <2>1. CASE result = Trigger!NoResult
    <3>1. result.fire = 0
      BY <2>1 DEF Trigger!NoResult
    <3>. QED BY <3>1 DEF TriggerInv, TriggerTyped
  <2>2. CASE result # Trigger!NoResult
    BY <1>1, <2>2 DEF TriggerInv, TriggerResult
  <2>. QED BY <2>1, <2>2
<1>6. TriggerLines'
  <2> SUFFICES ASSUME NEW l \in written'
               PROVE  /\ l.fire \in DOMAIN fires' /\ fires'[l.fire].state \in {"running", "answered"}
                      /\ l.service = "api" /\ card = "burst" =>
                           l.logKey = "TRIGGER_BURST_TICK"
    BY <1>1, <1>w DEF TriggerLines
  <2>1. CASE l \in written
    BY <1>1, <1>2, <2>1 DEF TriggerInv, TriggerLines
  <2>2. CASE l \notin written
    BY <1>1, <1>2, <1>3, <1>w, <2>2
  <2>. QED BY <2>1, <2>2
<1>7. TriggerResult'
  BY <1>1, <1>2, <1>5 DEF TriggerInv, TriggerResult, Trigger!NoResult
<1>8. TriggerCalls'
  <2> SUFFICES ASSUME NEW c \in DOMAIN workerCalls'
               PROVE  /\ c \in (DOMAIN fires)' \X {1, 2} /\ workerCalls'[c] \in CallStates
                      /\ fires'[c[1]].state \in {"running", "answered"}
                      /\ fires'[c[1]].state = "answered" => workerCalls'[c] \in {"ok", "degraded"}
                      /\ workerCalls'[c] \in {"accepted", "ok"} => Tasks(c)' = Processed(c)
                      /\ workerCalls'[c] \notin {"ok", "degraded"} => Outcomes(c)' = {}
                      /\ workerCalls'[c] = "ok" =>
                           \E l : Outcomes(c)' = {l} /\ l.logKey = SUCCESS
                      /\ workerCalls'[c] = "degraded" =>
                           \E l : Outcomes(c)' = {l} /\ l.logKey = DEGRADED
    BY <1>1 DEF TriggerCalls, Processed, Task
  <2>1. CASE c \in DOMAIN workerCalls
    <3>1. /\ c \in (DOMAIN fires) \X {1, 2} /\ workerCalls[c] \in CallStates
          /\ fires[c[1]].state \in {"running", "answered"}
      BY <2>1 DEF TriggerInv, TriggerCalls
    <3>2. c[1] \in DOMAIN fires /\ c[1] # id
      BY <1>1, <3>1
    <3>3. workerCalls'[c] = workerCalls[c] /\ fires'[c[1]] = fires[c[1]]
      BY <1>1, <1>2, <3>2
    <3>4. Outcomes(c)' = Outcomes(c)
      BY <1>1, <1>3, <1>w, OutcomesGrow
    <3>5. Tasks(c)' = Tasks(c)
      BY <1>1, <1>3, <1>w, TasksGrow
    <3>. QED BY <1>2, <2>1, <3>1, <3>3, <3>4, <3>5 DEF TriggerInv, TriggerCalls
  <2>2. CASE c \notin DOMAIN workerCalls
    <3>1. c \in {id} \X {1, 2}
      BY <1>1, <2>2
    <3>2. c[1] = id /\ c \in (DOMAIN fires) \X {1, 2}
      BY <3>1
    <3>3. workerCalls'[c] = "sent"
      BY <1>1, <3>1, <3>2
    <3>4. Outcomes(c) = {}
      BY <1>1, <3>2 DEF Outcomes, TriggerInv, TriggerLines
    <3>5. Outcomes(c)' = {}
      BY <1>1, <1>3, <1>w, <3>4, OutcomesGrow
    <3>. QED BY <1>2, <3>2, <3>3, <3>5 DEF CallStates
  <2>. QED BY <2>1, <2>2
<1>9. TriggerRows'
  BY <1>1, <1>4, <1>w, RowsStay
<1>. QED BY <1>2, <1>6, <1>7, <1>8, <1>9 DEF TriggerInv

\* The answer of a dispatch, once both calls are settled.
LEMMA TriggerDonePreserves ==
  ASSUME TriggerInv, NEW id \in DOMAIN fires, Trigger!DispatchDone(id)
  PROVE  TriggerInv'
<1>1. /\ fires[id].state = "running" /\ Trigger!Settled(id)
      /\ fires' = [fires EXCEPT ![id] = [@ EXCEPT !.state = "answered", !.status = 201]]
      /\ UNCHANGED <<card, isFiring, firedAt, result, workerCalls, written, waiting, loki, clock>>
  BY DEF Trigger!DispatchDone, Trigger!Answer, Trigger!sink
<1>2. /\ TriggerTyped' /\ DOMAIN fires' = DOMAIN fires /\ fires'[id].state = "answered"
      /\ \A f \in DOMAIN fires : f # id => fires'[f] = fires[f]
  BY <1>1, FireChanges DEF TriggerInv, States
<1>3. result.fire # id
  <2>1. CASE result = Trigger!NoResult
    <3>1. result.fire = 0
      BY <2>1 DEF Trigger!NoResult
    <3>. QED BY <3>1 DEF TriggerInv, TriggerTyped
  <2>2. CASE result # Trigger!NoResult
    BY <1>1, <2>2 DEF TriggerInv, TriggerResult
  <2>. QED BY <2>1, <2>2
<1>4. TriggerLines'
  BY <1>1, <1>2 DEF TriggerInv, TriggerLines
<1>5. TriggerResult'
  BY <1>1, <1>2, <1>3 DEF TriggerInv, TriggerResult, Trigger!NoResult
<1>6. TriggerCalls'
  <2> SUFFICES ASSUME NEW c \in DOMAIN workerCalls
               PROVE  /\ c \in (DOMAIN fires)' \X {1, 2}
                      /\ fires'[c[1]].state \in {"running", "answered"}
                      /\ fires'[c[1]].state = "answered" => workerCalls[c] \in {"ok", "degraded"}
                      /\ Outcomes(c)' = Outcomes(c) /\ Tasks(c)' = Tasks(c)
    BY <1>1 DEF TriggerInv, TriggerCalls, Processed, Task
  <2>1. /\ c \in (DOMAIN fires) \X {1, 2} /\ fires[c[1]].state \in {"running", "answered"}
        /\ fires[c[1]].state = "answered" => workerCalls[c] \in {"ok", "degraded"}
    BY DEF TriggerInv, TriggerCalls
  <2>2. c[1] \in DOMAIN fires /\ c[2] \in {1, 2} /\ c = <<c[1], c[2]>>
    BY <2>1
  <2>3. c[1] = id => workerCalls[c] \in {"ok", "degraded"}
    BY <1>1, <2>2 DEF Trigger!Settled, Trigger!Paths
  <2>4. Outcomes(c)' = Outcomes(c) /\ Tasks(c)' = Tasks(c)
    BY <1>1 DEF Outcomes, Tasks
  <2>. QED BY <1>2, <2>1, <2>2, <2>3, <2>4
<1>7. TriggerRows'
  BY <1>1, RowsStay DEF TriggerInv, TriggerTyped
<1>. QED BY <1>2, <1>4, <1>5, <1>6, <1>7 DEF TriggerInv

\* What is left of the invariant when the calls change and lines of theirs appear.
LEMMA CallLinesPreserve ==
  ASSUME TriggerInv, NEW c \in DOMAIN workerCalls, NEW w, written' = written \cup w,
         \A l \in w : l.fire = c[1], loki' = loki,
         \A l \in waiting' : l \in waiting \/ (l \in written' /\ l.service = "api"),
         DOMAIN workerCalls' = DOMAIN workerCalls,
         \A b \in DOMAIN workerCalls : b # c => workerCalls'[b] = workerCalls[b],
         UNCHANGED <<card, isFiring, firedAt, result, fires, clock>>,
         /\ workerCalls'[c] \in CallStates
         /\ workerCalls[c] \in {"ok", "degraded"} => workerCalls'[c] \in {"ok", "degraded"}
         /\ workerCalls'[c] \in {"accepted", "ok"} => Tasks(c)' = Processed(c)
         /\ workerCalls'[c] \notin {"ok", "degraded"} => Outcomes(c)' = {}
         /\ workerCalls'[c] = "ok" => \E l : Outcomes(c)' = {l} /\ l.logKey = SUCCESS
         /\ workerCalls'[c] = "degraded" =>
              \E l : Outcomes(c)' = {l} /\ l.logKey = DEGRADED,
         \A b \in DOMAIN workerCalls :
           b # c => Outcomes(b)' = Outcomes(b) /\ Tasks(b)' = Tasks(b)
  PROVE  TriggerInv'
<1>1. /\ c \in (DOMAIN fires) \X {1, 2} /\ fires[c[1]].state \in {"running", "answered"}
      /\ card = "dispatch"
      /\ fires[c[1]].state = "answered" => workerCalls[c] \in {"ok", "degraded"}
  BY DEF TriggerInv, TriggerCalls
<1>2. c[1] \in DOMAIN fires
  BY <1>1
<1>3. clock \in Nat /\ firedAt <= clock
  BY DEF TriggerInv, TriggerTyped
<1>4. TriggerRows'
  BY <1>3, RowsStay
<1>5. TriggerTyped'
  BY DEF TriggerInv, TriggerTyped
<1>6. TriggerLines'
  <2> SUFFICES ASSUME NEW l \in written'
               PROVE  l.fire \in DOMAIN fires /\ fires[l.fire].state \in {"running", "answered"}
    BY <1>1 DEF TriggerLines
  <2>1. CASE l \in written
    BY <2>1 DEF TriggerInv, TriggerLines
  <2>2. CASE l \in w
    BY <1>1, <1>2, <2>2
  <2>. QED BY <2>1, <2>2
<1>7. TriggerResult'
  BY <1>1 DEF TriggerInv, TriggerResult, Trigger!NoResult
<1>8. TriggerCalls'
  <2> SUFFICES ASSUME NEW b \in DOMAIN workerCalls
               PROVE  /\ b \in (DOMAIN fires) \X {1, 2} /\ workerCalls'[b] \in CallStates
                      /\ fires[b[1]].state \in {"running", "answered"}
                      /\ fires[b[1]].state = "answered" => workerCalls'[b] \in {"ok", "degraded"}
                      /\ workerCalls'[b] \in {"accepted", "ok"} => Tasks(b)' = Processed(b)
                      /\ workerCalls'[b] \notin {"ok", "degraded"} => Outcomes(b)' = {}
                      /\ workerCalls'[b] = "ok" =>
                           \E l : Outcomes(b)' = {l} /\ l.logKey = SUCCESS
                      /\ workerCalls'[b] = "degraded" =>
                           \E l : Outcomes(b)' = {l} /\ l.logKey = DEGRADED
    BY <1>1 DEF TriggerCalls, Processed, Task
  <2>1. CASE b = c
    BY <1>1, <2>1
  <2>2. CASE b # c
    BY <2>2 DEF TriggerInv, TriggerCalls
  <2>. QED BY <2>1, <2>2
<1>. QED BY <1>4, <1>5, <1>6, <1>7, <1>8 DEF TriggerInv

\* Two calls differ in their request or in their path.
LEMMA OtherCalls ==
  ASSUME TriggerInv, NEW b \in DOMAIN workerCalls, NEW c \in DOMAIN workerCalls, b # c
  PROVE  b[1] # c[1] \/ b[2] # c[2]
<1>1. b \in (DOMAIN fires) \X {1, 2} /\ c \in (DOMAIN fires) \X {1, 2}
  BY DEF TriggerInv, TriggerCalls
<1>. QED BY <1>1

LEMMA TriggerProcessPreserves ==
  ASSUME TriggerInv, NEW c \in DOMAIN workerCalls, Trigger!process(c)
  PROVE  TriggerInv'
<1>. DEFINE now1 == IF workerCalls[c] = "sent" THEN "accepted" ELSE workerCalls[c]
<1>1. /\ workerCalls[c] \in {"sent", "degraded"} /\ Tasks(c) = {}
      /\ workerCalls' = [workerCalls EXCEPT ![c] = now1]
      /\ written' = written \cup Processed(c) /\ loki' = loki
      /\ \A l \in waiting' : l \in waiting \/ (l \in written' /\ l.service = "api")
      /\ UNCHANGED <<card, isFiring, firedAt, result, fires, clock>>
  <2>1. Trigger!Write(Processed(c))
    BY DEF Trigger!process, Processed, Task
  <2>2. /\ written' = written \cup Processed(c) /\ loki' = loki
        /\ \A l \in waiting' : l \in waiting \/ (l \in written' /\ l.service = "api")
    BY <2>1, WritesAreHandedOn
  <2>. QED BY <2>2 DEF Trigger!process, Tasks
<1>2. \A l \in Processed(c) : /\ l.fire = c[1] /\ l.service = "worker" /\ l.path = c[2]
                              /\ l.logKey \notin {SUCCESS, DEGRADED}
  BY DEF Processed, Task, SUCCESS, DEGRADED
<1>3. Tasks(c)' = Processed(c)
  BY <1>1, <1>2 DEF Tasks
<1>4. Outcomes(c)' = Outcomes(c)
  BY <1>1, <1>2, OutcomesGrow
<1>5. \A b \in DOMAIN workerCalls :
        b # c => Outcomes(b)' = Outcomes(b) /\ Tasks(b)' = Tasks(b)
  <2> SUFFICES ASSUME NEW b \in DOMAIN workerCalls, b # c
               PROVE  Outcomes(b)' = Outcomes(b) /\ Tasks(b)' = Tasks(b)
    OBVIOUS
  <2>1. b[1] # c[1] \/ b[2] # c[2]
    BY OtherCalls
  <2>2. Outcomes(b)' = Outcomes(b)
    BY <1>1, <1>2, OutcomesGrow
  <2>3. Tasks(b)' = Tasks(b)
    BY <1>1, <1>2, <2>1, TasksGrow
  <2>. QED BY <2>2, <2>3
<1>6. /\ DOMAIN workerCalls' = DOMAIN workerCalls /\ workerCalls'[c] = now1
      /\ \A b \in DOMAIN workerCalls : b # c => workerCalls'[b] = workerCalls[b]
  BY <1>1
<1>7. CASE workerCalls[c] = "sent"
  <2>1. workerCalls'[c] = "accepted" /\ Outcomes(c)' = {}
    BY <1>4, <1>6, <1>7 DEF TriggerInv, TriggerCalls
  <2>. QED BY <1>1, <1>2, <1>3, <1>5, <1>6, <2>1, CallLinesPreserve DEF CallStates
<1>8. CASE workerCalls[c] = "degraded"
  <2>1. workerCalls'[c] = "degraded" /\ \E l : Outcomes(c)' = {l} /\ l.logKey = DEGRADED
    BY <1>4, <1>6, <1>8 DEF TriggerInv, TriggerCalls
  <2>. QED BY <1>1, <1>2, <1>5, <1>6, <2>1, CallLinesPreserve DEF CallStates
<1>. QED BY <1>1, <1>7, <1>8

LEMMA TriggerRefusePreserves ==
  ASSUME TriggerInv, NEW c \in DOMAIN workerCalls, Trigger!Refuse(c)
  PROVE  TriggerInv'
<1>1. /\ workerCalls[c] = "sent" /\ workerCalls' = [workerCalls EXCEPT ![c] = "refused"]
      /\ UNCHANGED <<card, isFiring, firedAt, result, fires, written, waiting, loki, clock>>
  BY DEF Trigger!Refuse, Trigger!sink
<1>2. /\ DOMAIN workerCalls' = DOMAIN workerCalls /\ workerCalls'[c] = "refused"
      /\ \A b \in DOMAIN workerCalls : b # c => workerCalls'[b] = workerCalls[b]
  BY <1>1
<1>3. \A b : Outcomes(b)' = Outcomes(b) /\ Tasks(b)' = Tasks(b)
  BY <1>1 DEF Outcomes, Tasks
<1>4. Outcomes(c)' = {}
  BY <1>1, <1>3 DEF TriggerInv, TriggerCalls
<1>5. written' = written \cup {}
  BY <1>1
<1>. QED BY <1>1, <1>2, <1>3, <1>4, <1>5, CallLinesPreserve DEF CallStates

\* A call ends, well or degraded, with its line.
LEMMA TriggerOutcomePreserves ==
  ASSUME TriggerInv, NEW c \in DOMAIN workerCalls, Trigger!Succeed(c) \/ Trigger!Degrade(c)
  PROVE  TriggerInv'
<1>1. PICK state, key, level :
        /\ Trigger!Outcome(c, state, key, level)
        /\ \/ state = "ok" /\ key = SUCCESS /\ workerCalls[c] = "accepted"
           \/ state = "degraded" /\ key = DEGRADED
        /\ workerCalls[c] \in {"sent", "accepted", "refused"}
  BY DEF Trigger!Succeed, Trigger!Answered, Trigger!Degrade, SUCCESS, DEGRADED
<1>2. PICK new : new = Trigger!Line(c[1], key, level, c[2])
  OBVIOUS
<1>3. new.fire = c[1] /\ new.service = "api" /\ new.logKey = key /\ new.n = c[2]
  BY <1>2, LineFields
<1>4. /\ workerCalls' = [workerCalls EXCEPT ![c] = state] /\ written' = written \cup {new}
      /\ \A l \in waiting' : l \in waiting \/ (l \in written' /\ l.service = "api")
      /\ loki' = loki /\ UNCHANGED <<card, isFiring, firedAt, result, fires, clock>>
  <2>1. Trigger!Write({new})
    BY <1>1, <1>2 DEF Trigger!Outcome
  <2>. QED BY <1>1, <2>1, WritesAreHandedOn DEF Trigger!Outcome
<1>5. /\ DOMAIN workerCalls' = DOMAIN workerCalls /\ workerCalls'[c] = state
      /\ \A b \in DOMAIN workerCalls : b # c => workerCalls'[b] = workerCalls[b]
  BY <1>4
<1>6. Outcomes(c) = {}
  BY <1>1 DEF TriggerInv, TriggerCalls
<1>7. key \in {SUCCESS, DEGRADED}
  BY <1>1
<1>8. Outcomes(c)' = {new}
  BY <1>3, <1>4, <1>6, <1>7 DEF Outcomes
<1>9. \A b \in DOMAIN workerCalls :
        Tasks(b)' = Tasks(b) /\ (b # c => Outcomes(b)' = Outcomes(b))
  <2> SUFFICES ASSUME NEW b \in DOMAIN workerCalls
               PROVE  Tasks(b)' = Tasks(b) /\ (b # c => Outcomes(b)' = Outcomes(b))
    OBVIOUS
  <2>1. Tasks(b)' = Tasks(b)
    BY <1>3, <1>4 DEF Tasks
  <2>2. ASSUME b # c PROVE Outcomes(b)' = Outcomes(b)
    <3>1. b[1] # c[1] \/ b[2] # c[2]
      BY <2>2, OtherCalls
    <3>. QED BY <1>3, <1>4, <3>1 DEF Outcomes
  <2>. QED BY <2>1, <2>2
<1>10. state = "ok" => Tasks(c)' = Processed(c)
  BY <1>1, <1>9 DEF TriggerInv, TriggerCalls
<1>11. state \in {"ok", "degraded"} /\ new.logKey = key
       /\ (state = "ok" => key = SUCCESS) /\ (state = "degraded" => key = DEGRADED)
  BY <1>1, <1>3
<1>. QED BY <1>3, <1>4, <1>5, <1>8, <1>9, <1>10, <1>11, CallLinesPreserve DEF CallStates

LEMMA TriggerInitHolds == ASSUME Trigger!Init PROVE TriggerInv
<1>1. /\ card \in Trigger!Cards /\ isFiring = 0 /\ firedAt = 0 /\ result = Trigger!NoResult
      /\ fires = <<>> /\ workerCalls = <<>> /\ written = {} /\ clock = 0
      /\ waiting = {} /\ loki = {}
  BY DEF Trigger!Init
<1>2. DOMAIN fires = 1 .. 0 /\ DOMAIN workerCalls = {} /\ 0 \in Nat
  BY <1>1
<1>. QED BY <1>1, <1>2 DEF TriggerInv, TriggerTyped, TriggerLines, TriggerRows, TriggerResult,
                         TriggerCalls

LEMMA TriggerNextPreserves == ASSUME TriggerInv, [Trigger!Next]_(Trigger!vars) PROVE TriggerInv'
<1>1. CASE UNCHANGED Trigger!vars
  <2>1. UNCHANGED <<card, isFiring, firedAt, result, fires, workerCalls, written, waiting,
                    loki, clock>>
    BY <1>1 DEF Trigger!vars, Trigger!sink
  <2>2. TriggerCalls'
    BY <2>1, CallsStay
  <2>. QED
    BY <2>1, <2>2 DEF TriggerInv, TriggerTyped, TriggerLines, TriggerRows, TriggerResult
<1>. QED BY <1>1, TriggerFirePreserves, TriggerShownPreserves, TriggerErrorPreserves,
            TriggerTickPreserves, TriggerFlushPreserves, TriggerHandlePreserves, TriggerDispatchPreserves,
            TriggerDonePreserves, TriggerProcessPreserves, TriggerRefusePreserves,
            TriggerOutcomePreserves DEF Trigger!Next, Trigger!Fired

\* The end of a relative range lags behind the present by less than two quanta.
LEMMA RangesEndNow ==
  ASSUME clock \in Nat, NEW opened \in 0 .. clock
  PROVE  /\ Trigger!End(opened) \in Int /\ Trigger!End(opened) <= clock
         /\ clock - 2 * QUANTUM < Trigger!End(opened)
<1>1. QUANTUM \in Nat /\ QUANTUM > 0
  BY TriggerAssumption
<1>2. \A a \in Int : a % QUANTUM \in 0 .. QUANTUM - 1
  BY <1>1
<1>3. /\ Trigger!Ticked(opened) \in Int /\ Trigger!Ticked(opened) <= clock
      /\ clock - QUANTUM < Trigger!Ticked(opened)
  <2>1. PICK r \in 0 .. QUANTUM - 1 : r = (clock - opened) % QUANTUM
    BY <1>2
  <2>2. Trigger!Ticked(opened) = clock - r
    BY <2>1 DEF Trigger!Ticked
  <2>. QED BY <1>1, <2>1, <2>2
<1>4. PICK t \in Int : t = Trigger!Ticked(opened)
  BY <1>3
<1>5. PICK r \in 0 .. QUANTUM - 1 : r = t % QUANTUM
  BY <1>2
<1>6. Trigger!End(opened) = t - r
  BY <1>4, <1>5 DEF Trigger!End
<1>. QED BY <1>1, <1>3, <1>4, <1>5, <1>6

LEMMA TriggerInvImpliesLinks == TriggerInv => Trigger!LinkLeadsToTheFire
<1> SUFFICES ASSUME TriggerInv, result # Trigger!NoResult,
                    NEW row \in loki, NEW opened \in 0 .. clock,
                    row.line.fire = result.fire,
                    IF card = "burst"
                    THEN row.stamp < result.shown + BURST_PAD
                    ELSE row.stamp + 2 * QUANTUM <= clock /\ clock - RANGE <= row.stamp
             PROVE  row \in Trigger!Linked(result.target, opened)
  BY DEF Trigger!LinkLeadsToTheFire
<1>1. /\ row.line \in written /\ row.line.service = "api"
      /\ row.stamp \in Nat /\ result.at <= row.stamp
  BY DEF TriggerInv, TriggerRows
<1>2. result.at \in Nat /\ clock \in Nat
  BY DEF TriggerInv, TriggerResult, TriggerTyped
<1>3. CASE card = "burst"
  <2>1. /\ result.target.by = "window" /\ result.target.logKey = "TRIGGER_BURST_TICK"
        /\ result.target.from \in Int /\ result.target.from <= result.at
        /\ result.target.to = result.shown + BURST_PAD
    BY <1>3 DEF TriggerInv, TriggerResult
  <2>2. row.line.logKey = "TRIGGER_BURST_TICK"
    BY <1>1, <1>3 DEF TriggerInv, TriggerLines
  <2>3. result.target.from <= row.stamp
    BY <1>1, <1>2, <2>1
  <2>. QED BY <1>3, <2>1, <2>2, <2>3 DEF Trigger!Linked
<1>4. CASE card # "burst"
  <2>1. /\ result.target.by # "window"
        /\ result.target.by = "range" \/ row.line.fire = result.target.id
    BY <1>4 DEF TriggerInv, TriggerResult
  <2>2. PICK end \in Int : end = Trigger!End(opened)
    BY <1>2, RangesEndNow
  <2>3. end <= clock /\ clock - 2 * QUANTUM < end
    BY <1>2, <2>2, RangesEndNow
  <2>4. row.stamp < end /\ end - RANGE <= row.stamp
    BY <1>1, <1>2, <1>4, <2>3, TriggerAssumption
  <2>. QED BY <2>1, <2>2, <2>4 DEF Trigger!Linked
<1>. QED BY <1>3, <1>4

LEMMA TriggerInvImpliesDispatch == TriggerInv => Trigger!DispatchTellsTheTruth
<1> SUFFICES ASSUME TriggerInv, NEW c \in DOMAIN workerCalls
             PROVE  /\ workerCalls[c] = "ok" => Trigger!Cardinality(Tasks(c)) = 2
                    /\ fires[c[1]].state = "answered" => Trigger!Cardinality(Outcomes(c)) = 1
                    /\ \A l \in Outcomes(c) :
                         workerCalls[c] = IF l.logKey = SUCCESS THEN "ok" ELSE "degraded"
  BY Zenon DEF Trigger!DispatchTellsTheTruth, Tasks, Outcomes, SUCCESS, DEGRADED
<1>1. ASSUME workerCalls[c] = "ok" PROVE Trigger!Cardinality(Tasks(c)) = 2
  <2>1. PICK a, b : a = Task(c, "WORKER_TASK_RECEIVED") /\ b = Task(c, "WORKER_TASK_PROCESSED")
    OBVIOUS
  <2>2. a.logKey = "WORKER_TASK_RECEIVED" /\ b.logKey = "WORKER_TASK_PROCESSED"
    BY <2>1 DEF Task
  <2>3. Tasks(c) = {a} \cup {b} /\ b \notin {a}
    BY <1>1, <2>1, <2>2 DEF TriggerInv, TriggerCalls, Processed
  <2>4. IsFiniteSet({a}) /\ Cardinality({a}) = 1
    BY FS_Singleton
  <2>5. Cardinality({a} \cup {b}) = 2
    BY <2>3, <2>4, FS_AddElement
  <2>. QED BY <2>3, <2>5, TriggerCardinality
<1>2. ASSUME fires[c[1]].state = "answered" PROVE Trigger!Cardinality(Outcomes(c)) = 1
  <2>1. PICK l : Outcomes(c) = {l}
    BY <1>2 DEF TriggerInv, TriggerCalls
  <2>. QED BY <2>1, FS_Singleton, TriggerCardinality
<1>3. ASSUME NEW l \in Outcomes(c)
      PROVE  workerCalls[c] = IF l.logKey = SUCCESS THEN "ok" ELSE "degraded"
  <2>1. CASE workerCalls[c] = "ok"
    BY <1>3, <2>1 DEF TriggerInv, TriggerCalls
  <2>2. CASE workerCalls[c] = "degraded"
    BY <1>3, <2>2 DEF TriggerInv, TriggerCalls, SUCCESS, DEGRADED
  <2>3. CASE workerCalls[c] \notin {"ok", "degraded"}
    BY <1>3, <2>3 DEF TriggerInv, TriggerCalls
  <2>. QED BY <2>1, <2>2, <2>3
<1>. QED BY <1>1, <1>2, <1>3

\* TriggerCard, the handlers and the worker keep this invariant.
THEOREM TriggerInvariant == Trigger!Spec => []TriggerInv
<1>1. Trigger!Init => TriggerInv
  BY TriggerInitHolds
<1>2. TriggerInv /\ [Trigger!Next]_(Trigger!vars) => TriggerInv'
  BY TriggerNextPreserves
<1>. QED BY <1>1, <1>2, PTL DEF Trigger!Spec

(***************************************************************************)
(* Retention is proved about in a module of its own, under its own names.  *)
(***************************************************************************)

RetainP == INSTANCE RetentionProofs WITH
  rows <- aged, calls <- retentionCalls, query <- retentionQuery,
  unsure <- retentionUnsure, restarts <- retentionRestarts

\* What that module takes from the library is what this one takes from it.
LEMMA SweepFinite == \A S : RetainP!IsFiniteSet(S) <=> IsFiniteSet(S)
BY DEF RetainP!IsFiniteSet, IsFiniteSet

LEMMA RetentionAssumed == RetainP!RetentionAssumption
BY SweepAssumption, SweepFinite DEF RetainP!RetentionAssumption

LEMMA SameRetentionCache ==
  /\ \A q, x : Retain!Cache!Answer(q, x) = RetainP!Cache!Answer(q, x)
  /\ \A q : /\ Retain!Cache!Fail(q) = RetainP!Cache!Fail(q)
            /\ Retain!Cache!Deliver(q) = RetainP!Cache!Deliver(q)
            /\ Retain!Cache!Invalidate(q) = RetainP!Cache!Invalidate(q)
            /\ Retain!Cache!Joins(q) <=> RetainP!Cache!Joins(q)
            /\ Retain!Cache!Settled(q) <=> RetainP!Cache!Settled(q)
  /\ Retain!Cache!FirstLoad = RetainP!Cache!FirstLoad
<1>. USE DEF Retain!Cache!NoData, RetainP!Cache!NoData
<1>1. \A q, x : Retain!Cache!Answer(q, x) = RetainP!Cache!Answer(q, x)
  BY DEF Retain!Cache!Answer, RetainP!Cache!Answer
<1>2. \A q : Retain!Cache!Fail(q) = RetainP!Cache!Fail(q)
  BY DEF Retain!Cache!Fail, RetainP!Cache!Fail
<1>3. \A q : Retain!Cache!Deliver(q) = RetainP!Cache!Deliver(q)
  BY DEF Retain!Cache!Deliver, RetainP!Cache!Deliver
<1>4. \A q : Retain!Cache!Joins(q) <=> RetainP!Cache!Joins(q)
  BY DEF Retain!Cache!Joins, RetainP!Cache!Joins
<1>5. \A q : Retain!Cache!Invalidate(q) = RetainP!Cache!Invalidate(q)
  BY <1>4 DEF Retain!Cache!Invalidate, RetainP!Cache!Invalidate
<1>6. \A q : Retain!Cache!Settled(q) <=> RetainP!Cache!Settled(q)
  BY DEF Retain!Cache!Settled, RetainP!Cache!Settled
<1>7. Retain!Cache!FirstLoad = RetainP!Cache!FirstLoad
  BY DEF Retain!Cache!FirstLoad, RetainP!Cache!FirstLoad
<1>. QED BY <1>1, <1>2, <1>3, <1>4, <1>5, <1>6, <1>7

LEMMA SameRetentionCounts ==
  /\ \A S : Retain!Cardinality(S) = RetainP!Cardinality(S)
  /\ \A S : Retain!Last(S) = RetainP!Last(S)
  /\ \A k : Retain!Expired(k) = RetainP!Expired(k)
BY DEF Retain!Cardinality, RetainP!Cardinality, Retain!Last, RetainP!Last, Retain!Expired,
       RetainP!Expired

LEMMA SameRetentionInit == Retain!Init => RetainP!Init
BY SameRetentionCache DEF Retain!Init, RetainP!Init

LEMMA SameRetentionNext == Retain!Next => RetainP!Next
<1>. USE DEF Retain!panel, RetainP!panel, Retain!history, RetainP!history
<1>1. Retain!sweep => RetainP!sweep
  BY DEF Retain!sweep, RetainP!sweep
<1>2. Retain!deleteMany => RetainP!deleteMany
  BY SameRetentionCounts DEF Retain!deleteMany, RetainP!deleteMany
<1>3. Retain!getStatus => RetainP!getStatus
  BY DEF Retain!getStatus, RetainP!getStatus
<1>4. Retain!count => RetainP!count
  BY SameRetentionCounts DEF Retain!count, RetainP!count
<1>5. Retain!returnStatus => RetainP!returnStatus
  BY SameRetentionCache DEF Retain!returnStatus, RetainP!returnStatus
<1>6. Retain!Restart => RetainP!Restart
  BY SameRetentionCache DEF Retain!Restart, RetainP!Restart
<1>7. Retain!statusArrives => RetainP!statusArrives
  BY SameRetentionCache DEF Retain!statusArrives, RetainP!statusArrives
<1>8. Retain!save => RetainP!save
  BY DEF Retain!save, RetainP!save, Retain!Send, RetainP!Send, Retain!Unanswered,
         RetainP!Unanswered
<1>9. ASSUME NEW d PROVE /\ Retain!SomeoneSaves(d) => RetainP!SomeoneSaves(d)
                         /\ Retain!onTtlChange(d) => RetainP!onTtlChange(d)
  BY DEF Retain!SomeoneSaves, RetainP!SomeoneSaves, Retain!Send, RetainP!Send,
         Retain!onTtlChange, RetainP!onTtlChange
<1>10. ASSUME NEW c
       PROVE  /\ Retain!setRetentionDays(c) => RetainP!setRetentionDays(c)
              /\ Retain!record(c) => RetainP!record(c)
              /\ Retain!statusRead(c) => RetainP!statusRead(c)
              /\ Retain!onSuccess(c) => RetainP!onSuccess(c)
              /\ Retain!onError(c) => RetainP!onError(c)
  <2>. USE DEF Retain!Unanswered, RetainP!Unanswered, Retain!Answered, RetainP!Answered
  <2>1. Retain!setRetentionDays(c) => RetainP!setRetentionDays(c)
    BY DEF Retain!setRetentionDays, RetainP!setRetentionDays, Retain!Under, RetainP!Under
  <2>2. Retain!record(c) => RetainP!record(c)
    BY DEF Retain!record, RetainP!record
  <2>3. Retain!statusRead(c) => RetainP!statusRead(c)
    BY DEF Retain!statusRead, RetainP!statusRead
  <2>4. Retain!onSuccess(c) => RetainP!onSuccess(c)
    BY SameRetentionCache DEF Retain!onSuccess, RetainP!onSuccess
  <2>5. Retain!onError(c) => RetainP!onError(c)
    BY DEF Retain!onError, RetainP!onError
  <2>. QED BY <2>1, <2>2, <2>3, <2>4, <2>5
<1>. QED
  BY <1>1, <1>2, <1>3, <1>4, <1>5, <1>6, <1>7, <1>8, <1>9, <1>10 DEF Retain!Next, RetainP!Next

\* A behaviour of the view is one that RetentionProofs speaks of.
LEMMA SameRetentionSpec == Retain!Spec => RetainP!Spec
<1>1. Retain!Init => RetainP!Init
  BY SameRetentionInit
<1>2. [Retain!Next]_(Retain!vars) => [RetainP!Next]_(RetainP!vars)
  BY SameRetentionNext
     DEF Retain!vars, RetainP!vars, Retain!panel, RetainP!panel, Retain!history, RetainP!history
<1>. QED BY <1>1, <1>2, PTL DEF Retain!Spec, RetainP!Spec

LEMMA SameRetentionProperties ==
  /\ RetainP!NoRowLeavesEarly => Retain!NoRowLeavesEarly
  /\ RetainP!AuditNamesTheWindow => Retain!AuditNamesTheWindow
  /\ RetainP!QuietPanelIsCurrent => Retain!QuietPanelIsCurrent
<1>1. RetainP!NoRowLeavesEarly => Retain!NoRowLeavesEarly
  BY DEF RetainP!NoRowLeavesEarly, Retain!NoRowLeavesEarly
<1>2. RetainP!AuditNamesTheWindow => Retain!AuditNamesTheWindow
  BY SameRetentionCounts
     DEF RetainP!AuditNamesTheWindow, Retain!AuditNamesTheWindow, RetainP!WrittenNow,
         Retain!WrittenNow, RetainP!Under, Retain!Under
<1>3. RetainP!QuietPanelIsCurrent => Retain!QuietPanelIsCurrent
  BY SameRetentionCounts, SameRetentionCache
     DEF RetainP!QuietPanelIsCurrent, Retain!QuietPanelIsCurrent, RetainP!Unanswered,
         Retain!Unanswered
<1>. QED BY <1>1, <1>2, <1>3

(***************************************************************************)
(* The Overview.                                                           *)
(***************************************************************************)

\* A sum lies between so many times its smallest and its greatest part.
LEMMA SumOverBounds ==
  ASSUME NEW S, IsFiniteSet(S), NEW h \in [S -> Int], NEW low \in Int, NEW high \in Int,
         \A x \in S : low <= h[x] /\ h[x] <= high
  PROVE  /\ SumOver(S, h) \in Int
         /\ low * Cardinality(S) <= SumOver(S, h)
         /\ SumOver(S, h) <= high * Cardinality(S)
<1>0. PICK g : Sums(g, S, h) /\ SumOver(S, h) = g[S]
  BY SumOverSplits
<1>1. /\ g[{}] = 0
      /\ \A s \in SUBSET S : g[s] \in Int
      /\ \A s \in SUBSET S : \A x \in s : g[s] = h[x] + g[s \ {x}]
  BY <1>0, SumsSplit
<1>2. \A s \in SUBSET S : IsFiniteSet(s) /\ Cardinality(s) \in Nat
  BY FS_Subset, FS_CardinalityType
<1>. DEFINE G == {s \in SUBSET S : low * Cardinality(s) <= g[s] /\ g[s] <= high * Cardinality(s)}
<1>3. ASSUME NEW s \in SUBSET S, \A x \in s : s \ {x} \in G PROVE s \in G
  <2>1. CASE s = {}
    <3>1. Cardinality(s) = 0 /\ low * 0 = 0 /\ high * 0 = 0
      BY <2>1, FS_EmptySet
    <3>. QED BY <1>1, <2>1, <3>1
  <2>2. CASE s # {}
    <3>1. PICK x \in s : TRUE
      BY <2>2
    <3>. DEFINE n == Cardinality(s \ {x})
    <3>2. n \in Nat /\ Cardinality(s) = n + 1
      <4>1. Cardinality(s \ {x}) = Cardinality(s) - 1
        BY <1>2, <3>1, FS_RemoveElement
      <4>. QED BY <1>2, <4>1
    <3>3. low * n <= g[s \ {x}] /\ g[s \ {x}] <= high * n /\ g[s \ {x}] \in Int
      BY <1>1, <1>3, <3>1
    <3>. HIDE DEF n
    <3>4. low * (n + 1) = low * n + low /\ high * (n + 1) = high * n + high
      BY <3>2
    <3>5. low * n \in Int /\ high * n \in Int
      BY <3>2
    <3>6. g[s] = h[x] + g[s \ {x}] /\ h[x] \in Int /\ low <= h[x] /\ h[x] <= high
      BY <1>1, <3>1
    <3>. QED BY <3>2, <3>3, <3>4, <3>5, <3>6
  <2>. QED BY <2>1, <2>2
<1>4. \A s \in SUBSET S : s \in G
  <2>. HIDE DEF G
  <2>. QED BY <1>3, SubsetsByInduction
<1>. QED BY <1>0, <1>1, <1>4

LEMMA HealthCardinality == \A S : Health!Cardinality(S) = Cardinality(S)
BY DEF Health!Cardinality, Cardinality

\* A finite set of numbers has a greatest one.
LEMMA HealthMax ==
  ASSUME NEW S, IsFiniteSet(S), S # {}, S \subseteq Int
  PROVE  Health!Max(S) \in S /\ \A x \in S : x <= Health!Max(S)
<1>. DEFINE c == [x \in S |-> x]
<1>1. c \in [S -> Int]
  OBVIOUS
<1>2. \E m \in S : \A x \in S : c[x] <= c[m]
  <2>. HIDE DEF c
  <2>. QED BY <1>1, MostExists
<1>3. \E m \in S : \A x \in S : m >= x
  BY <1>2
<1>. QED BY <1>3 DEF Health!Max

LEMMA HealthMin ==
  ASSUME NEW a \in Int, NEW b \in Int
  PROVE  Health!Min({a, b}) = IF a <= b THEN a ELSE b
BY DEF Health!Min

\* The sums of the tiles.
LEMMA SumStatusErrorsIs ==
  ASSUME NEW S
  PROVE  Health!sumStatusErrors(S) = SumOver(S, [m \in S |-> m.s4xx + m.s5xx])
<1>. DEFINE h == [m \in S |-> m.s4xx + m.s5xx]
            Step(g) == [s \in SUBSET S |->
                          IF s = {} THEN 0
                          ELSE ((CHOOSE x \in s : TRUE).s4xx + (CHOOSE x \in s : TRUE).s5xx)
                                 + g[s \ {CHOOSE x \in s : TRUE}]]
<1>1. Health!sumStatusErrors(S) = (CHOOSE g : g = Step(g))[S]
  BY DEF Health!sumStatusErrors, Health!MapThenSumSet, Health!MapThenFoldSet
<1>2. ASSUME NEW g PROVE Sums(g, S, h) <=> g = Step(g)
  <2>1. \A s \in SUBSET S : s # {} =>
          h[CHOOSE x \in s : TRUE] = (CHOOSE x \in s : TRUE).s4xx + (CHOOSE x \in s : TRUE).s5xx
    OBVIOUS
  <2>. HIDE DEF h
  <2>. QED BY <2>1 DEF Sums
<1>. HIDE DEF Step, h
<1>3. (CHOOSE g : g = Step(g)) = (CHOOSE g : Sums(g, S, h))
  BY <1>2
<1>. QED BY <1>1, <1>3 DEF SumOver, h

LEMMA TotalRequestsIs ==
  LET S == Health!statusTotals(Health!Data("statusMix"))
  IN  Health!totalRequests = SumOver(S, [t \in S |-> t.total])
<1>. DEFINE S == Health!statusTotals(Health!Data("statusMix"))
            h == [t \in S |-> t.total]
            Step(g) == [s \in SUBSET S |->
                          IF s = {} THEN 0
                          ELSE (CHOOSE x \in s : TRUE).total + g[s \ {CHOOSE x \in s : TRUE}]]
<1>1. Health!totalRequests = (CHOOSE g : g = Step(g))[S]
  BY DEF Health!totalRequests, Health!MapThenSumSet, Health!MapThenFoldSet
<1>. HIDE DEF S
<1>2. ASSUME NEW g PROVE Sums(g, S, h) <=> g = Step(g)
  <2>1. \A s \in SUBSET S : s # {} => h[CHOOSE x \in s : TRUE] = (CHOOSE x \in s : TRUE).total
    OBVIOUS
  <2>. HIDE DEF h
  <2>. QED BY <2>1 DEF Sums
<1>. HIDE DEF Step, h
<1>3. (CHOOSE g : g = Step(g)) = (CHOOSE g : Sums(g, S, h))
  BY <1>2
<1>. QED BY <1>1, <1>3 DEF SumOver, h, S

LEMMA MeanIs ==
  ASSUME NEW S
  PROVE  Health!meanOf(S) = Health!Share(SumOver(S, [b \in S |-> b.p95]), Cardinality(S))
<1>. DEFINE h == [b \in S |-> b.p95]
            Step(g) == [s \in SUBSET S |->
                          IF s = {} THEN 0
                          ELSE (CHOOSE x \in s : TRUE).p95 + g[s \ {CHOOSE x \in s : TRUE}]]
<1>1. Health!meanOf(S) = Health!Share((CHOOSE g : g = Step(g))[S], Health!Cardinality(S))
  BY DEF Health!meanOf, Health!MapThenSumSet, Health!MapThenFoldSet
<1>2. ASSUME NEW g PROVE Sums(g, S, h) <=> g = Step(g)
  <2>1. \A s \in SUBSET S : s # {} => h[CHOOSE x \in s : TRUE] = (CHOOSE x \in s : TRUE).p95
    OBVIOUS
  <2>. HIDE DEF h
  <2>. QED BY <2>1 DEF Sums
<1>. HIDE DEF Step, h
<1>3. (CHOOSE g : g = Step(g)) = (CHOOSE g : Sums(g, S, h))
  BY <1>2
<1>4. Health!Cardinality(S) = Cardinality(S)
  BY HealthCardinality
<1>. QED BY <1>1, <1>3, <1>4 DEF SumOver, h

\* The Overview and the Explorer make the same bars of the same lines.
LEMMA SameBars ==
  /\ \A lines, window, bucket :
       Health!volume(lines, window, bucket) = Filter!volume(lines, window, bucket)
  /\ \A bars, levels : Health!sumLevels(bars, levels) = Filter!sumLevels(bars, levels)
<1>1. ASSUME NEW lines, NEW window, NEW bucket
      PROVE  Health!volume(lines, window, bucket) = Filter!volume(lines, window, bucket)
  BY DEF Health!volume, Filter!volume, Health!date_trunc, Filter!date_trunc,
         Health!InSeries, Filter!InSeries, Health!Cardinality, Filter!Cardinality
<1>2. ASSUME NEW bars, NEW levels
      PROVE  Health!sumLevels(bars, levels) = Filter!sumLevels(bars, levels)
  BY DEF Health!sumLevels, Health!MapThenSumSet, Health!MapThenFoldSet,
         Filter!sumLevels, Filter!MapThenSumSet, Filter!MapThenFoldSet
<1>. QED BY <1>1, <1>2

(* The durations. *)

Timed(found) == \A row \in found : row.durationMs \in Nat \ {0}
Faster(found, ms) == {row \in found : row.durationMs < ms}
NotSlower(found, ms) == {row \in found : row.durationMs <= ms}

\* Of the durations of k lines or more there is a k-th.
LEMMA NthIs ==
  ASSUME NEW found, IsFiniteSet(found), Timed(found), NEW k \in 1 .. Cardinality(found)
  PROVE  /\ Health!Nth(found, k) \in Nat \ {0}
         /\ Cardinality(Faster(found, Health!Nth(found, k))) < k
         /\ Cardinality(NotSlower(found, Health!Nth(found, k))) >= k
<1>. DEFINE D == {row.durationMs : row \in found}
            Enough == {d \in D : Cardinality(NotSlower(found, d)) >= k}
            f == [row \in found |-> row.durationMs]
<1>1. IsFiniteSet(D)
  <2>1. \A d \in D : \E row \in found : d = f[row]
    OBVIOUS
  <2>. HIDE DEF D, f
  <2>. QED BY <2>1, ImageIsFinite
<1>2. D # {} /\ D \subseteq Nat \ {0}
  <2>1. found # {}
    BY FS_EmptySet
  <2>. QED BY <2>1 DEF Timed
<1>3. \A row \in found : row.durationMs \in D
  OBVIOUS
<1>. HIDE DEF D
<1>4. PICK m \in D : \A d \in D : d <= m
  <2>. DEFINE c == [d \in D |-> d]
  <2>1. c \in [D -> Int] /\ \A d \in D : c[d] = d
    BY <1>2
  <2>. HIDE DEF c
  <2>2. \E m \in D : \A d \in D : c[d] <= c[m]
    BY <1>1, <1>2, <2>1, MostExists
  <2>. QED BY <2>1, <2>2
<1>5. m \in Enough
  <2>1. NotSlower(found, m) = found
    BY <1>3, <1>4 DEF NotSlower
  <2>. QED BY <2>1
<1>6. PICK x \in Enough : \A d \in Enough : x <= d
  <2>. DEFINE c == [d \in Enough |-> 0 - d]
  <2>0. \A d \in Enough : d \in Int
    BY <1>2
  <2>1. c \in [Enough -> Int] /\ \A d \in Enough : c[d] = 0 - d
    <3>. HIDE DEF Enough
    <3>. QED BY <2>0
  <2>2. IsFiniteSet(Enough)
    BY <1>1, FS_Subset
  <2>. HIDE DEF c
  <2>3. \E y \in Enough : \A d \in Enough : c[d] <= c[y]
    <3>. HIDE DEF Enough
    <3>. QED BY <1>5, <2>1, <2>2, MostExists
  <2>4. \A d \in Enough : d \in Int
    BY <1>2
  <2>. HIDE DEF Enough
  <2>. QED BY <2>1, <2>3, <2>4
<1>7. Cardinality(Faster(found, x)) < k
  <2>. DEFINE E == {d \in D : d < x}
  <2>1. CASE E = {}
    <3>1. Faster(found, x) = {}
      BY <1>3, <2>1 DEF Faster
    <3>. QED BY <3>1, FS_EmptySet
  <2>2. CASE E # {}
    <3>. DEFINE c == [d \in E |-> d]
    <3>0. \A d \in E : d \in Int
      BY <1>2
    <3>1. c \in [E -> Int] /\ \A d \in E : c[d] = d
      <4>. HIDE DEF E
      <4>. QED BY <3>0
    <3>2. IsFiniteSet(E)
      BY <1>1, FS_Subset
    <3>3. \A d \in E : d \in D /\ d \in Int /\ d < x
      BY <1>2
    <3>3a. \A row \in found : row.durationMs < x => row.durationMs \in E
      BY <1>3
    <3>. HIDE DEF c
    <3>4. \E y \in E : \A d \in E : c[d] <= c[y]
      <4>. HIDE DEF E
      <4>. QED BY <2>2, <3>1, <3>2, MostExists
    <3>. HIDE DEF E
    <3>5. PICK y \in E : \A d \in E : d <= y
      BY <3>1, <3>4
    <3>6. Faster(found, x) = NotSlower(found, y)
      <4>1. \A row \in found : row.durationMs \in Int
        BY DEF Timed
      <4>2. x \in Int /\ y \in Int /\ y < x
        BY <1>2, <1>6, <3>3
      <4>. HIDE DEF Enough
      <4>3. \A row \in found : row.durationMs < x <=> row.durationMs <= y
        BY <3>3a, <3>5, <4>1, <4>2
      <4>. QED BY <4>3 DEF Faster, NotSlower
    <3>7. y \notin Enough
      <4>1. x \in Int /\ y \in Int /\ y < x
        BY <1>2, <1>6, <3>3
      <4>. HIDE DEF Enough
      <4>. QED BY <1>6, <4>1
    <3>8. Cardinality(NotSlower(found, y)) \in Nat
      <4>1. NotSlower(found, y) \subseteq found
        BY DEF NotSlower
      <4>. QED BY <4>1, FS_Subset, FS_CardinalityType
    <3>. QED BY <3>3, <3>6, <3>7, <3>8
  <2>. QED BY <2>1, <2>2
<1>8. \A d \in D :
        /\ Health!Cardinality({row \in found : row.durationMs < d}) = Cardinality(Faster(found, d))
        /\ Health!Cardinality({row \in found : row.durationMs <= d})
             = Cardinality(NotSlower(found, d))
  BY HealthCardinality DEF Faster, NotSlower
<1>9. Health!Nth(found, k) = CHOOSE d \in D : /\ Cardinality(Faster(found, d)) < k
                                             /\ Cardinality(NotSlower(found, d)) >= k
  BY <1>8 DEF Health!Nth, D
<1>10. \E d \in D : Cardinality(Faster(found, d)) < k /\ Cardinality(NotSlower(found, d)) >= k
  BY <1>6, <1>7
<1>11. /\ Health!Nth(found, k) \in D
       /\ Cardinality(Faster(found, Health!Nth(found, k))) < k
       /\ Cardinality(NotSlower(found, Health!Nth(found, k))) >= k
  BY <1>9, <1>10
<1>. QED BY <1>2, <1>11

LEMMA NthGrows ==
  ASSUME NEW found, IsFiniteSet(found), Timed(found), NEW k \in 1 .. Cardinality(found),
         NEW j \in 1 .. Cardinality(found), j <= k
  PROVE  Health!Nth(found, j) <= Health!Nth(found, k)
<1>. DEFINE x == Health!Nth(found, j)
            y == Health!Nth(found, k)
<1>1. x \in Nat \ {0} /\ Cardinality(Faster(found, x)) < j
  BY NthIs
<1>2. y \in Nat \ {0} /\ Cardinality(NotSlower(found, y)) >= k
  BY NthIs
<1>. HIDE DEF x, y
<1>3. SUFFICES ASSUME y < x PROVE FALSE
  BY <1>1, <1>2 DEF x, y
<1>4. NotSlower(found, y) \subseteq Faster(found, x) /\ Faster(found, x) \subseteq found
  BY <1>1, <1>2, <1>3 DEF NotSlower, Faster, Timed
<1>5. IsFiniteSet(Faster(found, x)) /\ Cardinality(Faster(found, x)) \in Nat
  BY <1>4, FS_Subset, FS_CardinalityType
<1>6. Cardinality(NotSlower(found, y)) <= Cardinality(Faster(found, x))
  BY <1>4, <1>5, FS_Subset
<1>7. Cardinality(NotSlower(found, y)) \in Nat
  BY <1>4, <1>5, FS_Subset, FS_CardinalityType
<1>8. Cardinality(found) \in Nat
  BY FS_CardinalityType
<1>. QED BY <1>1, <1>2, <1>5, <1>6, <1>7, <1>8

\* Between two values, never before the one nor beyond the other.
LEMMA Interpolates ==
  ASSUME NEW d \in Nat, NEW a \in 0 .. 99, NEW b \in 0 .. 99, a <= b
  PROVE  d * a \in Int /\ 0 <= d * a /\ d * a <= d * b /\ d * b <= 100 * d
OBVIOUS

\* percentile_cont() grows with the fraction.
LEMMA PercentilesGrow ==
  ASSUME NEW found, IsFiniteSet(found), found # {}, Timed(found)
  PROVE  LET p95 == Health!percentile_cont(95, found)
             p99 == Health!percentile_cont(99, found)
         IN  p95 \in Int /\ p99 \in Int /\ 1 <= p95 /\ p95 <= p99
<1>. DEFINE n == Cardinality(found)
            low(p) == Health!Nth(found, p \div 100 + 1)
            high(p) == Health!Nth(found, IF p \div 100 + 2 <= n THEN p \div 100 + 2 ELSE n)
            value(p) == 100 * low(p) + (high(p) - low(p)) * (p % 100)
            P == (n - 1) * 95
            Q == (n - 1) * 99
<1>1. n \in Nat \ {0}
  BY FS_CardinalityType, FS_EmptySet
<1>. HIDE DEF n
<1>2. /\ P \in Nat /\ P \div 100 \in 0 .. n - 1 /\ P % 100 \in 0 .. 99
      /\ Q \in Nat /\ Q \div 100 \in 0 .. n - 1 /\ Q % 100 \in 0 .. 99
      /\ P \div 100 <= Q \div 100
      /\ P \div 100 = Q \div 100 => P % 100 <= Q % 100
  BY <1>1
<1>. HIDE DEF P, Q
<1>3. Health!percentile_cont(95, found) = value(P) /\ Health!percentile_cont(99, found) = value(Q)
  <2>1. Health!Cardinality(found) = n
    BY HealthCardinality DEF n
  <2>2. \A p \in {P, Q} : Health!Min({p \div 100 + 2, n})
                            = IF p \div 100 + 2 <= n THEN p \div 100 + 2 ELSE n
    BY <1>1, <1>2, HealthMin
  <2>. QED BY <2>1, <2>2 DEF Health!percentile_cont, P, Q
<1>4. \A p \in {P, Q} : /\ p \div 100 + 1 \in 1 .. n
                        /\ (IF p \div 100 + 2 <= n THEN p \div 100 + 2 ELSE n) \in 1 .. n
                        /\ p \div 100 + 1 <= (IF p \div 100 + 2 <= n THEN p \div 100 + 2 ELSE n)
  BY <1>1, <1>2
<1>5. \A p \in {P, Q} : low(p) \in Nat \ {0} /\ high(p) \in Nat \ {0} /\ low(p) <= high(p)
  BY <1>4, NthIs, NthGrows DEF n
<1>6. P \div 100 # Q \div 100 => high(P) <= low(Q)
  <2>. SUFFICES ASSUME P \div 100 # Q \div 100 PROVE high(P) <= low(Q)
    OBVIOUS
  <2>. DEFINE i == IF P \div 100 + 2 <= n THEN P \div 100 + 2 ELSE n
              j == Q \div 100 + 1
  <2>1. i <= j /\ i \in 1 .. n /\ j \in 1 .. n
    BY <1>1, <1>2
  <2>. HIDE DEF i, j
  <2>2. Health!Nth(found, i) <= Health!Nth(found, j)
    BY <2>1, NthGrows DEF n
  <2>. QED BY <2>2 DEF i, j
<1>7. P \div 100 = Q \div 100 => low(P) = low(Q) /\ high(P) = high(Q)
  BY <1>2
<1>8. PICK lp \in Nat \ {0}, hp \in Nat \ {0}, lq \in Nat \ {0}, hq \in Nat \ {0} :
        lp = low(P) /\ hp = high(P) /\ lq = low(Q) /\ hq = high(Q)
  BY <1>5
<1>9. lp <= hp /\ lq <= hq
  BY <1>5, <1>8
<1>10. P \div 100 # Q \div 100 => hp <= lq
  BY <1>6, <1>8
<1>11. P \div 100 = Q \div 100 => lp = lq /\ hp = hq
  BY <1>7, <1>8
<1>12. value(P) = 100 * lp + (hp - lp) * (P % 100) /\ value(Q) = 100 * lq + (hq - lq) * (Q % 100)
  BY <1>8
<1>. HIDE DEF low, high, value
<1>13. hp - lp \in Nat /\ hq - lq \in Nat
  BY <1>9
<1>14. /\ (hp - lp) * (P % 100) \in Int /\ 0 <= (hp - lp) * (P % 100)
       /\ (hp - lp) * (P % 100) <= 100 * (hp - lp)
  BY <1>2, <1>13, Interpolates
<1>15. (hq - lq) * (Q % 100) \in Int /\ 0 <= (hq - lq) * (Q % 100)
  BY <1>2, <1>13, Interpolates
<1>16. P \div 100 = Q \div 100 => (hp - lp) * (P % 100) <= (hq - lq) * (Q % 100)
  BY <1>2, <1>11, <1>13, Interpolates
<1>17. 1 <= value(P) /\ value(P) \in Int /\ value(Q) \in Int
  BY <1>8, <1>12, <1>14, <1>15
<1>18. value(P) <= value(Q)
  <2>1. CASE P \div 100 = Q \div 100
    BY <1>11, <1>12, <1>14, <1>15, <1>16, <2>1
  <2>2. CASE P \div 100 # Q \div 100
    <3>1. value(P) <= 100 * hp
      BY <1>12, <1>14
    <3>. QED BY <1>10, <1>12, <1>15, <1>17, <2>2, <3>1
  <2>. QED BY <2>1, <2>2
<1>. QED BY <1>3, <1>17, <1>18

(* The statuses. *)

\* Lines as the service writes them: it fails with 402 and with 503.
RequestKeys == {"HTTP_REQUEST_CLIENT_ERROR", "HTTP_REQUEST_SERVER_ERROR"}
FilterKeys == {"HTTP_EXCEPTION_HANDLED", "HTTP_EXCEPTION_UNHANDLED"}
ServiceLines(found) ==
  /\ IsFiniteSet(found)
  /\ \A row \in found : row.time \in Int /\ row.status \in {0, 402, 503}

Failing(found) == {row \in found : row.status # 0}
FailingAt(found, b) == {row \in found : Health!date_trunc(MINUTE, row.time) = b /\ row.status # 0}
WithStatus(found, b, status) ==
  {row \in found : Health!date_trunc(MINUTE, row.time) = b /\ row.status = status}
MixAt(found, b) ==
  [bucket |-> b, s2xx |-> 0, s3xx |-> 0, s4xx |-> Cardinality(WithStatus(found, b, 402)),
   s5xx |-> Cardinality(WithStatus(found, b, 503))]
MinutesOf(found) == {Health!date_trunc(MINUTE, row.time) : row \in found}

LEMMA MinutesFinite ==
  ASSUME NEW found, IsFiniteSet(found)
  PROVE  IsFiniteSet(MinutesOf(found))
<1>. DEFINE f == [row \in found |-> Health!date_trunc(MINUTE, row.time)]
<1>1. \A b \in MinutesOf(found) : \E row \in found : b = f[row]
  BY DEF MinutesOf
<1>. HIDE DEF f
<1>. QED BY <1>1, ImageIsFinite

LEMMA MixIs ==
  ASSUME NEW found, ServiceLines(found)
  PROVE  Health!statusMix(found, MINUTE) = {MixAt(found, b) : b \in MinutesOf(found)}
<1>. DEFINE In(b) == Health!InBucket(found, MINUTE, b)
            Made(b) == [bucket |-> b,
                        s2xx |-> Health!Cardinality({row \in In(b) : row.status \in 200 .. 299}),
                        s3xx |-> Health!Cardinality({row \in In(b) : row.status \in 300 .. 399}),
                        s4xx |-> Health!Cardinality({row \in In(b) : row.status \in 400 .. 499}),
                        s5xx |-> Health!Cardinality({row \in In(b) : row.status >= 500})]
<1>1. Health!statusMix(found, MINUTE) = {Made(b) : b \in MinutesOf(found)}
  BY DEF Health!statusMix, Health!Minutes, MinutesOf
<1>2. ASSUME NEW b PROVE Made(b) = MixAt(found, b)
  <2>1. \A row \in In(b) : row \in found /\ row.status \in {0, 402, 503}
    BY DEF Health!InBucket, ServiceLines
  <2>2. /\ {row \in In(b) : row.status \in 200 .. 299} = {}
        /\ {row \in In(b) : row.status \in 300 .. 399} = {}
    BY <2>1
  <2>3. {row \in In(b) : row.status \in 400 .. 499} = WithStatus(found, b, 402)
    <3>1. {row \in In(b) : row.status \in 400 .. 499} = {row \in In(b) : row.status = 402}
      BY <2>1
    <3>. QED BY <3>1 DEF WithStatus, Health!InBucket
  <2>4. {row \in In(b) : row.status >= 500} = WithStatus(found, b, 503)
    <3>1. {row \in In(b) : row.status >= 500} = {row \in In(b) : row.status = 503}
      BY <2>1
    <3>. QED BY <3>1 DEF WithStatus, Health!InBucket
  <2>5. Health!Cardinality({}) = 0
    BY HealthCardinality, FS_EmptySet
  <2>6. /\ Health!Cardinality(WithStatus(found, b, 402)) = Cardinality(WithStatus(found, b, 402))
        /\ Health!Cardinality(WithStatus(found, b, 503)) = Cardinality(WithStatus(found, b, 503))
    BY HealthCardinality
  <2>. HIDE DEF In
  <2>7. Health!Cardinality({row \in In(b) : row.status \in 200 .. 299}) = 0
    BY <2>2, <2>5
  <2>8. Health!Cardinality({row \in In(b) : row.status \in 300 .. 399}) = 0
    BY <2>2, <2>5
  <2>9. Health!Cardinality({row \in In(b) : row.status \in 400 .. 499})
          = Cardinality(WithStatus(found, b, 402))
    BY <2>3, <2>6
  <2>10. Health!Cardinality({row \in In(b) : row.status >= 500})
           = Cardinality(WithStatus(found, b, 503))
    BY <2>4, <2>6
  <2>. QED BY <2>7, <2>8, <2>9, <2>10, Zenon DEF MixAt
<1>. HIDE DEF Made
<1>. QED BY <1>1, <1>2

LEMMA MixFields ==
  ASSUME NEW found, NEW b
  PROVE  /\ MixAt(found, b).bucket = b /\ MixAt(found, b).s2xx = 0 /\ MixAt(found, b).s3xx = 0
         /\ MixAt(found, b).s4xx = Cardinality(WithStatus(found, b, 402))
         /\ MixAt(found, b).s5xx = Cardinality(WithStatus(found, b, 503))
BY DEF MixAt

\* The classes of a bucket: each failing line is in one of the two.
LEMMA ClassesOf ==
  ASSUME NEW found, ServiceLines(found), NEW b
  PROVE  LET m == MixAt(found, b)
         IN  /\ m.s4xx \in Nat /\ m.s5xx \in Nat
             /\ m.s4xx + m.s5xx = Cardinality(FailingAt(found, b))
             /\ Health!InClasses(m) = m.s4xx + m.s5xx
             /\ m.s4xx > 0 <=> WithStatus(found, b, 402) # {}
             /\ m.s5xx > 0 <=> WithStatus(found, b, 503) # {}
             /\ m.s4xx + m.s5xx > 0 <=> FailingAt(found, b) # {}
<1>. DEFINE A == WithStatus(found, b, 402)
            B == WithStatus(found, b, 503)
            F == FailingAt(found, b)
<1>1. F = A \cup B /\ A \cap B = {} /\ A \subseteq found /\ B \subseteq found
  BY DEF ServiceLines, FailingAt, WithStatus
<1>. HIDE DEF A, B, F
<1>2. IsFiniteSet(A) /\ IsFiniteSet(B) /\ IsFiniteSet(F)
  BY <1>1, FS_Subset, FS_Union DEF ServiceLines
<1>3. Cardinality(A) \in Nat /\ Cardinality(B) \in Nat /\ Cardinality(F) \in Nat
  BY <1>2, FS_CardinalityType
<1>4. Cardinality(A \cap B) = 0
  BY <1>1, FS_EmptySet
<1>5. Cardinality(A \cup B) = Cardinality(A) + Cardinality(B) - Cardinality(A \cap B)
  BY <1>2, FS_Union
<1>6. Cardinality(F) = Cardinality(A) + Cardinality(B)
  BY <1>1, <1>3, <1>4, <1>5
<1>7. /\ Cardinality(A) = 0 <=> A = {}
      /\ Cardinality(B) = 0 <=> B = {}
      /\ Cardinality(F) = 0 <=> F = {}
  BY <1>2, FS_EmptySet
<1>. DEFINE m == MixAt(found, b)
<1>8. m.s2xx = 0 /\ m.s3xx = 0 /\ m.s4xx = Cardinality(A) /\ m.s5xx = Cardinality(B)
  BY MixFields DEF A, B
<1>. HIDE DEF m
<1>9. Health!InClasses(m) = m.s4xx + m.s5xx
  BY <1>3, <1>8 DEF Health!InClasses
<1>. QED BY <1>3, <1>6, <1>7, <1>8, <1>9 DEF A, B, F, m

\* What counts the failing lines bucket by bucket counts them all.
LEMMA BucketsCountFailures ==
  ASSUME NEW found, ServiceLines(found), NEW S, IsFiniteSet(S), NEW at, NEW h \in [S -> Int],
         \A x \in S : h[x] = Cardinality(FailingAt(found, at[x])),
         \A x, y \in S : x # y => at[x] # at[y],
         \A row \in found : \E x \in S : at[x] = Health!date_trunc(MINUTE, row.time)
  PROVE  SumOver(S, h) = Cardinality(Failing(found))
<1>. DEFINE F == [x \in S |-> FailingAt(found, at[x])]
<1>1. \A x \in S : F[x] = FailingAt(found, at[x])
  OBVIOUS
<1>. HIDE DEF F
<1>2. \A x \in S : IsFiniteSet(F[x])
  <2>1. \A b : FailingAt(found, b) \subseteq found
    BY DEF FailingAt
  <2>. QED BY <1>1, <2>1, FS_Subset DEF ServiceLines
<1>3. \A x, y \in S : x # y => F[x] \cap F[y] = {}
  BY <1>1 DEF FailingAt
<1>4. SumOver(S, h) = Cardinality(UNION {F[x] : x \in S})
  BY <1>1, <1>2, <1>3, SumOverCounts
<1>5. UNION {F[x] : x \in S} = Failing(found)
  BY <1>1 DEF FailingAt, Failing
<1>. QED BY <1>4, <1>5

LEMMA MixCounts ==
  ASSUME NEW found, ServiceLines(found)
  PROVE  LET mix == Health!statusMix(found, MINUTE)
             totals == Health!statusTotals(mix)
         IN  /\ Health!sumStatusErrors(mix) = Cardinality(Failing(found))
             /\ SumOver(totals, [t \in totals |-> t.total]) = Cardinality(Failing(found))
<1>. DEFINE mix == Health!statusMix(found, MINUTE)
            totals == Health!statusTotals(mix)
            B == MinutesOf(found)
            Count(b) == Cardinality(FailingAt(found, b))
            Total(b) == [bucket |-> b, total |-> Count(b)]
<1>1. mix = {MixAt(found, b) : b \in B}
  BY MixIs
<1>2. IsFiniteSet(B)
  BY MinutesFinite DEF ServiceLines
<1>3. \A row \in found : Health!date_trunc(MINUTE, row.time) \in B
  BY DEF MinutesOf
<1>. HIDE DEF mix, B
<1>4. \A b : Count(b) \in Int
  <2>1. \A b : FailingAt(found, b) \subseteq found
    BY DEF FailingAt
  <2>. QED BY <2>1, FS_Subset, FS_CardinalityType DEF ServiceLines
<1>5. \A b : /\ MixAt(found, b).bucket = b
             /\ MixAt(found, b).s4xx + MixAt(found, b).s5xx = Count(b)
             /\ Health!InClasses(MixAt(found, b)) = Count(b)
  BY MixFields, ClassesOf
<1>6. totals = {Total(b) : b \in B}
  <2>1. totals = {[bucket |-> m.bucket, total |-> Health!InClasses(m)] : m \in mix}
    BY DEF Health!statusTotals
  <2>2. \A b : [bucket |-> MixAt(found, b).bucket, total |-> Health!InClasses(MixAt(found, b))]
                 = Total(b)
    BY <1>5
  <2>. HIDE DEF totals, Total, Count
  <2>. QED BY <1>1, <2>1, <2>2
<1>7. \A b : Total(b).bucket = b /\ Total(b).total = Count(b)
  OBVIOUS
<1>. HIDE DEF totals, Total, Count
<1>8. Health!sumStatusErrors(mix) = Cardinality(Failing(found))
  <2>. DEFINE h == [m \in mix |-> m.s4xx + m.s5xx]
              at == [m \in mix |-> m.bucket]
              f == [b \in B |-> MixAt(found, b)]
  <2>1. IsFiniteSet(mix)
    <3>1. \A m \in mix : \E b \in B : m = f[b]
      BY <1>1
    <3>. HIDE DEF f
    <3>. QED BY <1>2, <3>1, ImageIsFinite
  <2>2. \A m \in mix : \E b \in B : m = MixAt(found, b) /\ h[m] = Count(b) /\ at[m] = b
    BY <1>1, <1>5
  <2>3. \A b \in B : MixAt(found, b) \in mix
    BY <1>1
  <2>4. \A b \in B : at[MixAt(found, b)] = b
    BY <1>5, <2>3
  <2>5. DOMAIN h = mix /\ h = [m \in mix |-> h[m]]
    OBVIOUS
  <2>. HIDE DEF h, at
  <2>6. h \in [mix -> Int] /\ \A m \in mix : h[m] = Count(at[m])
    BY <1>4, <2>2, <2>5
  <2>7. \A x, y \in mix : x # y => at[x] # at[y]
    BY <2>2
  <2>8. \A row \in found : \E m \in mix : at[m] = Health!date_trunc(MINUTE, row.time)
    BY <1>3, <2>3, <2>4
  <2>9. SumOver(mix, h) = Cardinality(Failing(found))
    BY <2>1, <2>6, <2>7, <2>8, BucketsCountFailures DEF Count
  <2>. QED BY <2>9, SumStatusErrorsIs DEF h
<1>9. SumOver(totals, [t \in totals |-> t.total]) = Cardinality(Failing(found))
  <2>. DEFINE h == [t \in totals |-> t.total]
              at == [t \in totals |-> t.bucket]
              f == [b \in B |-> Total(b)]
  <2>1. IsFiniteSet(totals)
    <3>1. \A t \in totals : \E b \in B : t = f[b]
      BY <1>6
    <3>. HIDE DEF f
    <3>. QED BY <1>2, <3>1, ImageIsFinite
  <2>2. \A t \in totals : \E b \in B : t = Total(b) /\ h[t] = Count(b) /\ at[t] = b
    BY <1>6, <1>7
  <2>3. \A b \in B : Total(b) \in totals
    BY <1>6
  <2>4. \A b \in B : at[Total(b)] = b
    BY <1>7, <2>3
  <2>5. DOMAIN h = totals /\ h = [t \in totals |-> h[t]]
    OBVIOUS
  <2>. HIDE DEF h, at
  <2>6. h \in [totals -> Int] /\ \A t \in totals : h[t] = Count(at[t])
    BY <1>4, <2>2, <2>5
  <2>7. \A x, y \in totals : x # y => at[x] # at[y]
    BY <2>2
  <2>8. \A row \in found : \E t \in totals : at[t] = Health!date_trunc(MINUTE, row.time)
    BY <1>3, <2>3, <2>4
  <2>9. SumOver(totals, h) = Cardinality(Failing(found))
    BY <2>1, <2>6, <2>7, <2>8, BucketsCountFailures DEF Count
  <2>. QED BY <2>9 DEF h
<1>. QED BY <1>8, <1>9 DEF mix, totals

(* The state. *)

\* What a query makes of lines in a window.
LinesWithin(lines, window) == {row \in lines : row.time \in window.from .. window.to}
ResultsOf(lines, window, metric) ==
  LET found == LinesWithin(lines, window)
      bucket == Health!resolveBucket(window.from, window.to)
  IN  CASE metric = "volume"    -> {Health!volume(found, window, bucket)}
        [] metric = "latency"   -> {Health!latency(found, bucket.unit)}
        [] metric = "statusMix" -> {Health!statusMix(found, bucket.unit)}
        [] metric = "logKeys"   -> Health!groupBy(found)

\* What a line says of its request.
Says(row, kind, key, level, status, ms) ==
  /\ served[row.request].kind = kind /\ row.logKey = key /\ row.level = level
  /\ row.status = status /\ row.durationMs = ms
ServiceLine(row) ==
  /\ row.request \in DOMAIN served /\ row.time \in Int
  /\ \/ Says(row, "warned", "TRIGGER_LEVEL_FIRED", "warn", 0, 0)
     \/ Says(row, "erred", "TRIGGER_LEVEL_FIRED", "error", 0, 0)
     \/ Says(row, "slow", "METHOD_SLOW_EXECUTION", "warn", 0, 60)
     \/ Says(row, "4xx", "HTTP_REQUEST_CLIENT_ERROR", "warn", 402, 10)
     \/ Says(row, "4xx", "HTTP_EXCEPTION_HANDLED", "error", 402, 0)
     \/ Says(row, "5xx", "HTTP_REQUEST_SERVER_ERROR", "error", 503, 20)
     \/ Says(row, "5xx", "HTTP_EXCEPTION_UNHANDLED", "error", 503, 0)

HealthTyped ==
  /\ healthClock \in Int
  /\ served \in Seq([kind : Health!Kinds, caught : BOOLEAN])

\* Each line, waiting or stored, is one of a request, and a request is slow only once.
HealthLines ==
  /\ IsFiniteSet(buffered) /\ IsFiniteSet(stored)
  /\ \A row \in buffered \cup stored : ServiceLine(row)
  /\ \A a, b \in buffered \cup stored :
       (/\ a.request = b.request
        /\ a.logKey = "METHOD_SLOW_EXECUTION" /\ b.logKey = "METHOD_SLOW_EXECUTION") => a = b

\* What is shown is what a query found in the lines that were then stored, and they still
\* are.
HealthRead ==
  /\ strip = [m \in Health!METRICS |-> strip[m]]
  /\ storedThen = [m \in Health!METRICS |-> storedThen[m]]
  /\ \A m \in Health!METRICS :
       /\ strip[m] = [data |-> strip[m].data, fetch |-> strip[m].fetch,
                      answer |-> strip[m].answer, error |-> strip[m].error]
       /\ storedThen[m] \subseteq stored
       /\ strip[m].data \subseteq ResultsOf(storedThen[m], Health!shown, m)

HealthInv == HealthTyped /\ HealthLines /\ HealthRead

LEMMA ResultsAre ==
  \A m \in Health!METRICS : Health!Results(m) = ResultsOf(stored, Health!shown, m)
BY DEF Health!Results, ResultsOf, Health!Within, LinesWithin

LEMMA HealthInitHolds == ASSUME Health!Init PROVE HealthInv
<1>1. HealthTyped
  BY HealthAssumption DEF Health!Init, HealthTyped
<1>2. HealthLines
  BY FS_EmptySet DEF Health!Init, HealthLines
<1>3. HealthRead
  BY DEF Health!Init, HealthRead, Health!Cache!FirstLoad, Health!Cache!NoData
<1>. QED BY <1>1, <1>2, <1>3 DEF HealthInv

\* The lines that the service writes, as rows.
RowIs(row, r, time, key, level, status, ms) ==
  /\ row.request = r /\ row.time = time /\ row.logKey = key /\ row.level = level
  /\ row.status = status /\ row.durationMs = ms
RequestRows(kind, r, time) == {Health!toRow(entry, r, time) : entry \in Health!EntriesOf(kind)}
FilterRow(kind, r, time) == Health!toRow(Health!FilterEntry(kind), r, time)

LEMMA RowsSay ==
  ASSUME NEW r, NEW time, NEW kind \in Health!Kinds
  PROVE  /\ IsFiniteSet(RequestRows(kind, r, time))
         /\ \A a, b \in RequestRows(kind, r, time) : a = b
         /\ \A row \in RequestRows(kind, r, time) :
              \/ kind = "warned" /\ RowIs(row, r, time, "TRIGGER_LEVEL_FIRED", "warn", 0, 0)
              \/ kind = "erred" /\ RowIs(row, r, time, "TRIGGER_LEVEL_FIRED", "error", 0, 0)
              \/ kind = "slow" /\ RowIs(row, r, time, "METHOD_SLOW_EXECUTION", "warn", 0, 60)
              \/ kind = "4xx" /\ RowIs(row, r, time, "HTTP_REQUEST_CLIENT_ERROR", "warn", 402, 10)
              \/ kind = "5xx" /\ RowIs(row, r, time, "HTTP_REQUEST_SERVER_ERROR", "error", 503, 20)
         /\ kind = "4xx" =>
              RowIs(FilterRow(kind, r, time), r, time, "HTTP_EXCEPTION_HANDLED", "error", 402, 0)
         /\ kind = "5xx" =>
              RowIs(FilterRow(kind, r, time), r, time, "HTTP_EXCEPTION_UNHANDLED", "error", 503, 0)
<1>. DEFINE Line(key, level, status, ms) ==
              [request |-> r, time |-> time, logKey |-> key, level |-> level,
               status |-> status, durationMs |-> ms]
            made == RequestRows(kind, r, time)
            told == FilterRow(kind, r, time)
<1>1. /\ Health!pickNumber([i |-> 0], "status", "statusCode") = 0
      /\ Health!pickNumber([i |-> 0], "durationMs", "duration") = 0
      /\ Health!pickNumber([durationMs |-> 60], "status", "statusCode") = 0
      /\ Health!pickNumber([durationMs |-> 60], "durationMs", "duration") = 60
      /\ Health!pickNumber([statusCode |-> 402, duration |-> 10], "status", "statusCode") = 402
      /\ Health!pickNumber([statusCode |-> 402, duration |-> 10], "durationMs", "duration") = 10
      /\ Health!pickNumber([statusCode |-> 503, duration |-> 20], "status", "statusCode") = 503
      /\ Health!pickNumber([statusCode |-> 503, duration |-> 20], "durationMs", "duration") = 20
      /\ Health!pickNumber([status |-> 402], "status", "statusCode") = 402
      /\ Health!pickNumber([status |-> 402], "durationMs", "duration") = 0
      /\ Health!pickNumber([status |-> 503], "status", "statusCode") = 503
      /\ Health!pickNumber([status |-> 503], "durationMs", "duration") = 0
  BY DEF Health!pickNumber
<1>2. kind = "ok" => made = {}
  BY DEF RequestRows, Health!EntriesOf
<1>3. kind = "warned" => made = {Line("TRIGGER_LEVEL_FIRED", "warn", 0, 0)}
  BY <1>1 DEF RequestRows, Health!EntriesOf, Health!Entry, Health!toRow
<1>4. kind = "erred" => made = {Line("TRIGGER_LEVEL_FIRED", "error", 0, 0)}
  BY <1>1 DEF RequestRows, Health!EntriesOf, Health!Entry, Health!toRow
<1>5. kind = "slow" => made = {Line("METHOD_SLOW_EXECUTION", "warn", 0, 60)}
  BY <1>1 DEF RequestRows, Health!EntriesOf, Health!Entry, Health!toRow
<1>6. kind = "4xx" => /\ made = {Line("HTTP_REQUEST_CLIENT_ERROR", "warn", 402, 10)}
                      /\ told = Line("HTTP_EXCEPTION_HANDLED", "error", 402, 0)
  BY <1>1 DEF RequestRows, FilterRow, Health!EntriesOf, Health!FilterEntry, Health!Entry, Health!toRow
<1>7. kind = "5xx" => /\ made = {Line("HTTP_REQUEST_SERVER_ERROR", "error", 503, 20)}
                      /\ told = Line("HTTP_EXCEPTION_UNHANDLED", "error", 503, 0)
  BY <1>1 DEF RequestRows, FilterRow, Health!EntriesOf, Health!FilterEntry, Health!Entry, Health!toRow
<1>8. \A key, level, status, ms :
        RowIs(Line(key, level, status, ms), r, time, key, level, status, ms)
  BY DEF RowIs
<1>. HIDE DEF Line, made, told
<1>9. made = {} \/ \E row : made = {row}
  BY <1>2, <1>3, <1>4, <1>5, <1>6, <1>7 DEF Health!Kinds, Health!Failures
<1>10. IsFiniteSet(made) /\ \A a, b \in made : a = b
  BY <1>9, FS_EmptySet, FS_Singleton
<1>11. /\ kind = "4xx" => RowIs(told, r, time, "HTTP_EXCEPTION_HANDLED", "error", 402, 0)
       /\ kind = "5xx" => RowIs(told, r, time, "HTTP_EXCEPTION_UNHANDLED", "error", 503, 0)
  BY <1>6, <1>7, <1>8
<1>12. \/ kind = "ok" \/ kind = "warned" \/ kind = "erred" \/ kind = "slow"
       \/ kind = "4xx" \/ kind = "5xx"
  BY DEF Health!Kinds, Health!Failures
<1>13. \A row \in made :
         \/ kind = "warned" /\ RowIs(row, r, time, "TRIGGER_LEVEL_FIRED", "warn", 0, 0)
         \/ kind = "erred" /\ RowIs(row, r, time, "TRIGGER_LEVEL_FIRED", "error", 0, 0)
         \/ kind = "slow" /\ RowIs(row, r, time, "METHOD_SLOW_EXECUTION", "warn", 0, 60)
         \/ kind = "4xx" /\ RowIs(row, r, time, "HTTP_REQUEST_CLIENT_ERROR", "warn", 402, 10)
         \/ kind = "5xx" /\ RowIs(row, r, time, "HTTP_REQUEST_SERVER_ERROR", "error", 503, 20)
  BY <1>2, <1>3, <1>4, <1>5, <1>6, <1>7, <1>8, <1>12
<1>. QED BY <1>10, <1>11, <1>13 DEF made, told

\* New lines of one request join those that wait; no request changes its kind.
LEMMA WritePreserves ==
  ASSUME HealthInv, NEW r, NEW new, IsFiniteSet(new),
         HealthTyped', UNCHANGED <<healthClock, stored, strip, storedThen>>,
         buffered' = buffered \cup new,
         DOMAIN served \subseteq DOMAIN served',
         \A q \in DOMAIN served : served'[q].kind = served[q].kind,
         \A row \in new : (ServiceLine(row))' /\ row.request = r,
         \A a, b \in new : a = b,
         \A row \in new : row.logKey = "METHOD_SLOW_EXECUTION" => r \notin DOMAIN served
  PROVE  HealthInv'
<1>1. /\ IsFiniteSet(buffered) /\ IsFiniteSet(stored)
      /\ \A row \in buffered \cup stored : ServiceLine(row)
      /\ \A a, b \in buffered \cup stored :
           (/\ a.request = b.request
            /\ a.logKey = "METHOD_SLOW_EXECUTION" /\ b.logKey = "METHOD_SLOW_EXECUTION") => a = b
  BY DEF HealthInv, HealthLines
<1>2. \A row \in buffered \cup stored : (ServiceLine(row))'
  BY <1>1 DEF ServiceLine, Says
<1>3. \A row \in buffered \cup stored : row.request \in DOMAIN served
  BY <1>1 DEF ServiceLine
<1>4. IsFiniteSet(buffered') /\ IsFiniteSet(stored')
  BY <1>1, FS_Union
<1>5. \A row \in (buffered \cup stored)' : row \in new \/ row \in buffered \cup stored
  OBVIOUS
<1>6. HealthLines'
  <2>1. \A row \in (buffered \cup stored)' : (ServiceLine(row))'
    BY <1>2, <1>5
  <2>2. \A a, b \in (buffered \cup stored)' :
          (/\ a.request = b.request
           /\ a.logKey = "METHOD_SLOW_EXECUTION" /\ b.logKey = "METHOD_SLOW_EXECUTION") => a = b
    BY <1>1, <1>3, <1>5
  <2>. QED BY <1>4, <2>1, <2>2 DEF HealthLines
<1>7. HealthRead'
  <2>1. Health!shown' = Health!shown
    BY DEF Health!shown
  <2>. QED BY <2>1 DEF HealthInv, HealthRead
<1>. QED BY <1>6, <1>7 DEF HealthInv

LEMMA ServePreserves ==
  ASSUME HealthInv, NEW kind \in Health!Kinds, Health!serve(kind)
  PROVE  HealthInv'
<1>. DEFINE one == [kind |-> kind, caught |-> FALSE]
<1>0. PICK n : n = Len(served) + 1
  OBVIOUS
<1>1. /\ served' = Append(served, one)
      /\ buffered' = buffered \cup RequestRows(kind, Len(served'), healthClock)
      /\ UNCHANGED <<healthClock, stored, strip, storedThen>>
  BY DEF Health!serve, RequestRows
<1>2. one \in [kind : Health!Kinds, caught : BOOLEAN] /\ one.kind = kind
  OBVIOUS
<1>. HIDE DEF one
<1>3. /\ served \in Seq([kind : Health!Kinds, caught : BOOLEAN]) /\ Len(served) \in Nat
      /\ healthClock \in Int
  BY DEF HealthInv, HealthTyped
<1>4. /\ served' \in Seq([kind : Health!Kinds, caught : BOOLEAN]) /\ Len(served') = n
      /\ DOMAIN served' = DOMAIN served \cup {n} /\ n \in DOMAIN served' /\ n \notin DOMAIN served
      /\ served'[n] = one /\ \A r \in DOMAIN served : served'[r] = served[r]
  BY <1>0, <1>1, <1>2, <1>3
<1>5. HealthTyped'
  BY <1>1, <1>3, <1>4 DEF HealthTyped
<1>6. PICK new, time : new = RequestRows(kind, n, time) /\ time = healthClock
  OBVIOUS
<1>7. /\ IsFiniteSet(new) /\ (\A a, b \in new : a = b) /\ buffered' = buffered \cup new
  BY <1>1, <1>4, <1>6, RowsSay
<1>8. \A row \in new : row.request = n /\ (ServiceLine(row))'
  <2>1. \A row \in new :
          \/ kind = "warned" /\ RowIs(row, n, time, "TRIGGER_LEVEL_FIRED", "warn", 0, 0)
          \/ kind = "erred" /\ RowIs(row, n, time, "TRIGGER_LEVEL_FIRED", "error", 0, 0)
          \/ kind = "slow" /\ RowIs(row, n, time, "METHOD_SLOW_EXECUTION", "warn", 0, 60)
          \/ kind = "4xx" /\ RowIs(row, n, time, "HTTP_REQUEST_CLIENT_ERROR", "warn", 402, 10)
          \/ kind = "5xx" /\ RowIs(row, n, time, "HTTP_REQUEST_SERVER_ERROR", "error", 503, 20)
    BY <1>6, RowsSay
  <2>2. time \in Int /\ n \in DOMAIN served' /\ served'[n].kind = kind
    BY <1>2, <1>3, <1>4, <1>6
  <2>. QED BY <2>1, <2>2 DEF ServiceLine, Says, RowIs
<1>. QED BY <1>1, <1>4, <1>5, <1>7, <1>8, WritePreserves

LEMMA CatchPreserves ==
  ASSUME HealthInv, NEW r \in DOMAIN served, Health!catch(r)
  PROVE  HealthInv'
<1>0. PICK told, time, kind : /\ told = FilterRow(kind, r, time)
                             /\ time = healthClock /\ kind = served[r].kind
  OBVIOUS
<1>1. /\ served' = [served EXCEPT ![r].caught = TRUE] /\ buffered' = buffered \cup {told}
      /\ UNCHANGED <<healthClock, stored, strip, storedThen>>
      /\ served[r].kind \in Health!Failures
  BY <1>0 DEF Health!catch, FilterRow
<1>. DEFINE Request == [kind : Health!Kinds, caught : BOOLEAN]
<1>2. served \in Seq(Request) /\ healthClock \in Int
  BY DEF HealthInv, HealthTyped
<1>3. \A q \in DOMAIN served : served[q] \in Request
  <2>. HIDE DEF Request
  <2>. QED BY <1>2
<1>4. DOMAIN served' = DOMAIN served /\ \A q \in DOMAIN served : served'[q].kind = served[q].kind
  BY <1>1, <1>3
<1>5. served' \in Seq(Request)
  <2>1. [served[r] EXCEPT !.caught = TRUE] \in Request
    BY <1>3
  <2>2. served' = [served EXCEPT ![r] = [served[r] EXCEPT !.caught = TRUE]]
    BY <1>1
  <2>. HIDE DEF Request
  <2>. QED BY <1>2, <2>1, <2>2
<1>6. HealthTyped'
  BY <1>1, <1>2, <1>5 DEF HealthTyped
<1>7. \/ kind = "4xx" /\ RowIs(told, r, time, "HTTP_EXCEPTION_HANDLED", "error", 402, 0)
      \/ kind = "5xx" /\ RowIs(told, r, time, "HTTP_EXCEPTION_UNHANDLED", "error", 503, 0)
  <2>1. kind \in Health!Kinds /\ kind \in {"4xx", "5xx"}
    BY <1>0, <1>1 DEF Health!Kinds, Health!Failures
  <2>. QED BY <1>0, <2>1, RowsSay
<1>8. /\ (ServiceLine(told))' /\ told.request = r /\ told.logKey # "METHOD_SLOW_EXECUTION"
  BY <1>0, <1>1, <1>2, <1>4, <1>7 DEF ServiceLine, Says, RowIs
<1>9. PICK new : new = {told}
  OBVIOUS
<1>10. /\ IsFiniteSet(new) /\ (\A a, b \in new : a = b) /\ buffered' = buffered \cup new
       /\ \A row \in new : /\ (ServiceLine(row))' /\ row.request = r
                           /\ row.logKey # "METHOD_SLOW_EXECUTION"
  BY <1>1, <1>8, <1>9, FS_Singleton
<1>. QED BY <1>1, <1>4, <1>6, <1>10, WritePreserves

\* Where no request changes, no line does.
LEMMA LinesStay ==
  ASSUME HealthInv, UNCHANGED served, (buffered \cup stored)' \subseteq buffered \cup stored,
         IsFiniteSet(buffered'), IsFiniteSet(stored')
  PROVE  HealthLines'
<1>1. \A row \in buffered \cup stored : (ServiceLine(row))'
  BY DEF HealthInv, HealthLines, ServiceLine, Says
<1>. QED BY <1>1 DEF HealthInv, HealthLines

LEMMA FlushPreserves == ASSUME HealthInv, Health!flush PROVE HealthInv'
<1>1. /\ buffered' = {} /\ stored' \in {stored, stored \cup buffered}
      /\ UNCHANGED <<healthClock, served, strip, storedThen>>
  BY DEF Health!flush
<1>2. HealthTyped'
  BY <1>1 DEF HealthInv, HealthTyped
<1>3. HealthLines'
  <2>1. IsFiniteSet(buffered') /\ IsFiniteSet(stored')
    BY <1>1, FS_EmptySet, FS_Union DEF HealthInv, HealthLines
  <2>. QED BY <1>1, <2>1, LinesStay
<1>4. HealthRead'
  <2>1. Health!shown' = Health!shown /\ stored \subseteq stored'
    BY <1>1 DEF Health!shown
  <2>. QED BY <1>1, <2>1 DEF HealthInv, HealthRead
<1>. QED BY <1>2, <1>3, <1>4 DEF HealthInv

LEMMA StripPreserves ==
  ASSUME HealthInv, NEW metric \in Health!METRICS, Health!query(metric) \/ Health!fails(metric)
  PROVE  HealthInv'
<1>1. UNCHANGED <<healthClock, served, buffered, stored>>
  BY DEF Health!query, Health!fails
<1>2. HealthTyped'
  BY <1>1 DEF HealthInv, HealthTyped
<1>3. HealthLines'
  BY <1>1, LinesStay DEF HealthInv, HealthLines
<1>. DEFINE old == strip[metric]
<1>4. /\ old = [data |-> old.data, fetch |-> old.fetch, answer |-> old.answer, error |-> old.error]
      /\ old.data \subseteq ResultsOf(storedThen[metric], Health!shown, metric)
      /\ storedThen[metric] \subseteq stored
      /\ DOMAIN strip = Health!METRICS /\ DOMAIN storedThen = Health!METRICS
  BY DEF HealthInv, HealthRead
<1>5. \E new, lines : /\ strip' = [strip EXCEPT ![metric] = new]
                      /\ storedThen' = [storedThen EXCEPT ![metric] = lines]
                      /\ new = [data |-> new.data, fetch |-> new.fetch,
                                answer |-> new.answer, error |-> new.error]
                      /\ lines \subseteq stored
                      /\ new.data \subseteq ResultsOf(lines, Health!shown, metric)
  <2>1. CASE Health!query(metric)
    <3>1. PICK found \in Health!Results(metric) :
            strip' = [strip EXCEPT ![metric] = Health!Cache!Deliver(Health!Cache!Answer(old, found))]
      BY <2>1 DEF Health!query
    <3>. DEFINE new == Health!Cache!Deliver(Health!Cache!Answer(old, found))
    <3>2. new = [data |-> {found}, fetch |-> "idle", answer |-> {}, error |-> FALSE]
      BY <1>4 DEF Health!Cache!Deliver, Health!Cache!Answer, Health!Cache!NoData
    <3>3. found \in ResultsOf(stored, Health!shown, metric)
      BY <3>1, ResultsAre
    <3>4. strip' = [strip EXCEPT ![metric] = new] /\ storedThen' = [storedThen EXCEPT ![metric] = stored]
      BY <2>1, <3>1 DEF Health!query
    <3>. HIDE DEF new, old
    <3>5. new.data = {found} /\ new.fetch = "idle" /\ new.answer = {} /\ new.error = FALSE
      BY <3>2
    <3>6. new.data \subseteq ResultsOf(stored, Health!shown, metric)
      BY <3>3, <3>5
    <3>. QED BY <3>2, <3>4, <3>5, <3>6
  <2>2. CASE Health!fails(metric)
    <3>1. strip' = [strip EXCEPT ![metric] = Health!Cache!Fail(old)] /\ storedThen' = storedThen
      BY <2>2 DEF Health!fails
    <3>. HIDE DEF old
    <3>. DEFINE new == Health!Cache!Fail(old)
    <3>2. new = Health!Cache!Fail(old) /\ strip' = [strip EXCEPT ![metric] = new]
      BY <3>1
    <3>. HIDE DEF new
    <3>3. new = [data |-> new.data, fetch |-> new.fetch, answer |-> new.answer, error |-> new.error]
      BY <1>4, <3>2 DEF Health!Cache!Fail, Health!Cache!NoData
    <3>4. new.data = old.data
      BY <1>4, <3>2 DEF Health!Cache!Fail, Health!Cache!NoData
    <3>5. new.data \subseteq ResultsOf(storedThen[metric], Health!shown, metric)
      BY <1>4, <3>4
    <3>6. storedThen' = [storedThen EXCEPT ![metric] = storedThen[metric]]
      BY <1>4, <3>1 DEF HealthInv, HealthRead
    <3>. QED BY <1>4, <3>2, <3>3, <3>5, <3>6
  <2>. QED BY <2>1, <2>2
<1>6. HealthRead'
  <2>1. PICK new, lines : /\ strip' = [strip EXCEPT ![metric] = new]
                          /\ storedThen' = [storedThen EXCEPT ![metric] = lines]
                          /\ new = [data |-> new.data, fetch |-> new.fetch,
                                    answer |-> new.answer, error |-> new.error]
                          /\ lines \subseteq stored
                          /\ new.data \subseteq ResultsOf(lines, Health!shown, metric)
    BY <1>5
  <2>2. /\ DOMAIN strip' = Health!METRICS /\ strip' = [m \in Health!METRICS |-> strip'[m]]
        /\ DOMAIN storedThen' = Health!METRICS /\ storedThen' = [m \in Health!METRICS |-> storedThen'[m]]
        /\ strip'[metric] = new /\ storedThen'[metric] = lines
        /\ \A m \in Health!METRICS : m # metric => strip'[m] = strip[m] /\ storedThen'[m] = storedThen[m]
    BY <1>4, <2>1
  <2>3. Health!shown' = Health!shown
    BY <1>1 DEF Health!shown
  <2>4. ASSUME NEW m \in Health!METRICS
        PROVE  /\ strip'[m] = [data |-> strip'[m].data, fetch |-> strip'[m].fetch,
                               answer |-> strip'[m].answer, error |-> strip'[m].error]
               /\ storedThen'[m] \subseteq stored'
               /\ strip'[m].data \subseteq ResultsOf(storedThen'[m], Health!shown', m)
    <3>1. CASE m = metric
      BY <1>1, <2>1, <2>2, <2>3, <3>1
    <3>2. CASE m # metric
      BY <1>1, <2>2, <2>3, <3>2 DEF HealthInv, HealthRead
    <3>. QED BY <3>1, <3>2
  <2>. QED BY <2>2, <2>4 DEF HealthRead
<1>. QED BY <1>2, <1>3, <1>6 DEF HealthInv

LEMMA HealthTickPreserves == ASSUME HealthInv, Health!Tick PROVE HealthInv'
<1>1. /\ healthClock' = healthClock + 1 /\ UNCHANGED <<served, buffered, stored>>
      /\ IF Health!shown' = Health!shown THEN UNCHANGED <<strip, storedThen>>
         ELSE /\ strip' = [m \in Health!METRICS |-> Health!Cache!FirstLoad]
              /\ storedThen' = [m \in Health!METRICS |-> {}]
  BY DEF Health!Tick
<1>2. HealthTyped'
  BY <1>1 DEF HealthInv, HealthTyped
<1>3. HealthLines'
  BY <1>1, LinesStay DEF HealthInv, HealthLines
<1>4. HealthRead'
  <2>1. CASE Health!shown' = Health!shown
    BY <1>1, <2>1 DEF HealthInv, HealthRead
  <2>2. CASE Health!shown' # Health!shown
    BY <1>1, <2>2 DEF HealthRead, Health!Cache!FirstLoad, Health!Cache!NoData
  <2>. QED BY <2>1, <2>2
<1>. QED BY <1>2, <1>3, <1>4 DEF HealthInv

LEMMA HealthNextPreserves == ASSUME HealthInv, [Health!Next]_(Health!vars) PROVE HealthInv'
<1>1. CASE UNCHANGED Health!vars
  <2>1. UNCHANGED <<healthClock, served, buffered, stored, strip, storedThen>>
    BY <1>1 DEF Health!vars
  <2>2. HealthLines'
    BY <2>1, LinesStay DEF HealthInv, HealthLines
  <2>3. Health!shown' = Health!shown
    BY <2>1 DEF Health!shown
  <2>. QED BY <2>1, <2>2, <2>3 DEF HealthInv, HealthTyped, HealthRead
<1>. QED
  BY <1>1, ServePreserves, CatchPreserves, FlushPreserves, StripPreserves, HealthTickPreserves
     DEF Health!Next

(* What the lines say of the requests. *)

\* Every line that a query found is a line of the service, within the window.
LEMMA FoundAreLines ==
  ASSUME HealthInv, NEW metric \in Health!METRICS
  PROVE  LET found == Health!Found(metric)
         IN  /\ IsFiniteSet(found)
             /\ \A row \in found : /\ ServiceLine(row)
                                   /\ row.time \in Health!shown.from .. Health!shown.to
             /\ \A a, b \in found :
                  (/\ a.request = b.request /\ a.logKey = "METHOD_SLOW_EXECUTION"
                   /\ b.logKey = "METHOD_SLOW_EXECUTION") => a = b
<1>1. storedThen[metric] \subseteq stored
  BY DEF HealthInv, HealthRead
<1>2. Health!Found(metric) \subseteq stored
  BY <1>1 DEF Health!Found, Health!Within
<1>3. \A row \in Health!Found(metric) : row.time \in Health!shown.from .. Health!shown.to
  BY DEF Health!Found, Health!Within
<1>. QED BY <1>2, <1>3, FS_Subset DEF HealthInv, HealthLines

LEMMA WindowIsOfTheService ==
  ASSUME HealthInv, NEW metric \in Health!METRICS
  PROVE  LET found == Health!Found(metric)
             slow == Health!Told(metric, {"slow"})
         IN  /\ ServiceLines(found)
             /\ \A row \in found : row.durationMs \in Nat
             /\ \A row \in found : row.status # 0 => row.logKey \in RequestKeys \cup FilterKeys
             /\ Health!Told(metric, {"4xx"}) # {} <=> \E row \in found : row.status = 402
             /\ Health!Told(metric, {"5xx"}) # {} <=> \E row \in found : row.status = 503
             /\ Health!Told(metric, Health!Failures) # {} <=> Failing(found) # {}
             /\ slow # {} => \E row \in found : row.durationMs # 0
             /\ Cardinality({row \in found : row.logKey = "METHOD_SLOW_EXECUTION"})
                  = Cardinality(slow)
             /\ IsFiniteSet(slow)
<1>. DEFINE found == Health!Found(metric)
            slow == Health!Told(metric, {"slow"})
            T == {row \in found : row.logKey = "METHOD_SLOW_EXECUTION"}
            f == [row \in T |-> row.request]
<1>1. /\ IsFiniteSet(found) /\ \A row \in found : ServiceLine(row)
      /\ \A a, b \in T : a.request = b.request => a = b
  BY FoundAreLines
<1>2. \A kinds : Health!Told(metric, kinds)
                   = {r \in DOMAIN served :
                        served[r].kind \in kinds /\ \E row \in found : row.request = r}
  BY DEF Health!Told
<1>. HIDE DEF found
<1>3. ServiceLines(found)
  BY <1>1 DEF ServiceLines, ServiceLine, Says
<1>4. \A row \in found : row.durationMs \in Nat
  BY <1>1 DEF ServiceLine, Says
<1>5. \A row \in found : row.status # 0 => row.logKey \in RequestKeys \cup FilterKeys
  BY <1>1 DEF ServiceLine, Says, RequestKeys, FilterKeys
<1>6. \A row \in found :
        /\ row.request \in DOMAIN served
        /\ row.status = 402 <=> served[row.request].kind = "4xx"
        /\ row.status = 503 <=> served[row.request].kind = "5xx"
        /\ row.logKey = "METHOD_SLOW_EXECUTION" <=> served[row.request].kind = "slow"
        /\ row.logKey = "METHOD_SLOW_EXECUTION" => row.durationMs # 0
  BY <1>1 DEF ServiceLine, Says
<1>7. Health!Told(metric, {"4xx"}) # {} <=> \E row \in found : row.status = 402
  BY <1>2, <1>6
<1>8. Health!Told(metric, {"5xx"}) # {} <=> \E row \in found : row.status = 503
  BY <1>2, <1>6
<1>9. Health!Told(metric, Health!Failures) # {} <=> Failing(found) # {}
  <2>1. \A row \in found : row.status # 0 <=> row.status = 402 \/ row.status = 503
    BY <1>3 DEF ServiceLines
  <2>. QED BY <1>2, <1>6, <2>1 DEF Health!Failures, Failing
<1>10. slow = {r \in DOMAIN served :
                 served[r].kind = "slow" /\ \E row \in found : row.request = r}
  BY <1>2
<1>. HIDE DEF slow
<1>11. slow # {} => \E row \in found : row.durationMs # 0
  BY <1>6, <1>10
<1>12. \A row \in T : row.request \in slow
  BY <1>6, <1>10
<1>13. \A r \in slow : \E row \in T : row.request = r
  BY <1>6, <1>10
<1>14. IsFiniteSet(T)
  BY <1>1, FS_Subset
<1>. HIDE DEF T
<1>15. f \in Bijection(T, slow)
  <2>1. f \in [T -> slow] /\ \A row \in T : f[row] = row.request
    BY <1>12
  <2>. HIDE DEF f
  <2>. QED BY <1>1, <1>13, <2>1 DEF Bijection, Injection, Surjection, IsInjective
<1>16. IsFiniteSet(slow) /\ Cardinality(slow) = Cardinality(T)
  <2>1. ExistsBijection(T, slow)
    BY <1>15 DEF ExistsBijection
  <2>. QED BY <1>14, <2>1, FS_Bijection
<1>. QED BY <1>3, <1>4, <1>5, <1>7, <1>8, <1>9, <1>11, <1>16 DEF found, slow, T

\* The lines at error and above are those that FatalErrorNamesErrors names.
LEMMA ErrorsAreNamed ==
  ASSUME HealthInv
  PROVE  (\E row \in Health!Found("volume") : row.level \in {"error", "fatal"})
           <=> {r \in Health!Told("volume", Health!Failures \cup {"erred"}) :
                  \/ served[r].kind # "4xx"
                  \/ \E row \in Health!Found("volume") :
                       row.request = r /\ row.logKey = "HTTP_EXCEPTION_HANDLED"} # {}
<1>. DEFINE found == Health!Found("volume")
            told == Health!Told("volume", Health!Failures \cup {"erred"})
<1>1. \A row \in found : ServiceLine(row)
  BY FoundAreLines DEF Health!METRICS
<1>2. told = {r \in DOMAIN served : /\ served[r].kind \in {"4xx", "5xx", "erred"}
                                   /\ \E row \in found : row.request = r}
  BY DEF Health!Told, Health!Failures
<1>. HIDE DEF found, told
<1>3. \A row \in found :
        /\ row.request \in DOMAIN served
        /\ row.level \in {"error", "fatal"} <=>
             \/ served[row.request].kind \in {"5xx", "erred"}
             \/ served[row.request].kind = "4xx" /\ row.logKey = "HTTP_EXCEPTION_HANDLED"
  BY <1>1 DEF ServiceLine, Says
<1>. QED BY <1>2, <1>3 DEF found, told

(* The tiles. *)

LEMMA WindowShown ==
  ASSUME HealthInv
  PROVE  /\ Health!shown.from \in Int /\ Health!shown.to \in Int
         /\ Health!resolveBucket(Health!shown.from, Health!shown.to)
              = [unit |-> MINUTE, interval |-> MINUTE]
<1>. DEFINE q == MINUTE \div 2
<1>1. q \in Nat \ {0} /\ MINUTE \in Nat
  BY ChartsAssumption
<1>. HIDE DEF q
<1>2. healthClock \in Int /\ healthClock % q \in Int
  BY <1>1 DEF HealthInv, HealthTyped
<1>3. /\ Health!shown.from = healthClock - (healthClock % q) - MINUTE
      /\ Health!shown.to = healthClock - (healthClock % q)
  BY DEF Health!shown, Health!Window, Health!quantum, q
<1>4. Health!shown.to - Health!shown.from = MINUTE
  BY <1>1, <1>2, <1>3
<1>5. MINUTE <= 6 * (60 * MINUTE)
  BY <1>1
<1>6. Health!resolveBucket(Health!shown.from, Health!shown.to)
        = [unit |-> MINUTE, interval |-> MINUTE]
  BY <1>4, <1>5 DEF Health!resolveBucket, Health!HOUR
<1>. QED BY <1>1, <1>2, <1>3, <1>6

\* The tiles show what is made of the lines that their queries found.
LEMMA TilesShow ==
  ASSUME HealthInv
  PROVE  /\ Health!Tiles =>
              /\ Health!Data("volume") = Health!volume(Health!Found("volume"), Health!shown,
                                           [unit |-> MINUTE, interval |-> MINUTE])
              /\ Health!Data("latency") = Health!latency(Health!Found("latency"), MINUTE)
              /\ Health!Data("statusMix") = Health!statusMix(Health!Found("statusMix"), MINUTE)
         /\ strip["logKeys"].data # {} =>
              Health!Data("logKeys") \in Health!groupBy(Health!Found("logKeys"))
<1>. DEFINE one == [unit |-> MINUTE, interval |-> MINUTE]
<1>1. \A m : Health!Found(m) = LinesWithin(storedThen[m], Health!shown)
  BY DEF Health!Found, Health!Within, LinesWithin
<1>2. Health!resolveBucket(Health!shown.from, Health!shown.to) = one /\ one.unit = MINUTE
  BY WindowShown
<1>. HIDE DEF one
<1>3. \A m \in Health!METRICS : strip[m].data \subseteq ResultsOf(storedThen[m], Health!shown, m)
  BY DEF HealthInv, HealthRead
<1>4. /\ ResultsOf(storedThen["volume"], Health!shown, "volume")
           = {Health!volume(Health!Found("volume"), Health!shown, one)}
      /\ ResultsOf(storedThen["latency"], Health!shown, "latency")
           = {Health!latency(Health!Found("latency"), MINUTE)}
      /\ ResultsOf(storedThen["statusMix"], Health!shown, "statusMix")
           = {Health!statusMix(Health!Found("statusMix"), MINUTE)}
      /\ ResultsOf(storedThen["logKeys"], Health!shown, "logKeys")
           = Health!groupBy(Health!Found("logKeys"))
  BY <1>1, <1>2 DEF ResultsOf
<1>5. \A m \in Health!METRICS : strip[m].data # {} =>
        Health!Data(m) \in ResultsOf(storedThen[m], Health!shown, m)
  BY <1>3 DEF Health!Data
<1>6. Health!Tiles => \A m \in {"volume", "latency", "statusMix"} : strip[m].data # {}
  BY DEF Health!Tiles, Health!Loading, Health!METRICS
<1>. QED BY <1>4, <1>5, <1>6 DEF Health!METRICS, one

\* The error rate is of the failing lines, among themselves.
LEMMA ErrRateIs ==
  ASSUME HealthInv, Health!Tiles
  PROVE  LET e == Cardinality(Failing(Health!Found("statusMix")))
         IN  /\ e \in Nat /\ (e > 0 <=> Failing(Health!Found("statusMix")) # {})
             /\ Health!errRate.n = e /\ Health!errRate.of = IF e = 0 THEN 1 ELSE e
<1>. DEFINE found == Health!Found("statusMix")
            e == Cardinality(Failing(found))
            mix == Health!Data("statusMix")
<1>1. mix = Health!statusMix(found, MINUTE)
  BY TilesShow
<1>2. ServiceLines(found)
  BY WindowIsOfTheService DEF Health!METRICS
<1>. HIDE DEF mix, found
<1>3. e \in Nat /\ (e = 0 <=> Failing(found) = {})
  <2>1. Failing(found) \subseteq found
    BY DEF Failing
  <2>2. IsFiniteSet(Failing(found))
    BY <1>2, <2>1, FS_Subset DEF ServiceLines
  <2>. QED BY <2>2, FS_EmptySet, FS_CardinalityType
<1>4. Health!sumStatusErrors(mix) = e
  BY <1>1, <1>2, MixCounts
<1>5. Health!totalRequests = e
  <2>. DEFINE totals == Health!statusTotals(mix)
  <2>1. SumOver(totals, [t \in totals |-> t.total]) = e
    BY <1>1, <1>2, MixCounts
  <2>2. Health!totalRequests = SumOver(totals, [t \in totals |-> t.total])
    BY TotalRequestsIs DEF mix
  <2>. QED BY <2>1, <2>2
<1>6. Health!errRate = Health!Share(e, e)
  BY <1>4, <1>5 DEF Health!errRate, mix
<1>. HIDE DEF e
<1>7. Health!errRate.n = e /\ Health!errRate.of = IF e = 0 THEN 1 ELSE e
  BY <1>6 DEF Health!Share
<1>. QED BY <1>3, <1>7 DEF e, found

LEMMA HalfIsNothing == ASSUME NEW e \in Nat \ {0} PROVE e \div (2 * e) = 0
<1>. DEFINE d == 2 * e
<1>1. d \in Nat \ {0} /\ e \in 0 .. (d - 1)
  OBVIOUS
<1>. HIDE DEF d
<1>2. e \div d = 0
  BY <1>1
<1>. QED BY <1>2 DEF d

LEMMA BudgetIs ==
  ASSUME HealthInv, Health!Tiles
  PROVE  /\ Failing(Health!Found("statusMix")) = {} =>
              ~Health!errorsDanger /\ Health!budgetPct = 100 /\ Health!breached = {}
         /\ Failing(Health!Found("statusMix")) # {} =>
              Health!errorsDanger /\ Health!budgetPct = 0 /\ Health!breached = {144, 60, 10}
<1>. DEFINE e == Cardinality(Failing(Health!Found("statusMix")))
            of == Health!errRate.of
            n == Health!errRate.n
            left == Health!Max({0, of - 1000 * n})
<1>1. /\ e \in Nat /\ (e > 0 <=> Failing(Health!Found("statusMix")) # {})
      /\ n = e /\ of = IF e = 0 THEN 1 ELSE e
  BY ErrRateIs
<1>2. /\ Health!errorsDanger <=> n * 100 > of
      /\ Health!budgetPct = (200 * left + of) \div (2 * of)
      /\ Health!breached = {tenfold \in {144, 60, 10} : n * 10000 >= tenfold * of}
  BY DEF Health!errorsDanger, Health!budgetPct, Health!breached
<1>3. \A a \in Int, b \in Int : Health!Max({a, b}) = IF a >= b THEN a ELSE b
  BY DEF Health!Max
<1>. HIDE DEF e, of, n, left
<1>4. left = IF e = 0 THEN 1 ELSE 0
  <2>1. of - 1000 * n \in Int
    BY <1>1
  <2>2. left = IF 0 >= of - 1000 * n THEN 0 ELSE of - 1000 * n
    BY <1>3, <2>1 DEF left
  <2>3. CASE e = 0
    BY <1>1, <2>2, <2>3
  <2>4. CASE e # 0
    <3>1. n = e /\ of = e /\ e >= 1
      BY <1>1, <2>4
    <3>2. 0 >= of - 1000 * n
      BY <1>1, <3>1
    <3>. QED BY <2>2, <2>4, <3>2
  <2>. QED BY <2>3, <2>4
<1>5. CASE e = 0
  <2>1. n = 0 /\ of = 1 /\ left = 1
    BY <1>1, <1>4, <1>5
  <2>2. Health!budgetPct = 100
    BY <1>2, <2>1
  <2>. QED BY <1>1, <1>2, <1>5, <2>1, <2>2
<1>6. CASE e > 0
  <2>1. n = e /\ of = e /\ left = 0
    BY <1>1, <1>4, <1>6
  <2>2. Health!budgetPct = 0
    BY <1>1, <1>2, <1>6, <2>1, HalfIsNothing
  <2>3. \A tenfold \in {144, 60, 10} : n * 10000 >= tenfold * of
    BY <1>1, <1>6, <2>1
  <2>4. Health!breached = {144, 60, 10}
    BY <1>2, <2>3
  <2>5. Health!errorsDanger
    BY <1>1, <1>2, <1>6, <2>1
  <2>6. Failing(Health!Found("statusMix")) # {}
    BY <1>1, <1>6
  <2>. QED BY <2>2, <2>4, <2>5, <2>6
<1>. QED BY <1>1, <1>5, <1>6

\* FATAL+ERROR names the lines at error and above, as far as their bars are drawn.
LEMMA FatalErrorIs ==
  ASSUME HealthInv, Health!Tiles
  PROVE  LET erring == \E row \in Health!Found("volume") : row.level \in {"error", "fatal"}
         IN  /\ ~erring => Health!fatalError = 0
             /\ Health!Aligned => (Health!fatalError > 0 <=> erring)
<1>. DEFINE found == Health!Found("volume")
            one == [unit |-> MINUTE, interval |-> MINUTE]
            levels == {"error", "fatal"}
            bars == Filter!volume(found, Health!shown, one)
            S == {bar \in bars : bar.level \in levels}
            Told == {row \in found : row.level \in levels}
<1>1. Health!fatalError = Filter!sumLevels(bars, levels)
  BY TilesShow, SameBars DEF Health!fatalError
<1>2. ServiceLines(found)
  BY WindowIsOfTheService DEF Health!METRICS
<1>3. ASSUME Told = {} PROVE Health!fatalError = 0
  <2>1. \A bar \in bars : \E row \in found : bar.level = row.level
    BY BarShape
  <2>2. S = {}
    <3>. HIDE DEF bars, found
    <3>. QED BY <1>3, <2>1
  <2>3. Filter!sumLevels(bars, levels) = SumOver(S, [b \in S |-> b.n])
    BY SumLevelsIs
  <2>. DEFINE h == [b \in S |-> b.n]
  <2>4. IsFiniteSet(S) /\ h \in [S -> Int]
    <3>. HIDE DEF S
    <3>. QED BY <2>2, FS_EmptySet
  <2>. HIDE DEF h, S
  <2>5. PICK g : Sums(g, S, h) /\ SumOver(S, h) = g[S]
    BY <2>4, SumOverSplits
  <2>6. g[{}] = 0
    BY <2>4, <2>5, SumsSplit
  <2>. QED BY <1>1, <2>2, <2>3, <2>5, <2>6 DEF h, S
<1>4. ASSUME Health!Aligned PROVE Health!fatalError > 0 <=> Told # {}
  <2>1. OnBuckets(found, Health!shown, one)
    <3>1. MINUTE \in Nat \ {0} /\ Health!shown.from % MINUTE = 0
      BY <1>4, ChartsAssumption DEF Health!Aligned
    <3>2. \A row \in found : row.time \in Health!shown.from .. Health!shown.to
      BY FoundAreLines DEF Health!METRICS
    <3>3. Health!shown.from \in Int /\ Health!shown.to \in Int
      BY WindowShown
    <3>4. one.unit = MINUTE /\ one.interval = MINUTE
      OBVIOUS
    <3>. HIDE DEF one, found
    <3>. QED BY <3>1, <3>2, <3>3, <3>4 DEF OnBuckets
  <2>. HIDE DEF one, found
  <2>2. Filter!sumLevels(bars, levels) = Cardinality(Told)
    <3>. HIDE DEF levels
    <3>. QED BY <1>2, <2>1, LevelsCount DEF ServiceLines
  <2>3. IsFiniteSet(Told)
    BY <1>2, FS_Subset DEF ServiceLines
  <2>. HIDE DEF Told
  <2>4. Cardinality(Told) \in Nat /\ (Cardinality(Told) = 0 <=> Told = {})
    BY <2>3, FS_EmptySet, FS_CardinalityType
  <2>. QED BY <1>1, <2>2, <2>4
<1>5. Told # {} <=> \E row \in Health!Found("volume") : row.level \in {"error", "fatal"}
  OBVIOUS
<1>. HIDE DEF Told
<1>. QED BY <1>3, <1>4, <1>5

LEMMA FatalErrorTold == HealthInv => Health!FatalErrorNamesErrors
<1>. DEFINE erring == \E row \in Health!Found("volume") : row.level \in {"error", "fatal"}
            named == {r \in Health!Told("volume", Health!Failures \cup {"erred"}) :
                        \/ served[r].kind # "4xx"
                        \/ \E row \in Health!Found("volume") :
                             row.request = r /\ row.logKey = "HTTP_EXCEPTION_HANDLED"}
<1>1. SUFFICES ASSUME HealthInv, Health!Tiles PROVE Health!FatalErrorNamesErrors
  BY DEF Health!FatalErrorNamesErrors
<1>2. erring <=> named # {}
  BY <1>1, ErrorsAreNamed
<1>3. (~erring => Health!fatalError = 0) /\ (Health!Aligned => (Health!fatalError > 0 <=> erring))
  BY <1>1, FatalErrorIs
<1>. HIDE DEF erring
<1>4. (Health!fatalError > 0 => named # {}) /\ ((Health!Aligned /\ named # {}) => Health!fatalError > 0)
  BY <1>2, <1>3
<1>. QED BY <1>4 DEF Health!FatalErrorNamesErrors, named

\* The sparkline and the lines are bucket by bucket what the failing lines are.
RateLineAt(found, b) ==
  LET of == IF FailingAt(found, b) = {} THEN 1 ELSE Cardinality(FailingAt(found, b))
  IN  [bucket |-> b, rate4xx |-> [n |-> Cardinality(WithStatus(found, b, 402)), of |-> of],
       rate5xx |-> [n |-> Cardinality(WithStatus(found, b, 503)), of |-> of]]
RatePointAt(found, b) ==
  [bucket |-> b,
   rate |-> [n |-> Cardinality(FailingAt(found, b)),
             of |-> IF FailingAt(found, b) = {} THEN 1 ELSE Cardinality(FailingAt(found, b))]]

LEMMA RatesAre ==
  ASSUME HealthInv, Health!Tiles
  PROVE  LET found == Health!Found("statusMix")
         IN  /\ Health!errorRateLines = {RateLineAt(found, b) : b \in MinutesOf(found)}
             /\ Health!statusErrorRatePctSeries(Health!Data("statusMix"))
                  = {RatePointAt(found, b) : b \in MinutesOf(found)}
<1>. DEFINE found == Health!Found("statusMix")
            mix == Health!Data("statusMix")
            B == MinutesOf(found)
            Line(m) == [bucket |-> m.bucket, rate4xx |-> Health!Share(m.s4xx, Health!InClasses(m)),
                        rate5xx |-> Health!Share(m.s5xx, Health!InClasses(m))]
            Point(m) == [bucket |-> m.bucket,
                         rate |-> Health!Share(m.s4xx + m.s5xx, Health!InClasses(m))]
<1>1. ServiceLines(found)
  BY WindowIsOfTheService DEF Health!METRICS
<1>2. mix = {MixAt(found, b) : b \in B}
  BY <1>1, MixIs, TilesShow
<1>3. ASSUME NEW b
      PROVE  /\ Line(MixAt(found, b)) = RateLineAt(found, b)
             /\ Point(MixAt(found, b)) = RatePointAt(found, b)
  <2>. DEFINE m == MixAt(found, b)
              e == Cardinality(FailingAt(found, b))
  <2>1. /\ m.bucket = b /\ m.s4xx = Cardinality(WithStatus(found, b, 402))
        /\ m.s5xx = Cardinality(WithStatus(found, b, 503))
    BY MixFields
  <2>2. /\ m.s4xx + m.s5xx = e /\ Health!InClasses(m) = e
        /\ (e > 0 <=> FailingAt(found, b) # {}) /\ e \in Nat
    BY <1>1, ClassesOf
  <2>3. (IF e = 0 THEN 1 ELSE e) = IF FailingAt(found, b) = {} THEN 1 ELSE e
    <3>. HIDE DEF e
    <3>. QED BY <2>2
  <2>. HIDE DEF m, e
  <2>4. Line(m) = RateLineAt(found, b)
    BY <2>1, <2>2, <2>3 DEF Health!Share, RateLineAt, e
  <2>5. Point(m) = RatePointAt(found, b)
    BY <2>1, <2>2, <2>3 DEF Health!Share, RatePointAt, e
  <2>. QED BY <2>4, <2>5 DEF m
<1>4. Health!errorRateLines = {Line(m) : m \in mix}
  BY DEF Health!errorRateLines
<1>5. Health!statusErrorRatePctSeries(mix) = {Point(m) : m \in mix}
  BY DEF Health!statusErrorRatePctSeries
<1>. HIDE DEF Line, Point, mix, B, found
<1>. QED BY <1>2, <1>3, <1>4, <1>5 DEF mix, B, found

LEMMA RateFields ==
  ASSUME NEW found, NEW b
  PROVE  LET e == Cardinality(FailingAt(found, b))
             of == IF FailingAt(found, b) = {} THEN 1 ELSE e
             line == RateLineAt(found, b)
             point == RatePointAt(found, b)
         IN  /\ line.bucket = b /\ point.bucket = b
             /\ line.rate4xx.n = Cardinality(WithStatus(found, b, 402)) /\ line.rate4xx.of = of
             /\ line.rate5xx.n = Cardinality(WithStatus(found, b, 503)) /\ line.rate5xx.of = of
             /\ point.rate.n = e /\ point.rate.of = of
BY DEF RateLineAt, RatePointAt

LEMMA RatesTell ==
  ASSUME NEW found, ServiceLines(found), NEW b
  PROVE  LET line == RateLineAt(found, b)
             point == RatePointAt(found, b)
         IN  /\ line.bucket = b
             /\ point.rate.n * 100 > point.rate.of <=> FailingAt(found, b) # {}
             /\ line.rate4xx.n > 0 <=> WithStatus(found, b, 402) # {}
             /\ line.rate5xx.n > 0 <=> WithStatus(found, b, 503) # {}
             /\ line.rate4xx.n + line.rate5xx.n > 0 <=> FailingAt(found, b) # {}
             /\ line.rate4xx.n + line.rate5xx.n \in {0, line.rate4xx.of}
<1>. DEFINE e == Cardinality(FailingAt(found, b))
            x == Cardinality(WithStatus(found, b, 402))
            y == Cardinality(WithStatus(found, b, 503))
            of == IF FailingAt(found, b) = {} THEN 1 ELSE e
            line == RateLineAt(found, b)
            point == RatePointAt(found, b)
<1>1. /\ line.bucket = b /\ line.rate4xx.n = x /\ line.rate4xx.of = of
      /\ line.rate5xx.n = y /\ point.rate.n = e /\ point.rate.of = of
  BY RateFields
<1>2. /\ x \in Nat /\ y \in Nat /\ x + y = e
      /\ (x > 0 <=> WithStatus(found, b, 402) # {}) /\ (y > 0 <=> WithStatus(found, b, 503) # {})
      /\ (e > 0 <=> FailingAt(found, b) # {})
  <2>. DEFINE m == MixAt(found, b)
  <2>1. m.s4xx = x /\ m.s5xx = y
    BY MixFields
  <2>2. /\ m.s4xx \in Nat /\ m.s5xx \in Nat /\ m.s4xx + m.s5xx = e
        /\ (m.s4xx > 0 <=> WithStatus(found, b, 402) # {})
        /\ (m.s5xx > 0 <=> WithStatus(found, b, 503) # {})
        /\ (m.s4xx + m.s5xx > 0 <=> FailingAt(found, b) # {})
    BY ClassesOf
  <2>. HIDE DEF m, x, y, e
  <2>. QED BY <2>1, <2>2
<1>. HIDE DEF e, x, y, line, point
<1>3. of = IF e = 0 THEN 1 ELSE e
  BY <1>2
<1>. HIDE DEF of
<1>4. e * 100 > of <=> e > 0
  BY <1>2, <1>3
<1>5. x + y \in {0, of}
  BY <1>2, <1>3
<1>. QED BY <1>1, <1>2, <1>4, <1>5 DEF line, point

\* The server's rate, over the lines of the interceptors, is red for each of them, and
\* in no other bucket than the failing lines'.
LEMMA ErrorRateTells ==
  ASSUME NEW found, ServiceLines(found)
  PROVE  LET red == {p.bucket : p \in {e \in Health!errorRate(found, MINUTE) : e.errors > 0}}
         IN  /\ red \subseteq {b \in MinutesOf(found) : FailingAt(found, b) # {}}
             /\ \A row \in found : (row.status # 0 /\ row.logKey \in RequestKeys) =>
                  Health!date_trunc(MINUTE, row.time) \in red
<1>. DEFINE requests == {row \in found : row.logKey \in {"HTTP_REQUEST_CLIENT_ERROR",
                                                        "HTTP_REQUEST_SERVER_ERROR"}}
            Failed(b) == {row \in Health!InBucket(requests, MINUTE, b) : row.status >= 400}
            M == Health!Minutes(requests, MINUTE)
            Made(b) == [bucket |-> b, errors |-> Health!Cardinality(Failed(b)),
                        total |-> Health!Cardinality(Health!InBucket(requests, MINUTE, b))]
            P == Health!errorRate(found, MINUTE)
            red == {p.bucket : p \in {e \in P : e.errors > 0}}
<1>1. P = {Made(b) : b \in M}
  BY DEF Health!errorRate
<1>2. \A b : Made(b).bucket = b /\ Made(b).errors = Cardinality(Failed(b))
  BY HealthCardinality
<1>3. \A b : IsFiniteSet(Failed(b))
  <2>1. \A b : Failed(b) \subseteq found
    BY DEF Health!InBucket
  <2>. HIDE DEF Failed
  <2>. QED BY <2>1, FS_Subset DEF ServiceLines
<1>4. \A b : Failed(b) # {} => b \in M /\ FailingAt(found, b) # {}
  <2>1. \A row \in found : row.status >= 400 <=> row.status # 0
    BY DEF ServiceLines
  <2>. QED BY <2>1 DEF Health!InBucket, Health!Minutes, FailingAt
<1>5. \A b : FailingAt(found, b) # {} => b \in MinutesOf(found)
  BY DEF FailingAt, MinutesOf
<1>6. \A row \in found : (row.status # 0 /\ row.logKey \in RequestKeys) =>
        Failed(Health!date_trunc(MINUTE, row.time)) # {}
  <2>. TAKE row \in found
  <2>. HAVE row.status # 0 /\ row.logKey \in RequestKeys
  <2>1. row.status >= 400
    BY DEF ServiceLines
  <2>2. row \in Failed(Health!date_trunc(MINUTE, row.time))
    BY <2>1 DEF Health!InBucket, RequestKeys
  <2>. QED BY <2>2
<1>. HIDE DEF Failed, M, P, Made
<1>7. \A b : Cardinality(Failed(b)) > 0 <=> Failed(b) # {}
  BY <1>3, FS_EmptySet, FS_CardinalityType
<1>8. red = {b \in M : Failed(b) # {}}
  BY <1>1, <1>2, <1>7
<1>. HIDE DEF red
<1>9. red \subseteq {b \in MinutesOf(found) : FailingAt(found, b) # {}}
  BY <1>4, <1>5, <1>8
<1>10. \A row \in found : (row.status # 0 /\ row.logKey \in RequestKeys) =>
         Health!date_trunc(MINUTE, row.time) \in red
  BY <1>4, <1>6, <1>8
<1>. QED BY <1>9, <1>10 DEF red, P

LEMMA FailuresTold == HealthInv => Health!FailuresTurnTheStripRed
<1>. DEFINE found == Health!Found("statusMix")
            B == MinutesOf(found)
            failing == Failing(found) # {}
            told == Health!Told("statusMix", Health!Failures) # {}
            red == {p.bucket : p \in {q \in Health!errorRateLines :
                                         q.rate4xx.n + q.rate5xx.n > 0}}
            serverRed == {p.bucket : p \in {e \in Health!errorRate(found, MINUTE) :
                                               e.errors > 0}}
<1>1. SUFFICES ASSUME HealthInv, Health!Tiles PROVE Health!FailuresTurnTheStripRed
  BY DEF Health!FailuresTurnTheStripRed
<1>2. /\ ServiceLines(found)
      /\ \A row \in found : row.status # 0 => row.logKey \in RequestKeys \cup FilterKeys
      /\ Health!Told("statusMix", {"4xx"}) # {} <=> \E row \in found : row.status = 402
      /\ Health!Told("statusMix", {"5xx"}) # {} <=> \E row \in found : row.status = 503
      /\ told <=> failing
  BY <1>1, WindowIsOfTheService DEF Health!METRICS
<1>3. /\ Health!errorRateLines = {RateLineAt(found, b) : b \in B}
      /\ Health!statusErrorRatePctSeries(Health!Data("statusMix"))
           = {RatePointAt(found, b) : b \in B}
  BY <1>1, RatesAre
<1>4. /\ ~failing => ~Health!errorsDanger /\ Health!budgetPct = 100 /\ Health!breached = {}
      /\ failing => Health!errorsDanger /\ Health!budgetPct = 0 /\ Health!breached = {144, 60, 10}
  BY <1>1, BudgetIs
<1>5. /\ serverRed \subseteq {b \in B : FailingAt(found, b) # {}}
      /\ \A row \in found : (row.status # 0 /\ row.logKey \in RequestKeys) =>
           Health!date_trunc(MINUTE, row.time) \in serverRed
  BY <1>2, ErrorRateTells
<1>. HIDE DEF found, told, serverRed
<1>6. \A row \in found : Health!date_trunc(MINUTE, row.time) \in B
  BY DEF MinutesOf
<1>7. (\E b \in B : FailingAt(found, b) # {}) <=> failing
  BY <1>6 DEF FailingAt, Failing
<1>8. (\E b \in B : WithStatus(found, b, 402) # {}) <=> \E row \in found : row.status = 402
  BY <1>6 DEF WithStatus
<1>9. (\E b \in B : WithStatus(found, b, 503) # {}) <=> \E row \in found : row.status = 503
  BY <1>6 DEF WithStatus
<1>. HIDE DEF B, failing
<1>10. (\E point \in Health!statusErrorRatePctSeries(Health!Data("statusMix")) :
          point.rate.n * 100 > point.rate.of) <=> told
  BY <1>2, <1>3, <1>7, RatesTell
<1>11. (\E point \in Health!errorRateLines : point.rate4xx.n > 0)
         <=> Health!Told("statusMix", {"4xx"}) # {}
  BY <1>2, <1>3, <1>8, RatesTell
<1>12. (\E point \in Health!errorRateLines : point.rate5xx.n > 0)
         <=> Health!Told("statusMix", {"5xx"}) # {}
  BY <1>2, <1>3, <1>9, RatesTell
<1>13. \A point \in Health!errorRateLines :
         point.rate4xx.n + point.rate5xx.n \in {0, point.rate4xx.of}
  BY <1>2, <1>3, RatesTell
<1>14. red = {b \in B : FailingAt(found, b) # {}}
  <2>1. \A b : /\ RateLineAt(found, b).bucket = b
               /\ RateLineAt(found, b).rate4xx.n + RateLineAt(found, b).rate5xx.n > 0
                    <=> FailingAt(found, b) # {}
    BY <1>2, RatesTell
  <2>. QED BY <1>3, <2>1
<1>. HIDE DEF red
<1>15. serverRed \subseteq red
  BY <1>5, <1>14
<1>16. \A row \in found :
         (row.status # 0 /\ Health!date_trunc(MINUTE, row.time) \in red \ serverRed) =>
           row.logKey \in {"HTTP_EXCEPTION_HANDLED", "HTTP_EXCEPTION_UNHANDLED"}
  BY <1>2, <1>5 DEF FilterKeys
<1>17. /\ Health!errorsDanger <=> told
       /\ Health!errorsDanger => Health!budgetPct = 0 /\ Health!breached = {144, 60, 10}
       /\ ~Health!errorsDanger => Health!budgetPct = 100 /\ Health!breached = {}
  BY <1>2, <1>4
<1>. QED
  BY <1>10, <1>11, <1>12, <1>13, <1>15, <1>16, <1>17
     DEF Health!FailuresTurnTheStripRed, found, told, red, serverRed

\* A bucket of the heatmap has a p95 of at least a millisecond, within its p99.
LEMMA LatencyIs ==
  ASSUME NEW found, IsFiniteSet(found), \A row \in found : row.durationMs \in Nat
  PROVE  LET L == Health!latency(found, MINUTE)
         IN  /\ IsFiniteSet(L)
             /\ \A x \in L : x.p95 \in Int /\ x.p99 \in Int /\ 1 <= x.p95 /\ x.p95 <= x.p99
             /\ (\E row \in found : row.durationMs # 0) => L # {}
<1>. DEFINE L == Health!latency(found, MINUTE)
            timed == {row \in found : row.durationMs # 0}
            B == MinutesOf(timed)
            In(b) == Health!InBucket(timed, MINUTE, b)
            Made(b) == [bucket |-> b, p50 |-> Health!percentile_cont(50, In(b)),
                        p95 |-> Health!percentile_cont(95, In(b)),
                        p99 |-> Health!percentile_cont(99, In(b))]
            f == [b \in B |-> Made(b)]
<1>1. L = {Made(b) : b \in B}
  BY DEF Health!latency, Health!Minutes, MinutesOf
<1>2. IsFiniteSet(timed) /\ IsFiniteSet(B)
  <2>1. IsFiniteSet(timed)
    BY FS_Subset
  <2>. HIDE DEF timed
  <2>. QED BY <2>1, MinutesFinite
<1>3. \A b \in B : IsFiniteSet(In(b)) /\ In(b) # {} /\ Timed(In(b))
  <2>. TAKE b \in B
  <2>1. In(b) \subseteq timed /\ In(b) # {}
    BY DEF Health!InBucket, MinutesOf
  <2>2. Timed(In(b))
    BY <2>1 DEF Timed
  <2>. HIDE DEF timed, In
  <2>. QED BY <1>2, <2>1, <2>2, FS_Subset
<1>4. \A b \in B : LET p95 == Health!percentile_cont(95, In(b))
                       p99 == Health!percentile_cont(99, In(b))
                   IN  p95 \in Int /\ p99 \in Int /\ 1 <= p95 /\ p95 <= p99
  <2>. HIDE DEF In
  <2>. QED BY <1>3, PercentilesGrow
<1>5. \A b : /\ Made(b).p95 = Health!percentile_cont(95, In(b))
             /\ Made(b).p99 = Health!percentile_cont(99, In(b))
  OBVIOUS
<1>6. (\E row \in found : row.durationMs # 0) => B # {}
  BY DEF MinutesOf
<1>. HIDE DEF L, B, In, Made
<1>7. IsFiniteSet(L)
  <2>1. \A x \in L : \E b \in B : x = f[b]
    BY <1>1
  <2>. HIDE DEF f
  <2>. QED BY <1>2, <2>1, ImageIsFinite
<1>8. \A x \in L : x.p95 \in Int /\ x.p99 \in Int /\ 1 <= x.p95 /\ x.p95 <= x.p99
  BY <1>1, <1>4, <1>5
<1>. QED BY <1>1, <1>6, <1>7, <1>8 DEF L

\* The tile of the latency lies within the scale.
LEMMA MeanTold ==
  ASSUME HealthInv, Health!Tiles
  PROVE  LET mean == Health!meanOf(Health!Data("latency"))
         IN  /\ mean.n <= Health!heatMax * mean.of
             /\ Health!Told("latency", {"slow"}) # {} => mean.n > 0
<1>. DEFINE found == Health!Found("latency")
            L == Health!Data("latency")
            scale == {0} \cup {x.p99 : x \in L}
            h == [x \in L |-> x.p95]
            n == SumOver(L, h)
            c == Cardinality(L)
            top == Health!heatMax
<1>1. /\ IsFiniteSet(found) /\ \A row \in found : row.durationMs \in Nat
      /\ Health!Told("latency", {"slow"}) # {} => \E row \in found : row.durationMs # 0
  BY WindowIsOfTheService DEF Health!METRICS, ServiceLines
<1>2. L = Health!latency(found, MINUTE)
  BY TilesShow
<1>. HIDE DEF found, L
<1>3. /\ IsFiniteSet(L)
      /\ \A x \in L : x.p95 \in Int /\ x.p99 \in Int /\ 1 <= x.p95 /\ x.p95 <= x.p99
      /\ Health!Told("latency", {"slow"}) # {} => L # {}
  BY <1>1, <1>2, LatencyIs
<1>4. top \in Int /\ 0 <= top /\ \A x \in L : x.p99 <= top
  <2>1. top = Health!Max(scale)
    BY DEF Health!heatMax, L
  <2>2. IsFiniteSet(scale)
    <3>. DEFINE f == [x \in L |-> x.p99]
                T == {x.p99 : x \in L}
    <3>1. \A t \in T : \E x \in L : t = f[x]
      OBVIOUS
    <3>. HIDE DEF f, T
    <3>2. IsFiniteSet(T)
      BY <1>3, <3>1, ImageIsFinite
    <3>3. IsFiniteSet({0})
      BY FS_Singleton
    <3>4. IsFiniteSet({0} \cup T)
      BY <3>2, <3>3, FS_Union
    <3>. QED BY <3>4 DEF T
  <2>3. scale # {} /\ scale \subseteq Int /\ 0 \in scale /\ \A x \in L : x.p99 \in scale
    BY <1>3
  <2>. HIDE DEF scale, top
  <2>. QED BY <2>1, <2>2, <2>3, HealthMax
<1>. HIDE DEF top
<1>5. h \in [L -> Int] /\ \A x \in L : 1 <= h[x] /\ h[x] <= top
  <2>1. h \in [L -> Int] /\ \A x \in L : h[x] = x.p95
    BY <1>3
  <2>. HIDE DEF h
  <2>. QED BY <1>3, <1>4, <2>1
<1>6. n \in Int /\ 1 * c <= n /\ n <= top * c
  <2>. HIDE DEF h
  <2>. QED BY <1>3, <1>4, <1>5, SumOverBounds
<1>7. c \in Nat /\ (c = 0 <=> L = {})
  BY <1>3, FS_EmptySet, FS_CardinalityType
<1>8. Health!meanOf(L) = Health!Share(n, c)
  BY MeanIs
<1>. HIDE DEF n, c
<1>9. Health!meanOf(L).n = n /\ Health!meanOf(L).of = IF c = 0 THEN 1 ELSE c
  BY <1>8 DEF Health!Share
<1>10. n <= top * (IF c = 0 THEN 1 ELSE c)
  <2>1. CASE c = 0
    <3>1. top * c = 0 /\ top * 1 = top
      BY <1>4, <2>1
    <3>. QED BY <1>4, <1>6, <2>1, <3>1
  <2>2. CASE c # 0
    BY <1>6, <2>2
  <2>. QED BY <2>1, <2>2
<1>11. Health!Told("latency", {"slow"}) # {} => n > 0
  BY <1>3, <1>6, <1>7
<1>. QED BY <1>9, <1>10, <1>11 DEF L, top

\* The counter of slow requests counts them, or other keys fill the answer.
LEMMA CountTold ==
  ASSUME HealthInv, strip["logKeys"].data # {}
  PROVE  LET slow == Health!Told("logKeys", {"slow"})
             keys == DOMAIN Health!Data("logKeys")
         IN  /\ Health!slowCount \in {0, Cardinality(slow)}
             /\ (Health!slowCount = 0 /\ slow # {}) =>
                   /\ Cardinality(keys) = TOP_N
                   /\ \A k \in keys : Health!Count(k) >= Cardinality(slow)
<1>. DEFINE found == Health!Found("logKeys")
            slow == Health!Told("logKeys", {"slow"})
            SLOW == "METHOD_SLOW_EXECUTION"
            all == {row.logKey : row \in found}
            counts == Health!Data("logKeys")
            Size(k) == Cardinality({row \in found : row.logKey = k})
<1>1. /\ IsFiniteSet(found) /\ IsFiniteSet(slow) /\ Size(SLOW) = Cardinality(slow)
  BY WindowIsOfTheService DEF Health!METRICS, ServiceLines
<1>2. counts \in Health!groupBy(found)
  BY TilesShow
<1>. HIDE DEF found, counts
<1>3. \A k : Health!Cardinality({row \in found : row.logKey = k}) = Size(k)
  BY HealthCardinality
<1>4. /\ Health!Cardinality(all) = Cardinality(all)
      /\ \A top : Health!Cardinality(top) = Cardinality(top)
  BY HealthCardinality
<1>5. PICK top \in SUBSET all :
        /\ Cardinality(top) = Health!Min({TOP_N, Cardinality(all)})
        /\ \A k \in top, other \in all \ top : Size(k) >= Size(other)
        /\ counts = [k \in top |-> Size(k)]
  BY <1>2, <1>3, <1>4 DEF Health!groupBy
<1>6. IsFiniteSet(all) /\ Cardinality(all) \in Nat
  <2>. DEFINE f == [row \in found |-> row.logKey]
  <2>1. \A k \in all : \E row \in found : k = f[row]
    OBVIOUS
  <2>. HIDE DEF f, all
  <2>2. IsFiniteSet(all)
    BY <1>1, <2>1, ImageIsFinite
  <2>. QED BY <2>2, FS_CardinalityType
<1>7. DOMAIN counts = top /\ \A k \in top : Health!Count(k) = Size(k)
  BY <1>5 DEF Health!Count, counts
<1>8. Health!slowCount = IF SLOW \in top THEN Size(SLOW) ELSE 0
  BY <1>5, <1>7 DEF Health!slowCount, Health!Count, counts
<1>9. slow # {} => Cardinality(slow) # 0
  BY <1>1, FS_EmptySet
<1>10. slow # {} => SLOW \in all
  <2>. SUFFICES ASSUME SLOW \notin all PROVE slow = {}
    OBVIOUS
  <2>1. {row \in found : row.logKey = SLOW} = {}
    OBVIOUS
  <2>2. Size(SLOW) = 0
    BY <2>1, FS_EmptySet
  <2>. HIDE DEF Size, slow
  <2>. QED BY <1>1, <2>2, FS_EmptySet
<1>. HIDE DEF Size, all, slow
<1>11. ASSUME Health!slowCount = 0, slow # {}
       PROVE  /\ Cardinality(top) = TOP_N
              /\ \A k \in top : Health!Count(k) >= Cardinality(slow)
  <2>1. SLOW \in all \ top
    BY <1>1, <1>8, <1>9, <1>10, <1>11
  <2>2. Cardinality(top) # Cardinality(all)
    <3>1. top # all
      BY <2>1
    <3>. QED BY <1>5, <1>6, <3>1, FS_Subset
  <2>3. Cardinality(top) = IF TOP_N <= Cardinality(all) THEN TOP_N ELSE Cardinality(all)
    BY <1>5, <1>6, HealthMin, ChartsAssumption
  <2>4. Cardinality(top) = TOP_N
    BY <2>2, <2>3
  <2>5. \A k \in top : Size(k) >= Size(SLOW)
    BY <1>5, <2>1
  <2>. QED BY <1>1, <1>7, <2>4, <2>5
<1>. QED BY <1>1, <1>7, <1>8, <1>11 DEF slow, counts

LEMMA SlowTold == HealthInv => Health!SlowLinesAreSeen
<1>1. SUFFICES ASSUME HealthInv, Health!Tiles, Health!Cache!Settled(strip["logKeys"])
               PROVE  Health!SlowLinesAreSeen
  BY DEF Health!SlowLinesAreSeen
<1>2. strip["logKeys"].data # {}
  BY <1>1 DEF Health!Cache!Settled, Health!Cache!NoData
<1>3. LET mean == Health!meanOf(Health!Data("latency"))
      IN  /\ mean.n <= Health!heatMax * mean.of
          /\ Health!Told("latency", {"slow"}) # {} => mean.n > 0
  BY <1>1, MeanTold
<1>4. LET slow == Health!Told("logKeys", {"slow"})
          keys == DOMAIN Health!Data("logKeys")
      IN  /\ Health!slowCount \in {0, Cardinality(slow)}
          /\ (Health!slowCount = 0 /\ slow # {}) =>
                /\ Cardinality(keys) = TOP_N
                /\ \A k \in keys : Health!Count(k) >= Cardinality(slow)
  BY <1>1, <1>2, CountTold
<1>5. /\ Health!Cardinality(Health!Told("logKeys", {"slow"})) = Cardinality(Health!Told("logKeys", {"slow"}))
      /\ Health!Cardinality(DOMAIN Health!Data("logKeys"))
           = Cardinality(DOMAIN Health!Data("logKeys"))
  BY HealthCardinality
<1>. QED BY <1>3, <1>4, <1>5 DEF Health!SlowLinesAreSeen

\* The health strip, the gauge and the charts of the Overview: each line that waits or is
\* stored is one that the interceptor, the application or the filter wrote of its request,
\* and what an entry of the cache shows is what its query found in the lines stored then.
THEOREM HealthInvariant == Health!Spec => []HealthInv
BY HealthInitHolds, HealthNextPreserves, PTL DEF Health!Spec

(***************************************************************************)
(* The console: every step of it is, for each view, a step or a stutter.   *)
(***************************************************************************)

\* A behaviour of the console is one of each view, so that the invariants of the views
\* hold of the pages, whichever of them is open.
THEOREM ConsoleImplementsViews ==
  ConsoleSpec => /\ Rules!Spec /\ Registry!Spec /\ Respond!Spec /\ Govern!Spec
                 /\ Stream!Spec /\ Loki!Spec /\ Trigger!Spec /\ Filter!Spec
                 /\ Retain!Spec /\ Health!Spec
<1>1. ConsoleInit => /\ Rules!Init /\ Registry!Init /\ Respond!Init /\ Govern!Init
                     /\ Stream!Init /\ Loki!Init /\ Trigger!Init /\ Filter!Init
                     /\ Retain!Init /\ Health!Init
  BY DEF ConsoleInit
<1>2. [ConsoleNext]_consoleVars => [Rules!Next]_(Rules!vars)
  BY DEF ConsoleNext, consoleVars, Rules!vars, Rules!form, ruleVars
<1>3. [ConsoleNext]_consoleVars => [Registry!Next]_(Registry!vars)
  BY DEF ConsoleNext, consoleVars, Registry!vars, channelVars
<1>4. [ConsoleNext]_consoleVars => [Respond!Next]_(Respond!vars)
  BY DEF ConsoleNext, consoleVars, Respond!vars, incidentVars
<1>5. [ConsoleNext]_consoleVars => [Govern!Next]_(Govern!vars)
  BY DEF ConsoleNext, consoleVars, Govern!vars, governVars
<1>6. [ConsoleNext]_consoleVars => [Stream!Next]_(Stream!vars)
  BY DEF ConsoleNext, consoleVars, Stream!vars, Stream!stream, Stream!follow, Stream!history,
         tailVars
<1>7. [ConsoleNext]_consoleVars => [Loki!Next]_(Loki!vars)
  BY DEF ConsoleNext, consoleVars, Loki!vars, Loki!loki, Loki!list, lokiVars
<1>8. [ConsoleNext]_consoleVars => [Trigger!Next]_(Trigger!vars)
  BY DEF ConsoleNext, consoleVars, Trigger!vars, Trigger!sink, triggerVars
<1>9. [ConsoleNext]_consoleVars => [Retain!Next]_(Retain!vars)
  BY DEF ConsoleNext, consoleVars, Retain!vars, Retain!panel, Retain!history, retentionVars
<1>10. [ConsoleNext]_consoleVars => [Filter!Next]_(Filter!vars)
  BY DEF ConsoleNext, consoleVars, Filter!vars, filterVars
<1>11. [ConsoleNext]_consoleVars => [Health!Next]_(Health!vars)
  BY DEF ConsoleNext, consoleVars, Health!vars, healthVars
<1>. QED
  BY <1>1, <1>2, <1>3, <1>4, <1>5, <1>6, <1>7, <1>8, <1>9, <1>10, <1>11, PTL
     DEF ConsoleSpec, Rules!Spec, Registry!Spec, Respond!Spec, Govern!Spec, Stream!Spec,
         Loki!Spec, Trigger!Spec, Filter!Spec, Retain!Spec, Health!Spec

\* parseExpr() counts what the preview of the form draws, for every draft that has a
\* supported shape and every line of the table.
THEOREM ConsoleCountsWhatIsDrawn == ConsoleSpec => []SupportedShapesCountWhatIsDrawn
<1>1. RulesInv => SupportedShapesCountWhatIsDrawn
  BY RulesInvImpliesCounts DEF SupportedShapesCountWhatIsDrawn
<1>. QED BY <1>1, ConsoleImplementsViews, RulesInvariant, PTL

\* useLogStream shows no row of another filter than that of its URL, through changes of
\* the URL, reconnections and buffered batches.
THEOREM ConsoleNoForeignRows == ConsoleSpec => []NoForeignRows
<1>1. StreamInv => NoForeignRows
  BY StreamInvImplies DEF NoForeignRows
<1>. QED BY <1>1, ConsoleImplementsViews, StreamInvariant, PTL

\* useLogStream and useFollowMode: the rows are the newest of what was received since the
\* subscription or the last clear, a reader who follows has no badge, and the badge of one
\* who has left the bottom has the number of rows below that point, as long as no row was
\* cleared, dropped by a new subscription or evicted from the full buffer since.
THEOREM ConsoleShowsTheNewest == ConsoleSpec => []ShowsTheNewest
<1>1. StreamInv => ShowsTheNewest
  BY StreamInvImplies DEF ShowsTheNewest
<1>. QED BY <1>1, ConsoleImplementsViews, StreamInvariant, PTL

\* LogsLokiService: the pages over Loki repeat no entry whose timestamp is its own, and skip
\* none of those but the one right below the end of a page, which Loki's exclusive end
\* leaves out, for every page size, while lines of any number are pushed.
THEOREM ConsoleLokiListIsStable == ConsoleSpec => []LokiListIsStable
<1>1. LokiInv => LokiListIsStable
  BY LokiInvImplies DEF LokiListIsStable
<1>. QED BY <1>1, ConsoleImplementsViews, LokiListInvariant, PTL

\* TriggerCard and DownstreamService: the link of a result leads to the lines that Loki has
\* of its request, from a minute after their stamps on, and the outcomes that a dispatch
\* reports are what the worker did.
THEOREM ConsoleTriggersTellTheTruth == ConsoleSpec => []TriggersTellTheTruth
<1>1. TriggerInv => TriggersTellTheTruth
  BY TriggerInvImpliesLinks, TriggerInvImpliesDispatch DEF TriggersTellTheTruth
<1>. QED BY <1>1, ConsoleImplementsViews, TriggerInvariant, PTL

\* LogsService, its SQL and its LogQL, LogEventBus.matches() and query-compile.ts select
\* the same rows for every filter, table and instant; the SQL and the charts where the
\* underscore of a LIKE prefix stands for no letter, Loki without a free text.
THEOREM ConsoleSourcesAgree == ConsoleSpec => []SourcesAgree
<1>1. SourcesAgree
  BY SourcesAgreeAlways DEF SourcesAgree
<1>. QED BY <1>1, PTL

\* QueryBar: submitting what the bar shows for a query makes the same query of it.
THEOREM ConsoleResubmitKeepsTheQuery == ConsoleSpec => []ResubmitKeepsTheQuery
<1>1. UrlInv => ResubmitKeepsTheQuery
  BY ResubmitKeeps DEF ResubmitKeepsTheQuery
<1>. QED BY <1>1, ConsoleImplementsViews, FilterInvariant, PTL

\* detail-drawer.tsx, LogsFacetsService and facet-rail.tsx: a pivot leads to the listed
\* rows that say what the row says, and a facet counts the list over Postgres that it
\* leads to.
THEOREM ConsoleNarrowingKeepsTheRows == ConsoleSpec => []NarrowingKeepsTheRows
<1>1. UrlInv => NarrowingKeepsTheRows
  BY PivotsNarrow, FacetsCount DEF NarrowingKeepsTheRows
<1>. QED BY <1>1, ConsoleImplementsViews, FilterInvariant, PTL

\* The charts, the donut, the facets and the tenants of the Explorer: every panel adds up
\* to the rows that the list over Postgres has for the same URL, for any table, window and
\* instant.
THEOREM ConsolePanelsCountTheList == ConsoleSpec => []PanelsCountTheList
<1>1. UrlInv => PanelsCountTheList
  BY PanelsCount DEF PanelsCountTheList, UrlInv
<1>. QED BY <1>1, ConsoleImplementsViews, FilterInvariant, PTL

\* prisma-log.destination.ts, /metrics and the overview: the tiles, the gauge and the charts
\* are red for the failures and errors whose lines their queries found and nothing else, and
\* the slow lines are seen, for any requests, flushes, lost batches and order of the answers.
THEOREM ConsoleTilesTellWhatIsStored == ConsoleSpec => []TilesTellWhatIsStored
<1>1. HealthInv => TilesTellWhatIsStored
  BY FailuresTold, FatalErrorTold, SlowTold DEF TilesTellWhatIsStored
<1>. QED BY <1>1, ConsoleImplementsViews, HealthInvariant, PTL

\* rbac.context.ts and the query keys: nothing of another tenant or of a better role is
\* shown or exported, for any tenants and any order of switches and answers.
THEOREM ConsoleTenantsStayApart == ConsoleSpec => []TenantsStayApart
<1>1. GovernInv => TenantsStayApart
  BY GovernInvImpliesNothingForeign, GovernInvImpliesReads DEF TenantsStayApart
<1>. QED BY <1>1, ConsoleImplementsViews, GovernInvariant, PTL

\* transition() and incident-list.tsx: a click on a settled list that has seen every change
\* is a transition that the console offers for the status the incident has when the request
\* is applied, unless somebody else acts on the incident in between.
THEOREM ConsoleTransitionsAreLegal == ConsoleSpec => TransitionsAreLegal
BY ConsoleImplementsViews, TransitionsLegal, PTL DEF TransitionsAreLegal

\* sweep(): no row leaves that is younger than every window that was ever in force, for
\* any rows, windows, requests and restarts.
THEOREM ConsoleNoRowLeavesEarly == ConsoleSpec => []NoRowLeavesEarly
<1>1. Retain!NoRowLeavesEarly => NoRowLeavesEarly
  BY DEF NoRowLeavesEarly
<1>. QED
  BY <1>1, ConsoleImplementsViews, SameRetentionSpec, SameRetentionProperties, RetentionAssumed,
     RetainP!RetentionNoRowLeavesEarly, PTL

\* PATCH /maintenance/retention: with no request under way the window in force is that of
\* the environment if this process has audited none, or else one that it has audited: the
\* last, unless the newest change came in the middle of another.
THEOREM ConsoleAuditNamesTheWindow == ConsoleSpec => []AuditNamesTheWindow
<1>1. Retain!AuditNamesTheWindow => AuditNamesTheWindow
  BY DEF AuditNamesTheWindow
<1>. QED
  BY <1>1, ConsoleImplementsViews, SameRetentionSpec, SameRetentionProperties, RetentionAssumed,
     RetainP!RetentionAuditNamesTheWindow, PTL

\* A rule list, a retention panel or an incident list with nothing under way shows what the
\* server has, and a channel that is shown is found by its test until the process restarts.
THEOREM ConsoleQuietViewsAreCurrent == ConsoleSpec => []QuietViewsAreCurrent
<1>1. RulesInv /\ RegistryInv /\ RespondInv /\ Retain!QuietPanelIsCurrent => QuietViewsAreCurrent
  BY RulesInvImpliesCurrent, RegistryInvImplies, RespondInvImplies DEF QuietViewsAreCurrent
<1>. QED
  BY <1>1, ConsoleImplementsViews, RulesInvariant, RegistryInvariant, RespondInvariant,
     SameRetentionSpec, SameRetentionProperties, RetentionAssumed,
     RetainP!RetentionQuietPanelIsCurrent, PTL
==============================================================================
