---------------------------- MODULE RetentionProofs ----------------------------
(***************************************************************************)
(* Theorems about Retention for every set of rows, every set of windows    *)
(* and any number of requests and restarts.                                *)
(*                                                                         *)
(* The inductive invariant says where the window in force can be found:    *)
(* in a request between its assignment and its audit, among what this      *)
(* process has audited, or in the environment; that it is the last of the  *)
(* trail where no two requests overlapped; and that a panel with nothing   *)
(* in flight holds no status, nor waits for one, of another window.        *)
(***************************************************************************)
EXTENDS Retention, FiniteSetTheorems, TLAPS

(* Ages and windows are whole days, and the table is finite.               *)
RetentionAssumption ==
  /\ Ages \subseteq Nat /\ IsFiniteSet(Ages)
  /\ Windows \subseteq Nat \ {0} /\ RETENTION_DAYS \in Nat \ {0}

Days   == Windows \cup {RETENTION_DAYS}
Status == [retentionDays : Days, pendingRows : Nat]
Call   == [from : {"panel", "other"}, days : Days,
           at : {"sent", "audit", "status", "over", "gone"}, awaited : BOOLEAN]

ServerTyped ==
  /\ retentionDays \in Days /\ rows \subseteq Ages /\ sweeping \subseteq Days
  /\ reading \subseteq [cutoff : Days, counted : BOOLEAN, pendingRows : Nat]
  /\ calls \in Seq(Call) /\ audit \in Seq(Days)
  /\ everInForce \subseteq Days /\ overlapped \in BOOLEAN /\ unsure \in BOOLEAN
  /\ restarts \in Nat /\ auditedBefore \in 0 .. Len(audit)

PanelTyped ==
  /\ query \in [data : SUBSET Status, fetch : {"idle", "sent", "answered"},
                answer : SUBSET Status, error : BOOLEAN]
  /\ query.fetch = "answered" => query.answer # {}
  /\ ttlInput \in Days \cup {0}

(* The windows that are or may come to be used were in force once.         *)
CutoffsWereInForce ==
  /\ RETENTION_DAYS \in everInForce
  /\ retentionDays \in everInForce /\ sweeping \subseteq everInForce

(* Where the window in force is to be found.                               *)
AuditedWindow ==
  IF Len(audit) = auditedBefore THEN RETENTION_DAYS ELSE Last(audit)
Unaudited(c) == calls[c].at = "audit"
WindowIsNamed ==
  \/ \E c \in DOMAIN calls : Unaudited(c) /\ calls[c].days = retentionDays
  \/ \E i \in WrittenNow : audit[i] = retentionDays
  \/ /\ retentionDays = RETENTION_DAYS /\ Len(audit) = auditedBefore
     /\ \A c \in DOMAIN calls : ~Unaudited(c)
OneAtATime ==
  ~overlapped => \A c, d \in DOMAIN calls : Under(c) /\ Under(d) => c = d
WindowIsTold ==
  ~overlapped =>
    /\ \A c \in DOMAIN calls : calls[c].at = "audit" => retentionDays = calls[c].days
    /\ (\A c \in DOMAIN calls : calls[c].at # "audit") =>
         retentionDays = AuditedWindow

(* What a tab that alone changes the window may hold.                      *)
Quiet == ~unsure /\ \A c \in DOMAIN calls : ~Unanswered(c)
Pending == Cardinality(Expired(retentionDays))
Current(status) ==
  /\ status.retentionDays = retentionDays
  /\ rows = Ages => status.pendingRows = Pending
OwnCallsAnswer ==
  ~unsure => \A c \in DOMAIN calls : /\ calls[c].from = "panel"
                                     /\ ~calls[c].awaited => calls[c].at = "over"
NothingStaleIsComing ==
  Quiet =>
    /\ \A get \in reading : /\ get.cutoff = retentionDays
                            /\ get.counted /\ rows = Ages => get.pendingRows = Pending
    /\ \A status \in query.answer : Current(status)
    /\ query.fetch = "idle" => \A status \in query.data : Current(status)

IInv ==
  /\ ServerTyped /\ PanelTyped /\ CutoffsWereInForce /\ NoRowLeavesEarly
  /\ OneAtATime /\ WindowIsTold /\ WindowIsNamed /\ OwnCallsAnswer
  /\ NothingStaleIsComing

(***************************************************************************)
(* Helpers.                                                                *)
(***************************************************************************)
LEMMA ExpiredIsCounted ==
  ASSUME RetentionAssumption, rows \subseteq Ages, NEW cutoff
  PROVE  Cardinality(Expired(cutoff)) \in Nat
<1>1. Expired(cutoff) \subseteq Ages
  BY DEF Expired
<1>. QED BY <1>1, FS_Subset, FS_CardinalityType DEF RetentionAssumption

LEMMA LastAppended ==
  ASSUME NEW S, NEW s \in Seq(S), NEW e \in S
  PROVE  /\ Append(s, e) \in Seq(S) /\ Len(Append(s, e)) = Len(s) + 1
         /\ Last(Append(s, e)) = e
BY DEF Last

(* One field of one request is written.                                    *)
LEMMA CallsKeepTheirShape ==
  ASSUME calls \in Seq(Call), NEW c \in DOMAIN calls, NEW f \in Call,
         calls' = [calls EXCEPT ![c] = f]
  PROVE  /\ calls' \in Seq(Call) /\ DOMAIN calls' = DOMAIN calls
         /\ calls'[c] = f
         /\ \A d \in DOMAIN calls : d # c => calls'[d] = calls[d]
OBVIOUS

LEMMA CallIsTyped ==
  ASSUME calls \in Seq(Call), NEW c \in DOMAIN calls
  PROVE  calls[c] \in Call
OBVIOUS

(***************************************************************************)
(* The actions, each of which preserves the invariant.                     *)
(***************************************************************************)
LEMMA SweepPreserves == ASSUME IInv, sweep PROVE IInv'
<1>. USE DEF sweep, panel, history
<1>1. ServerTyped' /\ PanelTyped'
  BY DEF IInv, ServerTyped, PanelTyped
<1>2. CutoffsWereInForce' /\ NoRowLeavesEarly'
  BY DEF IInv, CutoffsWereInForce, NoRowLeavesEarly
<1>3. OneAtATime' /\ WindowIsTold' /\ WindowIsNamed' /\ OwnCallsAnswer'
  BY DEF IInv, OneAtATime, WindowIsTold, WindowIsNamed, Unaudited, WrittenNow,
              AuditedWindow, OwnCallsAnswer, Under
<1>4. NothingStaleIsComing'
  BY DEF IInv, NothingStaleIsComing, Quiet, Unanswered, Current, Pending, Expired
<1>. QED BY <1>1, <1>2, <1>3, <1>4 DEF IInv

(* A row that goes is older than a cutoff, and so than a window that was   *)
(* in force.                                                               *)
LEMMA DeletePreserves == ASSUME RetentionAssumption, IInv, deleteMany PROVE IInv'
<1>1. PICK cutoff \in sweeping :
        /\ sweeping' = {} /\ rows' \in {rows, rows \ Expired(cutoff)}
        /\ UNCHANGED <<retentionDays, reading, calls, audit, panel, history>>
  BY DEF deleteMany
<1>. USE DEF panel, history
<1>2. rows' \subseteq rows /\ rows \subseteq Ages
  BY <1>1 DEF IInv, ServerTyped
<1>3. ServerTyped' /\ PanelTyped' /\ CutoffsWereInForce'
  BY <1>1, <1>2 DEF IInv, ServerTyped, PanelTyped, CutoffsWereInForce
<1>4. NoRowLeavesEarly'
  <2>1. ASSUME NEW age \in Ages, \A days \in everInForce : age <= days
        PROVE  age \in rows'
    <3>1. age \in rows
      BY <2>1 DEF IInv, NoRowLeavesEarly
    <3>2. age <= cutoff /\ age \in Nat /\ cutoff \in Nat
      BY <2>1 DEF IInv, CutoffsWereInForce, ServerTyped, Days, RetentionAssumption
    <3>3. age \notin Expired(cutoff)
      BY <3>2 DEF Expired
    <3>. QED BY <1>1, <3>1, <3>3
  <2>. QED BY <1>1, <2>1 DEF NoRowLeavesEarly
<1>5. OneAtATime' /\ WindowIsTold' /\ WindowIsNamed' /\ OwnCallsAnswer'
  BY <1>1 DEF IInv, OneAtATime, WindowIsTold, WindowIsNamed, Unaudited, WrittenNow,
              AuditedWindow, OwnCallsAnswer, Under
<1>6. NothingStaleIsComing'
  <2>1. CASE rows' = rows
    BY <1>1, <2>1 DEF IInv, NothingStaleIsComing, Quiet, Unanswered, Current, Pending, Expired
  <2>2. CASE rows' # rows
    <3>1. rows' # Ages
      BY <1>2, <2>2
    <3>. QED
      BY <1>1, <3>1 DEF IInv, NothingStaleIsComing, Quiet, Unanswered, Current
  <2>. QED BY <2>1, <2>2
<1>. QED BY <1>3, <1>4, <1>5, <1>6 DEF IInv

LEMMA ReadPreserves ==
  ASSUME RetentionAssumption, IInv, getStatus \/ count PROVE IInv'
<1>. USE DEF panel, history
<1>1. UNCHANGED <<retentionDays, rows, sweeping, calls, audit, panel, history>>
  BY DEF getStatus, count
<1>2. Pending \in Nat
  BY ExpiredIsCounted DEF IInv, ServerTyped, Pending
<1>3. /\ reading' \subseteq [cutoff : Days, counted : BOOLEAN, pendingRows : Nat]
      /\ Quiet => \A get \in reading' :
           /\ get.cutoff = retentionDays
           /\ get.counted /\ rows = Ages => get.pendingRows = Pending
  <2>1. CASE getStatus
    BY <2>1 DEF getStatus, IInv, ServerTyped
  <2>2. CASE count
    <3>1. PICK get \in reading :
            reading' = {[get EXCEPT !.counted = TRUE,
                                    !.pendingRows = Cardinality(Expired(get.cutoff))]}
      BY <2>2 DEF count
    <3>2. get \in [cutoff : Days, counted : BOOLEAN, pendingRows : Nat]
      BY DEF IInv, ServerTyped
    <3>3. Cardinality(Expired(get.cutoff)) \in Nat
      BY ExpiredIsCounted DEF IInv, ServerTyped
    <3>4. Quiet => get.cutoff = retentionDays
      BY DEF IInv, NothingStaleIsComing
    <3>. QED BY <3>1, <3>2, <3>3, <3>4 DEF Pending
  <2>. QED BY <2>1, <2>2
<1>4. ServerTyped' /\ PanelTyped'
  BY <1>1, <1>3 DEF IInv, ServerTyped, PanelTyped
<1>5. CutoffsWereInForce' /\ NoRowLeavesEarly'
  BY <1>1 DEF IInv, CutoffsWereInForce, NoRowLeavesEarly
<1>6. OneAtATime' /\ WindowIsTold' /\ WindowIsNamed' /\ OwnCallsAnswer'
  BY <1>1 DEF IInv, OneAtATime, WindowIsTold, WindowIsNamed, Unaudited, WrittenNow,
              AuditedWindow, OwnCallsAnswer, Under
<1>7. NothingStaleIsComing'
  BY <1>1, <1>3 DEF IInv, NothingStaleIsComing, Quiet, Unanswered, Current, Pending, Expired
<1>. QED BY <1>4, <1>5, <1>6, <1>7 DEF IInv

LEMMA ReturnPreserves == ASSUME IInv, returnStatus PROVE IInv'
<1>. USE DEF panel, history
<1>1. PICK get \in reading :
        /\ get.counted /\ reading' = {}
        /\ query' = Cache!Answer(query, [retentionDays |-> retentionDays,
                                         pendingRows |-> get.pendingRows])
        /\ UNCHANGED <<retentionDays, rows, sweeping, calls, audit, ttlInput, history>>
  BY DEF returnStatus
<1>. DEFINE status == [retentionDays |-> retentionDays, pendingRows |-> get.pendingRows]
<1>2. status \in Status
  BY DEF IInv, ServerTyped, Status
<1>3. /\ query' = [query EXCEPT !.fetch = "answered", !.answer = {status}]
      /\ query'.fetch = "answered" /\ query'.answer = {status} /\ PanelTyped'
  BY <1>1, <1>2 DEF IInv, PanelTyped, Cache!Answer
<1>4. ServerTyped'
  BY <1>1 DEF IInv, ServerTyped
<1>5. CutoffsWereInForce' /\ NoRowLeavesEarly'
  BY <1>1 DEF IInv, CutoffsWereInForce, NoRowLeavesEarly
<1>6. OneAtATime' /\ WindowIsTold' /\ WindowIsNamed' /\ OwnCallsAnswer'
  BY <1>1 DEF IInv, OneAtATime, WindowIsTold, WindowIsNamed, Unaudited, WrittenNow,
              AuditedWindow, OwnCallsAnswer, Under
<1>7. NothingStaleIsComing'
  <2>1. Quiet => Current(status)
    BY <1>1 DEF IInv, NothingStaleIsComing, Current
  <2>. QED
    BY <1>1, <1>3, <2>1 DEF NothingStaleIsComing, Quiet, Unanswered, Current, Pending, Expired
<1>. QED BY <1>3, <1>4, <1>5, <1>6, <1>7 DEF IInv

LEMMA SendPreserves ==
  ASSUME IInv, NEW days \in Days, SomeoneSaves(days) \/ (save /\ ttlInput = days)
  PROVE  IInv'
<1>. USE DEF panel
<1>1. PICK from \in {"panel", "other"} :
        /\ calls' = Append(calls, [from |-> from, days |-> days, at |-> "sent",
                                   awaited |-> TRUE])
        /\ from = "panel" \/ unsure'
        /\ unsure' = unsure \/ unsure' = TRUE
  BY DEF SomeoneSaves, save, Send, history
<1>2. UNCHANGED <<retentionDays, rows, sweeping, reading, audit, panel, everInForce,
                  overlapped, auditedBefore, restarts>>
  BY DEF SomeoneSaves, save, history
<1>. DEFINE new == Len(calls) + 1
            call == [from |-> from, days |-> days, at |-> "sent", awaited |-> TRUE]
<1>3. /\ call \in Call /\ calls \in Seq(Call) /\ calls' = Append(calls, call)
      /\ unsure \in BOOLEAN /\ unsure' \in BOOLEAN
  BY <1>1 DEF IInv, ServerTyped, Call
<1>4. /\ calls' \in Seq(Call) /\ DOMAIN calls' = DOMAIN calls \cup {new}
      /\ new \notin DOMAIN calls /\ calls'[new] = call
      /\ \A c \in DOMAIN calls : calls'[c] = calls[c]
  BY <1>3
<1>5. ServerTyped' /\ PanelTyped'
  BY <1>2, <1>3, <1>4 DEF IInv, ServerTyped, PanelTyped
<1>6. CutoffsWereInForce' /\ NoRowLeavesEarly'
  BY <1>2 DEF IInv, CutoffsWereInForce, NoRowLeavesEarly
<1>7. OneAtATime' /\ WindowIsTold' /\ WindowIsNamed'
  BY <1>2, <1>4 DEF IInv, OneAtATime, WindowIsTold, WindowIsNamed, Unaudited, WrittenNow,
                    AuditedWindow, Under
<1>8. OwnCallsAnswer'
  BY <1>1, <1>3, <1>4 DEF IInv, OwnCallsAnswer
<1>9. NothingStaleIsComing'
  <2>1. ~Quiet'
    BY <1>1, <1>4 DEF Quiet, Unanswered
  <2>. QED BY <2>1 DEF NothingStaleIsComing
<1>. QED BY <1>5, <1>6, <1>7, <1>8, <1>9 DEF IInv

(* The window changes hands: only one request is now to be audited, unless *)
(* another was.                                                            *)
LEMMA SetPreserves ==
  ASSUME IInv, NEW c \in DOMAIN calls, setRetentionDays(c) PROVE IInv'
<1>. USE DEF panel
<1>1. /\ calls[c].at = "sent" /\ calls' = [calls EXCEPT ![c].at = "audit"]
      /\ retentionDays' = calls[c].days
      /\ everInForce' = everInForce \cup {calls[c].days}
      /\ overlapped' = \E d \in DOMAIN calls : Under(d)
      /\ UNCHANGED <<rows, sweeping, reading, audit, panel, unsure, auditedBefore,
                     restarts>>
  BY DEF setRetentionDays
<1>. DEFINE f == [calls[c] EXCEPT !.at = "audit"]
<1>2. calls \in Seq(Call) /\ calls[c] \in Call
  BY CallIsTyped DEF IInv, ServerTyped
<1>3. /\ f \in Call /\ calls' = [calls EXCEPT ![c] = f]
      /\ f.at = "audit" /\ f.days = calls[c].days /\ f.from = calls[c].from
      /\ f.awaited = calls[c].awaited
  BY <1>1, <1>2 DEF Call
<1>4. /\ calls' \in Seq(Call) /\ DOMAIN calls' = DOMAIN calls /\ calls'[c] = f
      /\ \A d \in DOMAIN calls : d # c => calls'[d] = calls[d]
  <2>. HIDE DEF f
  <2>. QED BY <1>2, <1>3, CallsKeepTheirShape
<1>5. calls[c].days \in Days
  BY <1>2 DEF Call
<1>6. ServerTyped' /\ PanelTyped'
  BY <1>1, <1>4, <1>5 DEF IInv, ServerTyped, PanelTyped
<1>7. CutoffsWereInForce' /\ NoRowLeavesEarly'
  BY <1>1 DEF IInv, CutoffsWereInForce, NoRowLeavesEarly
<1>8. OneAtATime' /\ WindowIsTold'
  <2>1. CASE \E d \in DOMAIN calls : Under(d)
    BY <1>1, <2>1 DEF OneAtATime, WindowIsTold, AuditedWindow
  <2>2. CASE \A d \in DOMAIN calls : ~Under(d)
    <3>1. \A d \in DOMAIN calls' : calls'[d].at \in {"audit", "status"} => d = c
      BY <1>4, <2>2 DEF Under
    <3>2. OneAtATime'
      BY <3>1 DEF OneAtATime, Under
    <3>3. WindowIsTold'
      BY <1>1, <1>3, <1>4, <3>1 DEF WindowIsTold
    <3>. QED BY <3>2, <3>3
  <2>. QED BY <2>1, <2>2
<1>9. OwnCallsAnswer' /\ WindowIsNamed'
  BY <1>1, <1>3, <1>4 DEF IInv, OwnCallsAnswer, WindowIsNamed, Unaudited
<1>10. NothingStaleIsComing'
  <2>1. ~Quiet'
    BY <1>1, <1>3, <1>4 DEF IInv, OwnCallsAnswer, Quiet, Unanswered
  <2>. QED BY <2>1 DEF NothingStaleIsComing
<1>. QED BY <1>6, <1>7, <1>8, <1>9, <1>10 DEF IInv

(* The window in force is now the newest of the audit.                     *)
LEMMA RecordPreserves ==
  ASSUME IInv, NEW c \in DOMAIN calls, record(c) PROVE IInv'
<1>. USE DEF panel, history
<1>1. /\ calls[c].at = "audit" /\ calls' = [calls EXCEPT ![c].at = "status"]
      /\ audit' = Append(audit, calls[c].days)
      /\ UNCHANGED <<retentionDays, rows, sweeping, reading, panel, history>>
  BY DEF record
<1>. DEFINE f == [calls[c] EXCEPT !.at = "status"]
<1>2. calls \in Seq(Call) /\ calls[c] \in Call
  BY CallIsTyped DEF IInv, ServerTyped
<1>3. /\ f \in Call /\ calls' = [calls EXCEPT ![c] = f]
      /\ f.at = "status" /\ f.days = calls[c].days /\ f.from = calls[c].from
      /\ f.awaited = calls[c].awaited
  BY <1>1, <1>2 DEF Call
<1>4. /\ calls' \in Seq(Call) /\ DOMAIN calls' = DOMAIN calls /\ calls'[c] = f
      /\ \A d \in DOMAIN calls : d # c => calls'[d] = calls[d]
  <2>. HIDE DEF f
  <2>. QED BY <1>2, <1>3, CallsKeepTheirShape
<1>5. /\ audit' \in Seq(Days) /\ Last(audit') = calls[c].days
      /\ auditedBefore' \in 0 .. Len(audit') /\ Len(audit') # auditedBefore'
  <2>1. audit \in Seq(Days) /\ calls[c].days \in Days
    BY <1>2 DEF IInv, ServerTyped, Call
  <2>2. auditedBefore \in 0 .. Len(audit) /\ Len(audit) \in Nat
    BY <2>1 DEF IInv, ServerTyped
  <2>. QED BY <1>1, <2>1, <2>2, LastAppended
<1>6. ServerTyped' /\ PanelTyped'
  BY <1>1, <1>4, <1>5 DEF IInv, ServerTyped, PanelTyped
<1>7. CutoffsWereInForce' /\ NoRowLeavesEarly'
  BY <1>1 DEF IInv, CutoffsWereInForce, NoRowLeavesEarly
<1>8. OneAtATime'
  BY <1>1, <1>3, <1>4 DEF IInv, OneAtATime, Under
<1>9. WindowIsTold'
  <2>1. ASSUME ~overlapped' PROVE retentionDays' = calls[c].days
    BY <1>1, <2>1 DEF IInv, WindowIsTold
  <2>2. ASSUME ~overlapped', NEW d \in DOMAIN calls', calls'[d].at = "audit" PROVE FALSE
    BY <1>1, <1>3, <1>4, <2>2 DEF IInv, OneAtATime, Under
  <2>. QED BY <1>5, <2>1, <2>2 DEF WindowIsTold, AuditedWindow
<1>10. OwnCallsAnswer'
  BY <1>1, <1>3, <1>4 DEF IInv, OwnCallsAnswer
<1>11. NothingStaleIsComing'
  <2>1. Quiet' => Quiet
    BY <1>1, <1>3, <1>4 DEF Quiet, Unanswered
  <2>. QED BY <1>1, <2>1 DEF IInv, NothingStaleIsComing, Current, Pending, Expired
<1>12. WindowIsNamed'
  <2>1. /\ audit \in Seq(Days) /\ Len(audit') = Len(audit) + 1 /\ Len(audit) \in Nat
        /\ audit'[Len(audit')] = calls[c].days
        /\ \A i \in 1 .. Len(audit) : audit'[i] = audit[i]
        /\ auditedBefore \in 0 .. Len(audit) /\ auditedBefore' = auditedBefore
    BY <1>1, <1>2 DEF IInv, ServerTyped, Call
  <2>2. CASE calls[c].days = retentionDays
    <3>1. Len(audit') \in WrittenNow'
      BY <2>1 DEF WrittenNow
    <3>. QED BY <1>1, <2>1, <2>2, <3>1 DEF WindowIsNamed
  <2>3. ASSUME NEW i \in WrittenNow, audit[i] = retentionDays PROVE WindowIsNamed'
    <3>1. i \in 1 .. Len(audit) /\ i \in WrittenNow'
      BY <2>1, <2>3 DEF WrittenNow
    <3>. QED BY <1>1, <2>1, <2>3, <3>1 DEF WindowIsNamed
  <2>4. ASSUME NEW d \in DOMAIN calls, Unaudited(d), calls[d].days = retentionDays, d # c
        PROVE  WindowIsNamed'
    BY <1>1, <1>4, <2>4 DEF WindowIsNamed, Unaudited
  <2>5. ~(\A d \in DOMAIN calls : ~Unaudited(d))
    BY <1>1 DEF Unaudited
  <2>. QED BY <2>2, <2>3, <2>4, <2>5 DEF IInv, WindowIsNamed
<1>. QED BY <1>6, <1>7, <1>8, <1>9, <1>10, <1>11, <1>12 DEF IInv

LEMMA OverPreserves ==
  ASSUME IInv, NEW c \in DOMAIN calls, statusRead(c) PROVE IInv'
<1>. USE DEF panel, history
<1>1. /\ calls[c].at = "status" /\ calls' = [calls EXCEPT ![c].at = "over"]
      /\ UNCHANGED <<retentionDays, rows, sweeping, reading, audit, panel, history>>
  BY DEF statusRead
<1>. DEFINE f == [calls[c] EXCEPT !.at = "over"]
<1>2. calls \in Seq(Call) /\ calls[c] \in Call
  BY CallIsTyped DEF IInv, ServerTyped
<1>3. /\ f \in Call /\ calls' = [calls EXCEPT ![c] = f]
      /\ f.at = "over" /\ f.from = calls[c].from /\ f.awaited = calls[c].awaited
  BY <1>1, <1>2 DEF Call
<1>4. /\ calls' \in Seq(Call) /\ DOMAIN calls' = DOMAIN calls /\ calls'[c] = f
      /\ \A d \in DOMAIN calls : d # c => calls'[d] = calls[d]
  <2>. HIDE DEF f
  <2>. QED BY <1>2, <1>3, CallsKeepTheirShape
<1>5. ServerTyped' /\ PanelTyped'
  BY <1>1, <1>4 DEF IInv, ServerTyped, PanelTyped
<1>6. CutoffsWereInForce' /\ NoRowLeavesEarly'
  BY <1>1 DEF IInv, CutoffsWereInForce, NoRowLeavesEarly
<1>7. OneAtATime' /\ WindowIsTold' /\ WindowIsNamed'
  BY <1>1, <1>3, <1>4 DEF IInv, OneAtATime, WindowIsTold, WindowIsNamed, Unaudited,
                          WrittenNow, AuditedWindow, Under
<1>8. OwnCallsAnswer'
  BY <1>1, <1>3, <1>4 DEF IInv, OwnCallsAnswer
<1>9. NothingStaleIsComing'
  <2>1. Quiet' => Quiet
    BY <1>1, <1>3, <1>4 DEF Quiet, Unanswered
  <2>. QED BY <1>1, <2>1 DEF IInv, NothingStaleIsComing, Current, Pending, Expired
<1>. QED BY <1>5, <1>6, <1>7, <1>8, <1>9 DEF IInv

LEMMA RestartPreserves == ASSUME IInv, Restart PROVE IInv'
<1>. USE DEF Restart
<1>1. calls' \in Seq(Call) /\ unsure' = TRUE /\ restarts' \in Nat
  <2>1. calls \in Seq(Call) /\ restarts \in Nat
    BY DEF IInv, ServerTyped
  <2>2. \A c \in DOMAIN calls :
          [calls[c] EXCEPT !.at = IF @ = "over" THEN @ ELSE "gone"] \in Call
    BY <2>1, CallIsTyped DEF Call
  <2>3. DOMAIN calls = 1 .. Len(calls) /\ Len(calls) \in Nat
    BY <2>1
  <2>4. calls' \in [1 .. Len(calls) -> Call]
    BY <2>2, <2>3
  <2>. QED BY <2>1, <2>3, <2>4
<1>2. ServerTyped'
  <2>1. audit \in Seq(Days) => Len(audit) \in 0 .. Len(audit)
    OBVIOUS
  <2>. QED BY <1>1, <2>1 DEF IInv, ServerTyped, Days
<1>3. PanelTyped'
  BY DEF IInv, PanelTyped, Cache!Fail, Cache!NoData
<1>4. CutoffsWereInForce' /\ NoRowLeavesEarly'
  <2>1. RETENTION_DAYS \in everInForce
    BY DEF IInv, CutoffsWereInForce
  <2>. QED BY <2>1 DEF IInv, CutoffsWereInForce, NoRowLeavesEarly
<1>5. OneAtATime' /\ WindowIsTold' /\ WindowIsNamed'
  <2>1. ASSUME NEW c \in DOMAIN calls' PROVE ~Under(c)'
    <3>1. c \in DOMAIN calls /\ calls[c] \in Call
      BY CallIsTyped DEF IInv, ServerTyped
    <3>. QED BY <3>1 DEF Under, Call
  <2>2. retentionDays' = AuditedWindow'
    BY DEF AuditedWindow
  <2>3. \A c \in DOMAIN calls' : calls'[c].at # "audit"
    BY <2>1 DEF Under
  <2>4. retentionDays' = RETENTION_DAYS /\ Len(audit') = auditedBefore'
    OBVIOUS
  <2>. HIDE DEF Restart
  <2>. QED BY <2>1, <2>2, <2>3, <2>4 DEF OneAtATime, WindowIsTold, WindowIsNamed, Unaudited
<1>6. OwnCallsAnswer' /\ NothingStaleIsComing'
  BY <1>1 DEF OwnCallsAnswer, NothingStaleIsComing, Quiet
<1>. QED BY <1>2, <1>3, <1>4, <1>5, <1>6 DEF IInv

LEMMA ArrivePreserves == ASSUME IInv, statusArrives PROVE IInv'
<1>. USE DEF history
<1>1. /\ query.fetch = "answered" /\ query' = Cache!Deliver(query)
      /\ UNCHANGED <<retentionDays, rows, sweeping, reading, calls, audit, history>>
  BY DEF statusArrives
<1>2. ServerTyped'
  BY <1>1 DEF IInv, ServerTyped
<1>3. PanelTyped'
  <2>1. PICK status \in Status : status \in query.answer
    BY <1>1 DEF IInv, PanelTyped
  <2>2. status.retentionDays \in Windows \cup {RETENTION_DAYS}
    BY DEF Status, Days
  <2>3. (CHOOSE d \in Windows \cup {RETENTION_DAYS} :
           \E st \in query.answer : st.retentionDays = d) \in Windows \cup {RETENTION_DAYS}
    BY <2>1, <2>2
  <2>4. ttlInput' \in Days \cup {0}
    BY <2>3 DEF statusArrives, IInv, PanelTyped, Days
  <2>. QED BY <1>1, <2>4 DEF IInv, PanelTyped, Cache!Deliver, Cache!NoData
<1>4. CutoffsWereInForce' /\ NoRowLeavesEarly'
  BY <1>1 DEF IInv, CutoffsWereInForce, NoRowLeavesEarly
<1>5. OneAtATime' /\ WindowIsTold' /\ WindowIsNamed' /\ OwnCallsAnswer'
  BY <1>1 DEF IInv, OneAtATime, WindowIsTold, WindowIsNamed, Unaudited, WrittenNow,
              AuditedWindow, OwnCallsAnswer, Under
<1>6. NothingStaleIsComing'
  BY <1>1 DEF IInv, NothingStaleIsComing, Quiet, Unanswered, Current, Pending, Expired,
              Cache!Deliver, Cache!NoData
<1>. QED BY <1>2, <1>3, <1>4, <1>5, <1>6 DEF IInv

LEMMA TypePreserves ==
  ASSUME IInv, (\E days \in Windows : onTtlChange(days)) \/ UNCHANGED vars PROVE IInv'
<1>. USE DEF onTtlChange, vars, panel, history
<1>1. ServerTyped' /\ PanelTyped'
  BY DEF IInv, ServerTyped, PanelTyped, Days
<1>2. CutoffsWereInForce' /\ NoRowLeavesEarly'
  BY DEF IInv, CutoffsWereInForce, NoRowLeavesEarly
<1>3. OneAtATime' /\ WindowIsTold' /\ WindowIsNamed' /\ OwnCallsAnswer'
  BY DEF IInv, OneAtATime, WindowIsTold, WindowIsNamed, Unaudited, WrittenNow,
              AuditedWindow, OwnCallsAnswer, Under
<1>4. NothingStaleIsComing'
  BY DEF IInv, NothingStaleIsComing, Quiet, Unanswered, Current, Pending, Expired
<1>. QED BY <1>1, <1>2, <1>3, <1>4 DEF IInv

(* The answer of the PATCH starts a new read; only a first load survives   *)
(* it, and then the tab is not sure any more.                              *)
LEMMA AnswerPreserves ==
  ASSUME IInv, NEW c \in DOMAIN calls, onSuccess(c) \/ onError(c) PROVE IInv'
<1>1. /\ calls' = [calls EXCEPT ![c].awaited = FALSE]
      /\ unsure' \/ (calls[c].at = "over" /\ unsure' = unsure)
      /\ reading' \subseteq reading
      /\ UNCHANGED <<retentionDays, rows, sweeping, audit, ttlInput, everInForce,
                     overlapped, auditedBefore, restarts>>
  BY DEF onSuccess, onError, Answered, panel, IInv, ServerTyped
<1>. DEFINE f == [calls[c] EXCEPT !.awaited = FALSE]
<1>2. calls \in Seq(Call) /\ calls[c] \in Call
  BY CallIsTyped DEF IInv, ServerTyped
<1>3. /\ f \in Call /\ calls' = [calls EXCEPT ![c] = f]
      /\ f.at = calls[c].at /\ f.from = calls[c].from /\ f.days = calls[c].days
  BY <1>1, <1>2 DEF Call
<1>4. /\ calls' \in Seq(Call) /\ DOMAIN calls' = DOMAIN calls /\ calls'[c] = f
      /\ \A d \in DOMAIN calls : d # c => calls'[d] = calls[d]
  <2>. HIDE DEF f
  <2>. QED BY <1>2, <1>3, CallsKeepTheirShape
<1>5. unsure' \in BOOLEAN
  BY DEF onSuccess, onError, IInv, ServerTyped
<1>6. ServerTyped'
  BY <1>1, <1>4, <1>5 DEF IInv, ServerTyped
<1>7. /\ PanelTyped'
      /\ ~unsure' => query'.fetch = "sent" /\ query'.answer = {} /\ reading' = {}
  <2>1. CASE onError(c)
    BY <2>1 DEF onError, panel, IInv, PanelTyped
  <2>2. CASE onSuccess(c)
    BY <2>2 DEF onSuccess, IInv, PanelTyped, ServerTyped, Cache!Invalidate, Cache!Joins, Cache!NoData
  <2>. QED BY <2>1, <2>2
<1>8. CutoffsWereInForce' /\ NoRowLeavesEarly'
  BY <1>1 DEF IInv, CutoffsWereInForce, NoRowLeavesEarly
<1>9. OneAtATime' /\ WindowIsTold' /\ WindowIsNamed'
  BY <1>1, <1>3, <1>4 DEF IInv, OneAtATime, WindowIsTold, WindowIsNamed, Unaudited,
                          WrittenNow, AuditedWindow, Under
<1>10. OwnCallsAnswer'
  BY <1>1, <1>3, <1>4 DEF IInv, OwnCallsAnswer
<1>11. NothingStaleIsComing'
  BY <1>7 DEF NothingStaleIsComing, Quiet
<1>. QED BY <1>6, <1>7, <1>8, <1>9, <1>10, <1>11 DEF IInv

LEMMA InitHolds == ASSUME RetentionAssumption, Init PROVE IInv
<1>. USE DEF Init
<1>1. ServerTyped /\ PanelTyped
  <2>1. calls \in Seq(Call) /\ audit \in Seq(Days)
    OBVIOUS
  <2>2. ServerTyped
    <3>1. Len(audit) = 0
      OBVIOUS
    <3>2. auditedBefore \in 0 .. Len(audit)
      BY <3>1
    <3>. QED BY <2>1, <3>2 DEF ServerTyped, Days
  <2>. QED BY <2>2 DEF PanelTyped, Cache!FirstLoad, Cache!NoData
<1>2. CutoffsWereInForce /\ NoRowLeavesEarly
  BY DEF CutoffsWereInForce, NoRowLeavesEarly
<1>3. DOMAIN calls = {}
  OBVIOUS
<1>4. OneAtATime /\ WindowIsTold /\ WindowIsNamed /\ OwnCallsAnswer
  <2>1. Len(audit) = auditedBefore
    OBVIOUS
  <2>. QED
    BY <1>3, <2>1 DEF OneAtATime, WindowIsTold, WindowIsNamed, AuditedWindow, OwnCallsAnswer
<1>5. NothingStaleIsComing
  BY DEF NothingStaleIsComing, Cache!FirstLoad, Cache!NoData
<1>. QED BY <1>1, <1>2, <1>4, <1>5 DEF IInv

LEMMA NextPreserves == ASSUME RetentionAssumption, IInv, [Next]_vars PROVE IInv'
<1>1. CASE sweep
  BY <1>1, SweepPreserves
<1>2. CASE deleteMany
  BY <1>2, DeletePreserves
<1>3. CASE getStatus \/ count
  BY <1>3, ReadPreserves
<1>4. CASE returnStatus
  BY <1>4, ReturnPreserves
<1>5. CASE Restart
  BY <1>5, RestartPreserves
<1>6. CASE statusArrives
  BY <1>6, ArrivePreserves
<1>7. CASE save
  <2>1. ttlInput \in Days
    BY <1>7 DEF save, IInv, PanelTyped
  <2>. QED BY <1>7, <2>1, SendPreserves
<1>8. ASSUME NEW days \in Windows, SomeoneSaves(days) PROVE IInv'
  BY <1>8, SendPreserves DEF Days
<1>9. CASE (\E days \in Windows : onTtlChange(days)) \/ UNCHANGED vars
  BY <1>9, TypePreserves
<1>10. ASSUME NEW c \in DOMAIN calls, setRetentionDays(c) PROVE IInv'
  BY <1>10, SetPreserves
<1>11. ASSUME NEW c \in DOMAIN calls, record(c) PROVE IInv'
  BY <1>11, RecordPreserves
<1>12. ASSUME NEW c \in DOMAIN calls, statusRead(c) PROVE IInv'
  BY <1>12, OverPreserves
<1>13. ASSUME NEW c \in DOMAIN calls, onSuccess(c) \/ onError(c) PROVE IInv'
  BY <1>13, AnswerPreserves
<1>. QED
  BY <1>1, <1>2, <1>3, <1>4, <1>5, <1>6, <1>7, <1>8, <1>9, <1>10, <1>11, <1>12, <1>13
  DEF Next

(***************************************************************************)
(* The results.                                                            *)
(***************************************************************************)

(* The parts of IInv hold together in every state of the retention window  *)
(* (RetentionSweepService, MaintenanceController and RetentionPanel).      *)
THEOREM RetentionInvariant == ASSUME RetentionAssumption PROVE Spec => []IInv
<1>1. Init => IInv
  BY InitHolds
<1>2. IInv /\ [Next]_vars => IInv'
  BY NextPreserves
<1>. QED BY <1>1, <1>2, PTL DEF Spec

(* However sweeps, changes of the window and restarts overlap, sweep()     *)
(* deletes no row that is younger than every window that was ever in force.*)
THEOREM RetentionNoRowLeavesEarly ==
  ASSUME RetentionAssumption PROVE Spec => []NoRowLeavesEarly
<1>1. IInv => NoRowLeavesEarly
  BY DEF IInv
<1>. QED BY <1>1, RetentionInvariant, PTL

(* With no PATCH /maintenance/retention under way, the window in force is  *)
(* the environment's if this process has audited none, and else one of     *)
(* those it has audited: the last of them, unless the newest change came   *)
(* in the middle of another.                                               *)
THEOREM RetentionAuditNamesTheWindow ==
  ASSUME RetentionAssumption PROVE Spec => []AuditNamesTheWindow
<1>1. ASSUME IInv, \A c \in DOMAIN calls : ~Under(c)
      PROVE  IF WrittenNow = {}
             THEN retentionDays = RETENTION_DAYS
             ELSE /\ \E i \in WrittenNow : audit[i] = retentionDays
                  /\ ~overlapped => retentionDays = Last(audit)
  <2>1. \A c \in DOMAIN calls : calls[c].at # "audit"
    BY <1>1 DEF Under
  <2>2. \/ \E i \in WrittenNow : audit[i] = retentionDays
        \/ retentionDays = RETENTION_DAYS /\ Len(audit) = auditedBefore
    BY <1>1, <2>1 DEF IInv, WindowIsNamed, Unaudited
  <2>3. auditedBefore \in Nat /\ Len(audit) \in Nat
    BY <1>1 DEF IInv, ServerTyped
  <2>4. Len(audit) = auditedBefore => WrittenNow = {}
    BY <2>3 DEF WrittenNow
  <2>5. WrittenNow # {} /\ ~overlapped => retentionDays = Last(audit)
    BY <1>1, <2>1, <2>4 DEF IInv, WindowIsTold, AuditedWindow
  <2>. QED BY <2>2, <2>4, <2>5
<1>2. IInv => AuditNamesTheWindow
  BY <1>1 DEF AuditNamesTheWindow
<1>. QED BY <1>2, RetentionInvariant, PTL

(* In a tab that alone changes the window and whose requests are answered, *)
(* a RetentionPanel with nothing under way shows the window in force: a    *)
(* status that getStatus() read across a PATCH is always read again.       *)
THEOREM RetentionQuietPanelIsCurrent ==
  ASSUME RetentionAssumption PROVE Spec => []QuietPanelIsCurrent
<1>1. IInv => QuietPanelIsCurrent
  BY DEF IInv, NothingStaleIsComing, Quiet, Current, Pending, QuietPanelIsCurrent, Cache!Settled
<1>. QED BY <1>1, RetentionInvariant, PTL
================================================================================
