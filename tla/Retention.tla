------------------------------- MODULE Retention -------------------------------
(***************************************************************************)
(* The retention window: RetentionSweepService with its window in memory,  *)
(* GET and PATCH /maintenance/retention, and the panel of the Maintenance  *)
(* page (retention-panel.tsx) with its query and its field.  A second      *)
(* administrator sends PATCH requests of the same kind.                    *)
(*                                                                         *)
(* A log row is its age in days; rows neither age nor arrive here.  A      *)
(* status is the window it names and the rows it counted.                  *)
(* Operators whose names begin with Bad are seeded faults.                 *)
(***************************************************************************)
EXTENDS Naturals, Sequences, SequencesExt, FiniteSets

CONSTANTS
  Ages,          \* ages of the stored rows, in days
  Windows,       \* windows an administrator may type
  RETENTION_DAYS,\* the window of a fresh process
  MaxCalls,      \* bound: PATCH requests, of both administrators
  MaxRestarts    \* bound: restarts of the process

Cache == INSTANCE QueryCache

VARIABLES
  retentionDays, \* the window in force
  rows,          \* the rows that are left
  sweeping,      \* cutoffs of the sweep under way: none or one
  reading,       \* the GET under way in the server: none, or cutoff and count
  calls,         \* PATCH requests
  audit,         \* the windows that were audited, in the order of their rows
  query,         \* the ['retention'] entry of the query cache
  ttlInput,      \* the field of the panel; 0 is an empty one
  everInForce,   \* history: windows that were in force
  unsure,        \* history: an answer lost, a first load joined, or someone
                 \* else changed the window
  overlapped,    \* history: the newest change came while a PATCH was under way
  auditedBefore, \* history: the length of the audit trail when the process started
  restarts       \* bound counter

panel == <<query, ttlInput>>
history == <<everInForce, unsure, overlapped, auditedBefore, restarts>>
vars == <<retentionDays, rows, sweeping, reading, calls, audit, panel, history>>

Expired(cutoff) == {r \in rows : r > cutoff}
Under(c) == calls[c].at \in {"audit", "status"}
Unanswered(c) == calls[c].from = "panel" /\ calls[c].awaited

Init ==
  /\ retentionDays = RETENTION_DAYS /\ everInForce = {RETENTION_DAYS}
  /\ rows = Ages
  /\ sweeping = {} /\ reading = {} /\ calls = <<>> /\ audit = <<>>
  /\ query = Cache!FirstLoad /\ ttlInput = 0
  /\ unsure = FALSE /\ overlapped = FALSE /\ auditedBefore = 0 /\ restarts = 0

-----------------------------------------------------------------------------
(* The nightly sweep: the cutoff is computed, then the rows are deleted. *)

sweep ==
  /\ sweeping = {}
  /\ sweeping' = {retentionDays}
  /\ UNCHANGED <<retentionDays, rows, reading, calls, audit, panel, history>>

\* A seeded fault: the comparison with the cutoff is the wrong way round.
BadDeleteMany ==
  \E cutoff \in sweeping :
    /\ sweeping' = {}
    /\ rows' = Expired(cutoff)
    /\ UNCHANGED <<retentionDays, reading, calls, audit, panel, history>>

\* The statement deletes what is past the cutoff, or fails and is logged.
deleteMany ==
  \E cutoff \in sweeping :
    /\ sweeping' = {}
    /\ rows' \in {rows, rows \ Expired(cutoff)}
    /\ UNCHANGED <<retentionDays, reading, calls, audit, panel, history>>

-----------------------------------------------------------------------------
(* GET: getStatus() computes the cutoff, counts, and reads the window again. *)

getStatus ==
  /\ query.fetch = "sent" /\ reading = {}
  /\ reading' = {[cutoff |-> retentionDays, counted |-> FALSE, pendingRows |-> 0]}
  /\ UNCHANGED <<retentionDays, rows, sweeping, calls, audit, panel, history>>

count ==
  \E get \in reading :
    /\ ~get.counted
    /\ reading' = {[get EXCEPT !.counted = TRUE,
                               !.pendingRows = Cardinality(Expired(get.cutoff))]}
    /\ UNCHANGED <<retentionDays, rows, sweeping, calls, audit, panel, history>>

returnStatus ==
  \E get \in reading :
    /\ get.counted
    /\ reading' = {}
    /\ query' = Cache!Answer(query, [retentionDays |-> retentionDays,
                                     pendingRows |-> get.pendingRows])
    /\ UNCHANGED <<retentionDays, rows, sweeping, calls, audit, ttlInput, history>>

-----------------------------------------------------------------------------
(* PATCH: the window is set at once, then audited, then a status is read. *)

Send(from, days) ==
  /\ Len(calls) < MaxCalls
  /\ calls' = Append(calls, [from |-> from, days |-> days, at |-> "sent",
                             awaited |-> TRUE])

\* The other administrator.
SomeoneSaves(days) ==
  /\ Send("other", days)
  /\ unsure' = TRUE
  /\ UNCHANGED <<retentionDays, rows, sweeping, reading, audit, panel, everInForce,
                 overlapped, auditedBefore, restarts>>

\* A seeded fault: a window is only ever made shorter.
BadSetRetentionDays(c) ==
  /\ calls[c].at = "sent"
  /\ calls' = [calls EXCEPT ![c].at = "audit"]
  /\ retentionDays' =
       IF calls[c].days < retentionDays THEN calls[c].days ELSE retentionDays
  /\ everInForce' = everInForce \cup {retentionDays'}
  /\ overlapped' = \E d \in DOMAIN calls : Under(d)
  /\ UNCHANGED <<rows, sweeping, reading, audit, panel, unsure, auditedBefore,
                 restarts>>

setRetentionDays(c) ==
  /\ calls[c].at = "sent"
  /\ calls' = [calls EXCEPT ![c].at = "audit"]
  /\ retentionDays' = calls[c].days
  /\ everInForce' = everInForce \cup {calls[c].days}
  /\ overlapped' = \E d \in DOMAIN calls : Under(d)
  /\ UNCHANGED <<rows, sweeping, reading, audit, panel, unsure, auditedBefore,
                 restarts>>

\* A row or, fail-soft, a notice with the same words.
record(c) ==
  /\ calls[c].at = "audit"
  /\ calls' = [calls EXCEPT ![c].at = "status"]
  /\ audit' = Append(audit, calls[c].days)
  /\ UNCHANGED <<retentionDays, rows, sweeping, reading, panel, history>>

\* The count of the answer's status may fail: a 500 for a window that is set.
statusRead(c) ==
  /\ calls[c].at = "status"
  /\ calls' = [calls EXCEPT ![c].at = "over"]
  /\ UNCHANGED <<retentionDays, rows, sweeping, reading, audit, panel, history>>

\* The process restarts: the window is that of the environment again.
Restart ==
  /\ restarts < MaxRestarts
  /\ restarts' = restarts + 1
  /\ retentionDays' = RETENTION_DAYS
  /\ sweeping' = {} /\ reading' = {}
  /\ calls' = [c \in DOMAIN calls |->
                 [calls[c] EXCEPT !.at = IF @ = "over" THEN @ ELSE "gone"]]
  /\ query' = IF query.fetch = "sent" THEN Cache!Fail(query) ELSE query
  /\ unsure' = TRUE
  /\ auditedBefore' = Len(audit) /\ overlapped' = FALSE
  /\ UNCHANGED <<rows, audit, ttlInput, everInForce>>

-----------------------------------------------------------------------------
(* RetentionPanel. *)

\* The effect on query.data: a status that differs from the last one fills the
\* field, over whatever has been typed.
statusArrives ==
  /\ query.fetch = "answered"
  /\ query' = Cache!Deliver(query)
  /\ ttlInput' = IF query.answer = query.data
                 THEN ttlInput
                 ELSE CHOOSE d \in Windows \cup {RETENTION_DAYS} :
                        \E status \in query.answer : status.retentionDays = d
  /\ UNCHANGED <<retentionDays, rows, sweeping, reading, calls, audit, history>>

onTtlChange(days) ==
  /\ ttlInput' = days
  /\ UNCHANGED <<retentionDays, rows, sweeping, reading, calls, audit, query, history>>

\* The button: disabled while saving and unless the field is 1 to 365.
save ==
  /\ ttlInput # 0
  /\ \A c \in DOMAIN calls : ~Unanswered(c)
  /\ Send("panel", ttlInput)
  /\ UNCHANGED <<retentionDays, rows, sweeping, reading, audit, panel, history>>

Answered(c) == calls' = [calls EXCEPT ![c].awaited = FALSE]

onSuccess(c) ==
  /\ Unanswered(c) /\ calls[c].at = "over"
  /\ Answered(c)
  /\ query' = Cache!Invalidate(query)
  /\ reading' = IF Cache!Joins(query) THEN reading ELSE {}
  /\ unsure' = (unsure \/ Cache!Joins(query))
  /\ UNCHANGED <<retentionDays, rows, sweeping, audit, ttlInput, everInForce,
                 overlapped, auditedBefore, restarts>>

onError(c) ==
  /\ Unanswered(c)
  /\ Answered(c)
  /\ unsure' = TRUE
  /\ UNCHANGED <<retentionDays, rows, sweeping, reading, audit, panel, everInForce,
                 overlapped, auditedBefore, restarts>>

Next ==
  \/ sweep \/ deleteMany \/ getStatus \/ count \/ returnStatus \/ Restart
  \/ statusArrives \/ save
  \/ \E days \in Windows : SomeoneSaves(days) \/ onTtlChange(days)
  \/ \E c \in DOMAIN calls :
       setRetentionDays(c) \/ record(c) \/ statusRead(c) \/ onSuccess(c) \/ onError(c)

Spec == Init /\ [][Next]_vars

-----------------------------------------------------------------------------
(* Properties. *)

\* Whatever sweeps, changes of the window and restarts overlap, a row younger
\* than every window that was ever in force is still there.
NoRowLeavesEarly ==
  \A age \in Ages : (\A days \in everInForce : age <= days) => age \in rows

\* The places of the trail that this process has written.
WrittenNow == auditedBefore + 1 .. Len(audit)

\* With no PATCH under way the window in force is that of the environment if this
\* process has audited none - so not the last row of the trail after a restart, nor
\* a window whose PATCH the restart cut off.  Else it is one that this process has
\* audited, and the last of these unless the newest change came in the middle of
\* another, for such a pair may be audited in the other order.
AuditNamesTheWindow ==
  (\A c \in DOMAIN calls : ~Under(c)) =>
    IF WrittenNow = {}
    THEN retentionDays = RETENTION_DAYS
    ELSE /\ \E i \in WrittenNow : audit[i] = retentionDays
         /\ ~overlapped => retentionDays = Last(audit)

\* A panel with nothing in flight names the window in force, and a count that was
\* made under it if no row was swept: the status torn by a PATCH between its
\* count and its window is always read again - in a tab that alone changes the
\* window and whose requests are all answered.
QuietPanelIsCurrent ==
  (Cache!Settled(query) /\ ~unsure /\ \A c \in DOMAIN calls : ~Unanswered(c))
    => \A status \in query.data :
         /\ status.retentionDays = retentionDays
         /\ rows = Ages => status.pendingRows = Cardinality(Expired(retentionDays))
==============================================================================
