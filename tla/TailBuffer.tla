------------------------------- MODULE TailBuffer ------------------------------
(***************************************************************************)
(* The ring buffer of the live tail's rows (use-event-source.ts).          *)
(* Operators whose names begin with Bad are seeded faults.                 *)
(***************************************************************************)
EXTENDS Integers, Sequences

CONSTANT BUFFER_CAPACITY  \* rows it retains

ASSUME TailBufferAssumption == BUFFER_CAPACITY \in Nat \ {0}

Lasts(seq, n) == SubSeq(seq, Len(seq) - n + 1, Len(seq))

\* A seeded fault: the buffer keeps its oldest rows.
BadPushMany(buf, items) ==
  LET all == buf \o items
  IN  SubSeq(all, 1, IF Len(all) > BUFFER_CAPACITY THEN BUFFER_CAPACITY ELSE Len(all))

pushMany(buf, items) ==
  LET all == buf \o items
  IN  IF Len(all) > BUFFER_CAPACITY THEN Lasts(all, BUFFER_CAPACITY) ELSE all
================================================================================
