---------------------------- MODULE ActivityLog ----------------------------
(***************************************************************************)
(* The dashboard's feed: type ActivityLog in                               *)
(* internal/dashboard/dashboard.go, a Go slice of at most Keep entries.    *)
(* Eviction moves the start of the slice along its array, clearing only    *)
(* shortens it, and appending writes behind the end, in the same array     *)
(* while there is room.  Every operation holds the mutex to its end.       *)
(***************************************************************************)
EXTENDS Naturals, SequencesExt

CONSTANTS
  Keep,   \* max
  Unused  \* a place of the array nothing was written to

ASSUME KeepAssumption == Keep \in Nat \ {0}

VARIABLES
  array,   \* the array behind the slice
  offset,  \* where the slice starts in it
  length,  \* its length
  alerts, blocks,  \* the counters
  fed      \* history: what was added since the log was last cleared

feed == <<array, offset, length, alerts, blocks, fed>>

NewActivityLog ==
  /\ array = [k \in 1..Keep |-> Unused]
  /\ offset = 0 /\ length = 0
  /\ alerts = 0 /\ blocks = 0
  /\ fed = <<>>

\* The capacity append gives an array for n entries: at least that of two more.
Capacity(n) == 2 * n

\* append: at index `end`, or in a new array that starts with the `n` entries
\* from `start` on.
Appended(start, n, e) ==
  IF start + n < Len(array)
  THEN array' = [array EXCEPT ![start + n + 1] = e] /\ offset' = start
  ELSE /\ array' = SubSeq(array, start + 1, start + n) \o <<e>>
                      \o [k \in 1..(Capacity(n + 1) - n - 1) |-> Unused]
       /\ offset' = 0

Count(e) ==
  /\ alerts' = alerts + (IF e.type = "alert" THEN 1 ELSE 0)
  /\ blocks' = blocks + (IF e.type = "blocked" THEN 1 ELSE 0)

\* Mutant: the newest entry is overwritten when the log is full.
AddOverLast(e) ==
  /\ IF length >= Keep THEN Appended(offset, length - 1, e) /\ UNCHANGED length
     ELSE Appended(offset, length, e) /\ length' = length + 1
  /\ Count(e)
  /\ fed' = Append(fed, e)

Add(e) ==
  /\ IF length >= Keep THEN Appended(offset + 1, length - 1, e) /\ UNCHANGED length
     ELSE Appended(offset, length, e) /\ length' = length + 1
  /\ Count(e)
  /\ fed' = Append(fed, e)

\* Mutant: the counters start over.
ClearAll ==
  /\ length' = 0 /\ alerts' = 0 /\ blocks' = 0
  /\ fed' = <<>>
  /\ UNCHANGED <<array, offset>>

Clear ==
  /\ length' = 0
  /\ fed' = <<>>
  /\ UNCHANGED <<array, offset, alerts, blocks>>

\* Newest first; a limit of zero asks for all.
Recent(limit) ==
  LET n == IF limit = 0 \/ limit > length THEN length ELSE limit
  IN [k \in 1..n |-> array[offset + length - k + 1]]

-----------------------------------------------------------------------------
(* Properties *)

\* Whatever was evicted, cleared and copied to a new array before, a reader gets
\* the newest entries since the log was last cleared, newest first, as many as
\* it asked for and the log keeps.
Newest(n) == [k \in 1..n |-> fed[Len(fed) - k + 1]]
ActivityKeepsLast ==
  \A limit \in 0..(Keep + 1) :
    LET kept == IF Len(fed) < Keep THEN Len(fed) ELSE Keep
    IN Recent(limit) = Newest(IF limit \in 1..kept THEN limit ELSE kept)
=============================================================================
