--------------------------- MODULE OperatorProofs ---------------------------
(***************************************************************************)
(* Three results about what the operator sees, one part each.              *)
(*                                                                         *)
(* The feed of the dashboard, for every size of the log: whatever sequence *)
(* of additions, evictions, clearings and copies to a new array, a reader  *)
(* gets the newest entries since the log was last cleared.  The invariant  *)
(* places the slice inside its array and its entries at the end of what    *)
(* was fed.                                                                *)
(*                                                                         *)
(* The decision log, for any number of requests to both processes: every   *)
(* decision is recorded once, on a line of its own among those of its      *)
(* process, and counted once.  It rests on the mutex of the Logger, which  *)
(* leaves every earlier line of the process ended when a record is written.*)
(*                                                                         *)
(* The sentinel, on both builds: the alerts told of a check are its        *)
(* alarming readings, because what was last seen is the last reading.      *)
(***************************************************************************)
EXTENDS Operator, FiniteSetTheorems, TLAPS

-----------------------------------------------------------------------------
(* The feed *)

Entry == [type : {"request", "alert", "blocked", "audit", "scan"},
          of : Request \cup Nat]
Place == Entry \cup {Unused}

SliceInArray ==
  /\ array \in Seq(Place)
  /\ offset \in Nat /\ length \in Nat
  /\ offset + length <= Len(array)

SliceEndsFed ==
  /\ fed \in Seq(Entry)
  /\ length = IF Len(fed) < Keep THEN Len(fed) ELSE Keep
  /\ \A k \in 1..length : array[offset + k] = fed[Len(fed) - length + k]

RingInv == SliceInArray /\ SliceEndsFed

-----------------------------------------------------------------------------
\* append keeps the entries it is given and puts the new one behind them.
LEMMA AppendedKeeps ==
  ASSUME array \in Seq(Place), NEW start \in Nat, NEW n \in Nat,
         start + n <= Len(array), NEW e \in Entry, Appended(start, n, e)
  PROVE  /\ array' \in Seq(Place)
         /\ offset' \in Nat
         /\ offset' + n + 1 <= Len(array')
         /\ \A k \in 1..n : array'[offset' + k] = array[start + k]
         /\ array'[offset' + n + 1] = e
<1>1. CASE start + n < Len(array)
  <2>1. array' = [array EXCEPT ![start + n + 1] = e] /\ offset' = start
    BY <1>1 DEF Appended
  <2>2. start + n + 1 \in 1..Len(array)
    BY <1>1
  <2> QED BY <2>1, <2>2 DEF Place
<1>2. CASE ~(start + n < Len(array))
  <2> DEFINE kept == SubSeq(array, start + 1, start + n)
             room == [k \in 1..(Capacity(n + 1) - n - 1) |-> Unused]
  <2>1. array' = kept \o <<e>> \o room /\ offset' = 0
    BY <1>2 DEF Appended
  <2>2. kept \in Seq(Place) /\ Len(kept) = n
        /\ \A k \in 1..n : kept[k] = array[start + k]
    OBVIOUS
  <2>3. room \in Seq(Place) /\ Len(room) = n + 1
    BY DEF Capacity, Place
  <2>4. <<e>> \in Seq(Place) /\ Len(<<e>>) = 1 /\ <<e>>[1] = e
    BY DEF Place
  <2> HIDE DEF kept, room
  <2>5. kept \o <<e>> \in Seq(Place) /\ Len(kept \o <<e>>) = n + 1
    BY <2>2, <2>4
  <2>6. /\ array' = (kept \o <<e>>) \o room
        /\ array' \in Seq(Place) /\ Len(array') = (n + 1) + (n + 1)
    <3> DEFINE head == kept \o <<e>>
    <3>1. array' = head \o room
      BY <2>1
    <3>2. head \in Seq(Place) /\ Len(head) = n + 1
      BY <2>5
    <3> HIDE DEF head
    <3>3. head \o room \in Seq(Place) /\ Len(head \o room) = (n + 1) + (n + 1)
      BY <2>3, <3>2
    <3> QED BY <3>1, <3>3 DEF head
  <2>7. \A k \in 1..n : array'[k] = array[start + k]
    <3> SUFFICES ASSUME NEW k \in 1..n PROVE array'[k] = array[start + k]
      OBVIOUS
    <3>1. array'[k] = (kept \o <<e>>)[k]
      BY <2>3, <2>5, <2>6
    <3>2. (kept \o <<e>>)[k] = kept[k]
      BY <2>2, <2>4
    <3> QED BY <2>2, <3>1, <3>2
  <2>8. array'[n + 1] = e
    <3>1. array'[n + 1] = (kept \o <<e>>)[n + 1]
      BY <2>3, <2>5, <2>6
    <3>2. (kept \o <<e>>)[n + 1] = <<e>>[1]
      BY <2>2, <2>4
    <3> QED BY <2>4, <3>1, <3>2
  <2>9. offset' = 0 /\ 0 + n + 1 <= Len(array')
    BY <2>1, <2>6
  <2> QED BY <2>6, <2>7, <2>8, <2>9
<1> QED BY <1>1, <1>2

LEMMA NewIsRing == NewActivityLog => RingInv
<1> SUFFICES ASSUME NewActivityLog PROVE RingInv
  OBVIOUS
<1>1. array \in Seq(Place) /\ Len(array) = Keep
  BY KeepAssumption DEF NewActivityLog, Place
<1>2. fed \in Seq(Entry) /\ Len(fed) = 0
  BY DEF NewActivityLog
<1> QED BY <1>1, <1>2, KeepAssumption DEF NewActivityLog, RingInv, SliceInArray, SliceEndsFed

LEMMA AddKeepsRing ==
  ASSUME RingInv, NEW e \in Entry, Add(e)
  PROVE  RingInv'
<1> USE KeepAssumption
<1>1. fed' = Append(fed, e) /\ fed' \in Seq(Entry) /\ Len(fed') = Len(fed) + 1
      /\ fed'[Len(fed) + 1] = e /\ \A k \in 1..Len(fed) : fed'[k] = fed[k]
  BY DEF RingInv, SliceEndsFed, Add
<1>2. CASE length >= Keep
  <2>1. length = Keep /\ Len(fed) >= Keep /\ Len(fed) \in Nat
    BY <1>2 DEF RingInv, SliceEndsFed, SliceInArray
  <2>2. Appended(offset + 1, length - 1, e) /\ length' = length
    BY <1>2 DEF Add
  <2>3. /\ array' \in Seq(Place) /\ offset' \in Nat
        /\ offset' + (length - 1) + 1 <= Len(array')
        /\ \A k \in 1..(length - 1) : array'[offset' + k] = array[offset + 1 + k]
        /\ array'[offset' + (length - 1) + 1] = e
    BY <2>1, <2>2, AppendedKeeps DEF RingInv, SliceInArray
  <2>4. SliceInArray'
    BY <2>1, <2>2, <2>3 DEF SliceInArray
  <2>5. ASSUME NEW k \in 1..length
        PROVE  array'[offset' + k] = fed'[Len(fed') - length + k]
    <3>1. CASE k = length
      BY <1>1, <2>1, <2>3, <3>1
    <3>2. CASE k \in 1..(length - 1)
      <4>1. array'[offset' + k] = array[offset + 1 + k]
        BY <2>3, <3>2
      <4>2. array[offset + (k + 1)] = fed[Len(fed) - length + (k + 1)]
        <5>1. k + 1 \in 1..length
          BY <2>1, <3>2
        <5> QED BY <5>1 DEF RingInv, SliceEndsFed
      <4>3. offset + 1 + k = offset + (k + 1)
        BY <3>2 DEF RingInv, SliceInArray
      <4>4. Len(fed) - length + (k + 1) = Len(fed') - length + k
            /\ Len(fed) - length + (k + 1) \in 1..Len(fed)
        BY <1>1, <2>1, <3>2
      <4> QED BY <1>1, <4>1, <4>2, <4>3, <4>4
    <3> QED BY <2>1, <3>1, <3>2
  <2>6. length' = IF Len(fed') < Keep THEN Len(fed') ELSE Keep
    BY <1>1, <2>1, <2>2
  <2>7. \A k \in 1..length' : array'[offset' + k] = fed'[Len(fed') - length' + k]
    BY <2>2, <2>5
  <2>8. SliceEndsFed'
    BY <1>1, <2>6, <2>7 DEF SliceEndsFed
  <2> QED BY <2>4, <2>8 DEF RingInv
<1>3. CASE length < Keep
  <2>1. length = Len(fed) /\ Len(fed) < Keep /\ Len(fed) \in Nat
    BY <1>3 DEF RingInv, SliceEndsFed, SliceInArray
  <2>2. Appended(offset, length, e) /\ length' = length + 1
    BY <1>3, <2>1 DEF Add
  <2>3. /\ array' \in Seq(Place) /\ offset' \in Nat
        /\ offset' + length + 1 <= Len(array')
        /\ \A k \in 1..length : array'[offset' + k] = array[offset + k]
        /\ array'[offset' + length + 1] = e
    BY <2>1, <2>2, AppendedKeeps DEF RingInv, SliceInArray
  <2>4. SliceInArray'
    BY <2>1, <2>2, <2>3 DEF SliceInArray
  <2>5. ASSUME NEW k \in 1..(length + 1)
        PROVE  array'[offset' + k] = fed'[k]
    <3>1. CASE k = length + 1
      BY <1>1, <2>1, <2>3, <3>1
    <3>2. CASE k \in 1..length
      <4>1. array'[offset' + k] = array[offset + k]
        BY <2>3, <3>2
      <4>2. array[offset + k] = fed[Len(fed) - length + k]
        BY <3>2 DEF RingInv, SliceEndsFed
      <4>3. Len(fed) - length + k = k /\ k \in 1..Len(fed)
        BY <2>1, <3>2
      <4> QED BY <1>1, <4>1, <4>2, <4>3
    <3> QED BY <2>1, <3>1, <3>2
  <2>6. Len(fed') - length' = 0
    BY <1>1, <2>1, <2>2
  <2>7. SliceEndsFed'
    BY <1>1, <2>1, <2>2, <2>5, <2>6 DEF SliceEndsFed
  <2> QED BY <2>4, <2>7 DEF RingInv
<1> QED BY <1>2, <1>3 DEF RingInv, SliceInArray

LEMMA ClearKeepsRing == RingInv /\ Clear => RingInv'
<1> SUFFICES ASSUME RingInv, Clear PROVE RingInv'
  OBVIOUS
<1>1. fed' \in Seq(Entry) /\ Len(fed') = 0
  BY DEF Clear
<1>2. length' = 0 /\ array' = array /\ offset' = offset
  BY DEF Clear
<1> QED BY <1>1, <1>2, KeepAssumption DEF RingInv, SliceInArray, SliceEndsFed

\* Every step of the commands adds an entry, clears the feed, or leaves it.
LEMMA StepsOfFeed ==
  ASSUME Next, asked \in Nat
  PROVE  (\E e \in Entry : Add(e)) \/ Clear \/ UNCHANGED feed
<1>1. CASE InSentinel(Watch)
  BY <1>1 DEF InSentinel
<1>2. CASE command = "dashboard" /\ Dashboard
  <2>1. ASSUME NEW r \in Request, RequestStep(r)
        PROVE  (\E e \in Entry : Add(e)) \/ UNCHANGED feed
    <3>1. [type |-> "request", of |-> r] \in Entry
      BY DEF Entry
    <3>2. \A v \in {"clean", "alert", "blocked"} :
            v # "clean" => [type |-> v, of |-> r] \in Entry
      BY DEF Entry
    <3>3. CASE ServeRequest(r) BY <3>1, <3>3 DEF ServeRequest
    <3>4. CASE Lock(r) BY <3>4 DEF Lock
    <3>5. CASE WriteRecord(r) BY <3>5 DEF WriteRecord
    <3>6. CASE WriteNewline(r) BY <3>6 DEF WriteNewline
    <3>7. CASE Decided(r) BY <3>2, <3>7 DEF Decided
    <3> QED BY <2>1, <3>3, <3>4, <3>5, <3>6, <3>7 DEF RequestStep
  <2>2. ASSUME NEW kind \in {"audit", "scan"}, Ask(kind)
        PROVE  \E e \in Entry : Add(e)
    <3>1. [type |-> kind, of |-> asked] \in Entry
      BY DEF Entry
    <3> QED BY <2>2, <3>1 DEF Ask
  <2>3. CASE ClearActivity BY <2>3 DEF ClearActivity
  <2> QED BY <1>2, <2>1, <2>2, <2>3 DEF Dashboard
<1> QED BY <1>1, <1>2 DEF Next

FeedInv == asked \in Nat /\ RingInv

LEMMA FeedInvariant == Spec => []FeedInv
<1>1. Init => FeedInv
  BY NewIsRing DEF Init, FeedInv
<1>2. FeedInv /\ [Next]_vars => FeedInv'
  <2> SUFFICES ASSUME FeedInv, [Next]_vars PROVE FeedInv'
    OBVIOUS
  <2>1. asked' \in Nat
    BY DEF FeedInv, vars, Next, InSentinel, Dashboard, Ask, ClearActivity
  <2>2. CASE UNCHANGED feed
    <3>1. array' = array /\ offset' = offset /\ length' = length /\ fed' = fed
      BY <2>2 DEF feed
    <3>2. SliceInArray' /\ SliceEndsFed'
      BY <3>1 DEF FeedInv, RingInv, SliceInArray, SliceEndsFed
    <3> QED BY <2>1, <3>2 DEF FeedInv, RingInv
  <2>3. CASE UNCHANGED vars
    BY <2>2, <2>3 DEF vars
  <2>4. CASE Next
    <3>1. (\E e \in Entry : Add(e)) \/ Clear \/ UNCHANGED feed
      BY <2>4, StepsOfFeed DEF FeedInv
    <3>2. ASSUME NEW e \in Entry, Add(e) PROVE RingInv'
      BY <3>2, AddKeepsRing DEF FeedInv
    <3>3. CASE Clear
      BY <2>1, <3>3, ClearKeepsRing DEF FeedInv
    <3> QED BY <2>1, <2>2, <3>1, <3>2, <3>3 DEF FeedInv
  <2> QED BY <2>1, <2>2, <2>3, <2>4 DEF FeedInv
<1> QED BY <1>1, <1>2, PTL DEF Spec

\* A reader of the feed gets the newest entries since it was last cleared, newest
\* first, as many as asked for and kept (dashboard.go:358-403).
THEOREM FeedKeepsLast == Spec => []ActivityKeepsLast
<1>1. RingInv => ActivityKeepsLast
  <2> SUFFICES ASSUME RingInv, NEW limit \in 0..(Keep + 1)
               PROVE  LET kept == IF Len(fed) < Keep THEN Len(fed) ELSE Keep
                      IN Recent(limit) = Newest(IF limit \in 1..kept THEN limit ELSE kept)
    BY DEF ActivityKeepsLast
  <2> DEFINE n == IF limit = 0 \/ limit > length THEN length ELSE limit
  <2>1. length \in Nat /\ length <= Len(fed) /\ Len(fed) \in Nat /\ offset \in Nat
    BY KeepAssumption DEF RingInv, SliceInArray, SliceEndsFed
  <2>2. n \in Nat /\ n <= length
    BY <2>1, KeepAssumption
  <2>3. ASSUME NEW k \in 1..n
        PROVE  array[offset + length - k + 1] = fed[Len(fed) - k + 1]
    <3>1. length - k + 1 \in 1..length
      BY <2>1, <2>2
    <3>2. array[offset + (length - k + 1)] = fed[Len(fed) - length + (length - k + 1)]
      BY <3>1 DEF RingInv, SliceEndsFed
    <3>3. offset + (length - k + 1) = offset + length - k + 1
          /\ Len(fed) - length + (length - k + 1) = Len(fed) - k + 1
      BY <2>1, <2>2
    <3> QED BY <3>2, <3>3
  <2>4. Recent(limit) = Newest(n)
    BY <2>3 DEF Recent, Newest
  <2>5. n = IF limit \in 1..length THEN limit ELSE length
    BY <2>1, KeepAssumption
  <2>6. length = IF Len(fed) < Keep THEN Len(fed) ELSE Keep
    BY DEF RingInv, SliceEndsFed
  <2> HIDE DEF n
  <2> QED BY <2>4, <2>5, <2>6
<1> QED BY <1>1, FeedInvariant, PTL DEF FeedInv

-----------------------------------------------------------------------------
(* The log and the counters *)

Stage == {"new", "served", "writing", "ending", "logged", "done"}
LogEntry == [of : {"record", Newline, Torn}, by : Request]

LogTypes ==
  /\ work \in [Request -> Stage]
  /\ verdict \in [Request -> {"none", "clean", "alert", "blocked"}]
  /\ writer \in [{"dashboard", "proxy"} -> Request \cup {NoOne}]
  /\ file \in Seq(LogEntry)

\* Who writes holds the mutex of its process.
WritesAlone ==
  \A r \in Request : work[r] \in {"writing", "ending"} => writer[Process(r)] = r

RecordedOnce ==
  \A r \in Request :
    IF work[r] \in {"ending", "logged", "done"}
    THEN \E k \in DOMAIN file : Records(r) = {k}
    ELSE Records(r) = {}

\* Whoever has given the mutex back has ended its line.
LinesEnded ==
  \A r \in Request : work[r] \in {"logged", "done"} =>
    \A i \in Records(r) : \E k \in DOMAIN file : i <= k /\ file[k] = EndOf(r)

LinesApart ==
  \A q, r \in Request :
    q # r /\ Process(q) = Process(r) =>
      \A i \in Records(q), j \in Records(r) :
        i < j => \E k \in i..j : file[k] = EndOf(q)

LogInv ==
  /\ LogTypes /\ WritesAlone /\ CountsLogged
  /\ ~trouble => RecordedOnce /\ LinesEnded /\ LinesApart

LEMMA EntriesDiffer ==
  ASSUME NEW r \in Request
  PROVE  /\ Record(r) \in LogEntry /\ EndOf(r) \in LogEntry /\ TornOf(r) \in LogEntry
         /\ \A q \in Request : /\ (Record(q) = Record(r)) <=> (q = r)
                               /\ Record(r) # EndOf(q) /\ Record(r) # TornOf(q)
BY DEF Record, EndOf, TornOf, LogEntry, Newline, Torn

\* What a write adds to the file, and to the records in it.
LEMMA FileGrows ==
  ASSUME file \in Seq(LogEntry), NEW e \in LogEntry, file' = Append(file, e),
         NEW n, n = Len(file) + 1
  PROVE  /\ file' \in Seq(LogEntry)
         /\ n \in Nat /\ DOMAIN file' = DOMAIN file \cup {n} /\ n \notin DOMAIN file
         /\ \A k \in DOMAIN file : k \in Nat /\ k < n /\ file'[k] = file[k]
         /\ file'[n] = e
         /\ \A q : Records(q)' = IF e = Record(q) THEN Records(q) \cup {n} ELSE Records(q)
<1>1. /\ file' \in Seq(LogEntry)
      /\ n \in Nat /\ DOMAIN file' = DOMAIN file \cup {n} /\ n \notin DOMAIN file
      /\ \A k \in DOMAIN file : k \in Nat /\ k < n /\ file'[k] = file[k]
      /\ file'[n] = e
  OBVIOUS
<1>2. \A q : Records(q)' = {k \in DOMAIN file' : file'[k] = Record(q)}
  BY DEF Records, Record
<1> QED BY <1>1, <1>2 DEF Records

\* A request that moves on is the only one that does.
LEMMA StageMoves ==
  ASSUME work \in [Request -> Stage], NEW r \in Request, NEW s \in Stage, Enter(r, s)
  PROVE  /\ work' \in [Request -> Stage] /\ work'[r] = s
         /\ \A q \in Request \ {r} : work'[q] = work[q]
BY DEF Enter

\* The counters agree with what was decided as long as neither changes.
LEMMA CountsKept ==
  ASSUME CountsLogged, UNCHANGED <<alerts, blocks, verdict>>,
         \A q \in Managed : work'[q] = "done" <=> work[q] = "done"
  PROVE  CountsLogged'
<1>1. \A v : Shown(v)' = Shown(v)
  BY DEF Shown
<1> QED BY <1>1 DEF CountsLogged

\* The counters are numbers, since only finitely many requests are managed.
LEMMA CountsFinite ==
  ASSUME NEW v
  PROVE  IsFiniteSet(Shown(v)) /\ Cardinality(Shown(v)) \in Nat
<1>1. IsFiniteSet(Managed) /\ Shown(v) \subseteq Managed
  BY RequestAssumption DEF Shown
<1>2. IsFiniteSet(Shown(v))
  BY <1>1, FS_Subset
<1> QED BY <1>2, FS_CardinalityType

\* Entries that are neither alerts nor blocks are not counted.
LEMMA OthersNotCounted ==
  ASSUME CountsLogged, NEW e, e.type \notin {"alert", "blocked"}, Add(e)
  PROVE  UNCHANGED <<alerts, blocks>>
<1>1. alerts \in Nat /\ blocks \in Nat
  BY CountsFinite DEF CountsLogged
<1> QED BY <1>1 DEF Add, Count

\* Steps in which a request moves on but nothing is written.
LEMMA QuietKeepsLog ==
  ASSUME LogInv, NEW r \in Request, NEW s \in Stage, Enter(r, s), LogTypes',
         UNCHANGED <<file, trouble>>, CountsLogged',
         work[r] \in {"ending", "logged", "done"} <=> s \in {"ending", "logged", "done"},
         s \in {"logged", "done"} <=> work[r] \in {"logged", "done"},
         WritesAlone'
  PROVE  LogInv'
<1>1. /\ work'[r] = s /\ \A q \in Request \ {r} : work'[q] = work[q]
  BY StageMoves DEF LogInv, LogTypes
<1>2. \A q : Records(q)' = Records(q)
  BY DEF Records, Record
<1>3. ASSUME ~trouble PROVE RecordedOnce' /\ LinesEnded' /\ LinesApart'
  <2>1. RecordedOnce /\ LinesEnded /\ LinesApart
    BY <1>3 DEF LogInv
  <2>2. \A q \in Request :
          /\ work'[q] \in {"ending", "logged", "done"} <=>
               work[q] \in {"ending", "logged", "done"}
          /\ work'[q] \in {"logged", "done"} <=> work[q] \in {"logged", "done"}
    BY <1>1
  <2>3. RecordedOnce'
    BY <1>2, <2>1, <2>2 DEF RecordedOnce
  <2>4. LinesEnded'
    BY <1>2, <2>1, <2>2 DEF LinesEnded, EndOf
  <2>5. LinesApart'
    BY <1>2, <2>1 DEF LinesApart, EndOf
  <2> QED BY <2>3, <2>4, <2>5
<1> QED BY <1>3 DEF LogInv

LEMMA ServeKeepsLog ==
  ASSUME LogInv, NEW r \in Request, ServeRequest(r)
  PROVE  LogInv'
<1>1. /\ work[r] = "new" /\ Enter(r, "served")
      /\ UNCHANGED <<verdict, writer, file, trouble>>
  BY DEF ServeRequest
<1>2. /\ work' \in [Request -> Stage] /\ work'[r] = "served"
      /\ \A q \in Request \ {r} : work'[q] = work[q]
  BY <1>1, StageMoves DEF LogInv, LogTypes, Stage
<1>3. UNCHANGED <<alerts, blocks>>
  <2>1. CASE r \in Managed
    <3>1. [type |-> "request", of |-> r].type \notin {"alert", "blocked"}
      OBVIOUS
    <3> QED BY <2>1, <3>1, OthersNotCounted DEF ServeRequest, LogInv
  <2>2. CASE r \notin Managed
    BY <2>2 DEF ServeRequest, feed
  <2> QED BY <2>1, <2>2
<1>4. \A q \in Managed : work'[q] = "done" <=> work[q] = "done"
  BY <1>1, <1>2 DEF Request
<1>5. CountsLogged'
  BY <1>1, <1>3, <1>4, CountsKept DEF LogInv
<1>6. LogTypes' /\ WritesAlone'
  BY <1>1, <1>2 DEF LogInv, LogTypes, WritesAlone
<1> QED BY <1>1, <1>5, <1>6, QuietKeepsLog DEF Stage

LEMMA LockKeepsLog ==
  ASSUME LogInv, NEW r \in Request, Lock(r)
  PROVE  LogInv'
<1>1. /\ work[r] = "served" /\ Enter(r, "writing")
      /\ writer[Process(r)] = NoOne
      /\ writer' = [writer EXCEPT ![Process(r)] = r]
      /\ UNCHANGED <<verdict, file, trouble, feed>>
  BY DEF Lock
<1>2. /\ work' \in [Request -> Stage] /\ work'[r] = "writing"
      /\ \A q \in Request \ {r} : work'[q] = work[q]
  BY <1>1, StageMoves DEF LogInv, LogTypes, Stage
<1>3. \A q \in Request : Process(q) \in {"dashboard", "proxy"}
  BY DEF Process
<1>4. /\ writer' \in [{"dashboard", "proxy"} -> Request \cup {NoOne}]
      /\ writer'[Process(r)] = r
      /\ \A q \in Request : Process(q) # Process(r) =>
            writer'[Process(q)] = writer[Process(q)]
  BY <1>1, <1>3 DEF LogInv, LogTypes
<1>5. \A q \in Request : Process(q) = Process(r) => work[q] \notin {"writing", "ending"}
  BY <1>1, RequestAssumption DEF LogInv, WritesAlone, Request
<1>6. WritesAlone'
  <2> SUFFICES ASSUME NEW q \in Request, work'[q] \in {"writing", "ending"}
               PROVE  writer'[Process(q)] = q
    BY DEF WritesAlone, Process
  <2>1. CASE q = r
    BY <1>4, <2>1
  <2>2. CASE q # r
    BY <1>2, <1>4, <1>5, <2>2 DEF LogInv, WritesAlone
  <2> QED BY <2>1, <2>2
<1>7. UNCHANGED <<alerts, blocks>>
  BY <1>1 DEF feed
<1>8. \A q \in Managed : work'[q] = "done" <=> work[q] = "done"
  BY <1>1, <1>2 DEF Request
<1>9. CountsLogged'
  BY <1>1, <1>7, <1>8, CountsKept DEF LogInv
<1>10. LogTypes'
  BY <1>1, <1>2, <1>4 DEF LogInv, LogTypes
<1> QED BY <1>1, <1>6, <1>9, <1>10, QuietKeepsLog DEF Stage

\* The record of a request goes behind the ended lines of its process: whoever
\* wrote before has given the mutex back.
LEMMA WriteRecordKeepsLog ==
  ASSUME LogInv, NEW r \in Request, WriteRecord(r)
  PROVE  LogInv'
<1>1. /\ work[r] = "writing" /\ Enter(r, "ending")
      /\ UNCHANGED <<verdict, writer, feed>>
      /\ \/ file' = Append(file, Record(r)) /\ UNCHANGED trouble
         \/ trouble' /\ file' = Append(file, TornOf(r))
  BY DEF WriteRecord, Fails
<1>2. /\ work' \in [Request -> Stage] /\ work'[r] = "ending"
      /\ \A q \in Request \ {r} : work'[q] = work[q]
  BY <1>1, StageMoves DEF LogInv, LogTypes, Stage
<1>3. file' \in Seq(LogEntry)
  BY <1>1, EntriesDiffer, FileGrows DEF LogInv, LogTypes
<1>4. LogTypes' /\ WritesAlone'
  BY <1>1, <1>2, <1>3 DEF LogInv, LogTypes, WritesAlone
<1>5. UNCHANGED <<alerts, blocks>> /\ UNCHANGED verdict
  BY <1>1 DEF feed
<1>6. \A q \in Managed : work'[q] = "done" <=> work[q] = "done"
  BY <1>1, <1>2 DEF Request
<1>7. CountsLogged'
  BY <1>5, <1>6, CountsKept DEF LogInv
<1>8. ASSUME ~trouble' PROVE RecordedOnce' /\ LinesEnded' /\ LinesApart'
  <2>1. file' = Append(file, Record(r)) /\ RecordedOnce /\ LinesEnded /\ LinesApart
    BY <1>1, <1>8 DEF LogInv
  <2>2. PICK n : n = Len(file) + 1
    OBVIOUS
  <2>3. /\ n \in Nat /\ DOMAIN file' = DOMAIN file \cup {n} /\ n \notin DOMAIN file
        /\ \A k \in DOMAIN file : k \in Nat /\ k < n /\ file'[k] = file[k]
        /\ \A q : Records(q)' = IF Record(r) = Record(q) THEN Records(q) \cup {n}
                                                         ELSE Records(q)
    BY <2>1, <2>2, EntriesDiffer, FileGrows DEF LogInv, LogTypes
  <2>4. Records(r)' = {n} /\ \A q \in Request \ {r} : Records(q)' = Records(q)
    <3>1. Records(r) = {}
      BY <1>1, <2>1 DEF RecordedOnce
    <3> QED BY <2>3, <3>1, EntriesDiffer
  <2>5. \A q : Records(q) \subseteq DOMAIN file
    BY DEF Records
  <2>6. RecordedOnce'
    <3> SUFFICES ASSUME NEW q \in Request
                 PROVE  IF work'[q] \in {"ending", "logged", "done"}
                        THEN \E k \in DOMAIN file' : Records(q)' = {k}
                        ELSE Records(q)' = {}
      BY DEF RecordedOnce
    <3>1. CASE q = r
      BY <1>2, <2>3, <2>4, <3>1
    <3>2. CASE q # r
      BY <1>2, <2>1, <2>3, <2>4, <3>2 DEF RecordedOnce
    <3> QED BY <3>1, <3>2
  <2>7. LinesEnded'
    <3> SUFFICES ASSUME NEW q \in Request, work'[q] \in {"logged", "done"},
                        NEW i \in Records(q)'
                 PROVE  \E k \in DOMAIN file' : i <= k /\ file'[k] = EndOf(q)
      BY DEF LinesEnded, EndOf
    <3>1. q # r /\ work[q] \in {"logged", "done"} /\ i \in Records(q)
      BY <1>2, <2>4
    <3>2. PICK k \in DOMAIN file : i <= k /\ file[k] = EndOf(q)
      BY <2>1, <3>1 DEF LinesEnded
    <3> QED BY <2>3, <3>2
  <2>8. LinesApart'
    <3> SUFFICES ASSUME NEW p \in Request, NEW q \in Request,
                        p # q, Process(p) = Process(q),
                        NEW i \in Records(p)', NEW j \in Records(q)', i < j
                 PROVE  \E k \in i..j : file'[k] = EndOf(p)
      BY DEF LinesApart, EndOf, Process
    <3>1. p # r
      <4> SUFFICES ASSUME p = r PROVE FALSE
        OBVIOUS
      <4>1. i = n /\ j \in DOMAIN file
        BY <2>4, <2>5
      <4> QED BY <2>3, <4>1
    <3>2. i \in Records(p) /\ i \in DOMAIN file
      BY <2>4, <2>5, <3>1
    <3>3. CASE q = r
      <4>1. work[p] \notin {"writing", "ending"}
        BY <1>1, <3>1, <3>3 DEF LogInv, WritesAlone
      <4>2. work[p] \in {"logged", "done"}
        BY <2>1, <3>2, <4>1 DEF RecordedOnce
      <4>3. PICK k \in DOMAIN file : i <= k /\ file[k] = EndOf(p)
        BY <2>1, <3>2, <4>2 DEF LinesEnded
      <4>4. j = n /\ k < n /\ file'[k] = file[k] /\ k \in Nat /\ i \in Nat
        BY <2>3, <2>4, <3>2, <3>3
      <4>5. k \in i..j
        BY <2>3, <4>3, <4>4
      <4> QED BY <4>3, <4>4, <4>5
    <3>4. CASE q # r
      <4>1. j \in Records(q) /\ j \in DOMAIN file
        BY <2>4, <2>5, <3>4
      <4>2. PICK k \in i..j : file[k] = EndOf(p)
        BY <2>1, <3>2, <4>1 DEF LinesApart
      <4>3. k \in DOMAIN file
        BY <3>2, <4>1, <4>2 DEF LogInv, LogTypes
      <4> QED BY <2>3, <4>2, <4>3
    <3> QED BY <3>3, <3>4
  <2> QED BY <2>6, <2>7, <2>8
<1> QED BY <1>4, <1>7, <1>8 DEF LogInv

LEMMA WriteNewlineKeepsLog ==
  ASSUME LogInv, NEW r \in Request, WriteNewline(r)
  PROVE  LogInv'
<1>1. /\ work[r] = "ending" /\ Enter(r, "logged")
      /\ writer' = [writer EXCEPT ![Process(r)] = NoOne]
      /\ UNCHANGED <<verdict, feed>>
      /\ \/ file' = Append(file, EndOf(r)) /\ UNCHANGED trouble
         \/ trouble' /\ UNCHANGED file
  BY DEF WriteNewline, Fails
<1>2. /\ work' \in [Request -> Stage] /\ work'[r] = "logged"
      /\ \A q \in Request \ {r} : work'[q] = work[q]
  BY <1>1, StageMoves DEF LogInv, LogTypes, Stage
<1>3. file' \in Seq(LogEntry)
  BY <1>1, EntriesDiffer, FileGrows DEF LogInv, LogTypes
<1>4. \A q \in Request : Process(q) \in {"dashboard", "proxy"}
  BY DEF Process
<1>5. /\ writer' \in [{"dashboard", "proxy"} -> Request \cup {NoOne}]
      /\ \A q \in Request : Process(q) # Process(r) =>
            writer'[Process(q)] = writer[Process(q)]
  BY <1>1, <1>4 DEF LogInv, LogTypes
<1>6. WritesAlone'
  <2> SUFFICES ASSUME NEW q \in Request, work'[q] \in {"writing", "ending"}
               PROVE  writer'[Process(q)] = q
    BY DEF WritesAlone, Process
  <2>1. q # r /\ work[q] \in {"writing", "ending"}
    BY <1>2
  <2>2. writer[Process(q)] = q /\ writer[Process(r)] = r
    BY <1>1, <2>1 DEF LogInv, WritesAlone
  <2> QED BY <1>5, <2>1, <2>2
<1>7. LogTypes'
  BY <1>1, <1>2, <1>3, <1>5 DEF LogInv, LogTypes
<1>8. UNCHANGED <<alerts, blocks>> /\ UNCHANGED verdict
  BY <1>1 DEF feed
<1>9. \A q \in Managed : work'[q] = "done" <=> work[q] = "done"
  BY <1>1, <1>2 DEF Request
<1>10. CountsLogged'
  BY <1>8, <1>9, CountsKept DEF LogInv
<1>11. ASSUME ~trouble' PROVE RecordedOnce' /\ LinesEnded' /\ LinesApart'
  <2>1. file' = Append(file, EndOf(r)) /\ RecordedOnce /\ LinesEnded /\ LinesApart
    BY <1>1, <1>11 DEF LogInv
  <2>2. PICK n : n = Len(file) + 1
    OBVIOUS
  <2>3. /\ n \in Nat /\ DOMAIN file' = DOMAIN file \cup {n}
        /\ \A k \in DOMAIN file : k \in Nat /\ k < n /\ file'[k] = file[k]
        /\ file'[n] = EndOf(r)
        /\ \A q : Records(q)' = IF EndOf(r) = Record(q) THEN Records(q) \cup {n}
                                                        ELSE Records(q)
    BY <2>1, <2>2, EntriesDiffer, FileGrows DEF LogInv, LogTypes
  <2>4. \A q \in Request : Records(q)' = Records(q)
    BY <2>3, EntriesDiffer
  <2>5. \A q : Records(q) \subseteq DOMAIN file
    BY DEF Records
  <2>6. RecordedOnce'
    <3> SUFFICES ASSUME NEW q \in Request
                 PROVE  IF work'[q] \in {"ending", "logged", "done"}
                        THEN \E k \in DOMAIN file' : Records(q)' = {k}
                        ELSE Records(q)' = {}
      BY DEF RecordedOnce
    <3>1. work'[q] \in {"ending", "logged", "done"}
            <=> work[q] \in {"ending", "logged", "done"}
      BY <1>1, <1>2
    <3> QED BY <2>1, <2>3, <2>4, <3>1 DEF RecordedOnce
  <2>7. LinesEnded'
    <3> SUFFICES ASSUME NEW q \in Request, work'[q] \in {"logged", "done"},
                        NEW i \in Records(q)'
                 PROVE  \E k \in DOMAIN file' : i <= k /\ file'[k] = EndOf(q)
      BY DEF LinesEnded, EndOf
    <3>1. i \in Records(q) /\ i \in DOMAIN file
      BY <2>4, <2>5
    <3>2. CASE q = r
      BY <2>3, <3>1, <3>2
    <3>3. CASE q # r
      <4>1. PICK k \in DOMAIN file : i <= k /\ file[k] = EndOf(q)
        BY <1>2, <2>1, <3>1, <3>3 DEF LinesEnded
      <4> QED BY <2>3, <4>1
    <3> QED BY <3>2, <3>3
  <2>8. LinesApart'
    <3> SUFFICES ASSUME NEW p \in Request, NEW q \in Request,
                        p # q, Process(p) = Process(q),
                        NEW i \in Records(p)', NEW j \in Records(q)', i < j
                 PROVE  \E k \in i..j : file'[k] = EndOf(p)
      BY DEF LinesApart, EndOf, Process
    <3>1. i \in Records(p) /\ j \in Records(q) /\ i \in DOMAIN file /\ j \in DOMAIN file
      BY <2>4, <2>5
    <3>2. PICK k \in i..j : file[k] = EndOf(p)
      BY <2>1, <3>1 DEF LinesApart
    <3>3. k \in DOMAIN file
      BY <3>1, <3>2 DEF LogInv, LogTypes
    <3> QED BY <2>3, <3>2, <3>3
  <2> QED BY <2>6, <2>7, <2>8
<1> QED BY <1>6, <1>7, <1>10, <1>11 DEF LogInv

\* An alert or block of the managed proxy is counted once, when it is handed on.
LEMMA DecidedKeepsLog ==
  ASSUME LogInv, NEW r \in Request, Decided(r)
  PROVE  LogInv'
<1>1. /\ work[r] = "logged" /\ Enter(r, "done")
      /\ UNCHANGED <<writer, file, trouble>>
  BY DEF Decided
<1>2. /\ work' \in [Request -> Stage] /\ work'[r] = "done"
      /\ \A q \in Request \ {r} : work'[q] = work[q]
  BY <1>1, StageMoves DEF LogInv, LogTypes, Stage
<1>3. LogTypes' /\ WritesAlone'
  BY <1>1, <1>2 DEF LogInv, LogTypes, WritesAlone, Decided
<1>4. CountsLogged'
  <2>1. CASE r \in Managed
    <3>1. PICK v \in {"clean", "alert", "blocked"} :
            /\ verdict' = [verdict EXCEPT ![r] = v]
            /\ IF v = "clean" THEN UNCHANGED feed ELSE Add([type |-> v, of |-> r])
      BY <2>1 DEF Decided
    <3>2. verdict'[r] = v /\ \A q \in Request \ {r} : verdict'[q] = verdict[q]
      BY <3>1 DEF LogInv, LogTypes
    <3>3. \A u : /\ r \notin Shown(u)
                 /\ Shown(u)' = IF u = v THEN Shown(u) \cup {r} ELSE Shown(u)
      <4>1. \A q \in Managed : work'[q] = "done" <=> (q = r \/ work[q] = "done")
        BY <1>2 DEF Request
      <4>2. \A q \in Managed : q # r => verdict'[q] = verdict[q]
        BY <3>2 DEF Request
      <4> QED BY <1>1, <2>1, <3>2, <4>1, <4>2 DEF Shown
    <3>4. \A u : Cardinality(Shown(u)') =
                   Cardinality(Shown(u)) + (IF u = v THEN 1 ELSE 0)
      BY <3>3, CountsFinite, FS_AddElement
    <3>5. /\ alerts = Cardinality(Shown("alert")) /\ alerts \in Nat
          /\ blocks = Cardinality(Shown("blocked")) /\ blocks \in Nat
      BY CountsFinite DEF LogInv, CountsLogged
    <3>6. /\ alerts' = alerts + (IF v = "alert" THEN 1 ELSE 0)
          /\ blocks' = blocks + (IF v = "blocked" THEN 1 ELSE 0)
      <4>1. CASE v = "clean"
        BY <3>1, <3>5, <4>1 DEF feed
      <4>2. CASE v # "clean"
        <5>1. [type |-> v, of |-> r].type = v
          OBVIOUS
        <5> QED BY <3>1, <4>2, <5>1 DEF Add, Count
      <4> QED BY <4>1, <4>2
    <3>7. /\ Cardinality(Shown("alert")') = alerts + (IF v = "alert" THEN 1 ELSE 0)
          /\ Cardinality(Shown("blocked")') = blocks + (IF v = "blocked" THEN 1 ELSE 0)
      BY <3>4, <3>5
    <3> QED BY <3>6, <3>7 DEF CountsLogged
  <2>2. CASE r \notin Managed
    <3>1. UNCHANGED <<alerts, blocks, verdict>>
      BY <2>2 DEF Decided, feed
    <3>2. \A q \in Managed : work'[q] = "done" <=> work[q] = "done"
      BY <1>2, <2>2 DEF Request
    <3> QED BY <3>1, <3>2, CountsKept DEF LogInv
  <2> QED BY <2>1, <2>2
<1> QED BY <1>1, <1>3, <1>4, QuietKeepsLog DEF Stage

\* Steps that leave the requests and their log alone.
LEMMA LogUntouched ==
  ASSUME LogInv, UNCHANGED log, UNCHANGED <<alerts, blocks>>
  PROVE  LogInv'
<1>1. UNCHANGED <<work, verdict, writer, file, trouble>>
  BY DEF log
<1>2. CountsLogged'
  BY <1>1, CountsKept DEF LogInv
<1>3. LogTypes' /\ WritesAlone'
  BY <1>1 DEF LogInv, LogTypes, WritesAlone
<1>4. (~trouble => RecordedOnce /\ LinesEnded /\ LinesApart)'
  BY <1>1 DEF LogInv, RecordedOnce, LinesEnded, LinesApart, Records, Record, EndOf
<1> QED BY <1>2, <1>3, <1>4 DEF LogInv

\* As long as the file can be written, every decision handed on is in it as one
\* whole record on a line of its own; the counters agree with what was decided
\* (proxy.go:381-405).
THEOREM LogAgrees == Spec => []DecisionsRecorded
<1>1. Init => LogInv
  <2> SUFFICES ASSUME Init PROVE LogInv
    OBVIOUS
  <2>1. /\ work = [r \in Request |-> "new"] /\ verdict = [r \in Request |-> "none"]
        /\ writer = [p \in {"dashboard", "proxy"} |-> NoOne]
        /\ file = <<>> /\ alerts = 0 /\ blocks = 0
    BY DEF Init, LogInit, NewActivityLog
  <2>2. LogTypes /\ WritesAlone
    BY <2>1 DEF LogTypes, WritesAlone, Stage
  <2>3. \A v : Shown(v) = {}
    BY <2>1 DEF Shown, Request
  <2>4. CountsLogged
    BY <2>1, <2>3, FS_EmptySet DEF CountsLogged
  <2>5. \A r : Records(r) = {}
    BY <2>1 DEF Records
  <2>6. RecordedOnce /\ LinesEnded /\ LinesApart
    BY <2>1, <2>5 DEF RecordedOnce, LinesEnded, LinesApart
  <2> QED BY <2>2, <2>4, <2>6 DEF LogInv
<1>2. LogInv /\ [Next]_vars => LogInv'
  <2> SUFFICES ASSUME LogInv, [Next]_vars PROVE LogInv'
    OBVIOUS
  <2>1. CASE InSentinel(Watch)
    BY <2>1, LogUntouched DEF InSentinel, feed
  <2>2. ASSUME NEW r \in Request, RequestStep(r) PROVE LogInv'
    BY <2>2, ServeKeepsLog, LockKeepsLog, WriteRecordKeepsLog,
       WriteNewlineKeepsLog, DecidedKeepsLog DEF RequestStep
  <2>3. ASSUME NEW kind \in {"audit", "scan"}, Ask(kind) PROVE LogInv'
    <3>1. [type |-> kind, of |-> asked].type \notin {"alert", "blocked"}
      OBVIOUS
    <3> QED BY <2>3, <3>1, OthersNotCounted, LogUntouched DEF Ask, LogInv
  <2>4. CASE ClearActivity
    BY <2>4, LogUntouched DEF ClearActivity, Clear
  <2>5. CASE UNCHANGED vars
    BY <2>5, LogUntouched DEF vars, feed
  <2> QED BY <2>1, <2>2, <2>3, <2>4, <2>5 DEF Next, Dashboard
<1>3. LogInv => DecisionsRecorded
  <2> SUFFICES ASSUME LogInv PROVE DecisionsRecorded
    OBVIOUS
  <2>1. ASSUME ~trouble, NEW r \in Request, work[r] \in {"logged", "done"}
        PROVE  Cardinality(Records(r)) = 1
    <3>1. PICK k : Records(r) = {k}
      BY <2>1 DEF LogInv, RecordedOnce
    <3> QED BY <3>1, FS_Singleton
  <2> QED BY <2>1 DEF LogInv, LinesApart, DecisionsRecorded, RecordsWhole
<1> QED BY <1>1, <1>2, <1>3, PTL DEF Spec

-----------------------------------------------------------------------------
(* The sentinel *)

Reading == {"clean", "warn", "infected", "error"}

SentinelTypes ==
  /\ got \in Seq(Reading)
  /\ seen \in [Check -> Reading \cup {"none"}]
  /\ readings \in [Check -> Seq(Reading)]
  /\ told \in [Check -> Seq(Reading)]

\* What was last seen of a check is its last reading.
SeenIsLast ==
  \A c \in Check : seen[c] = IF readings[c] = <<>> THEN "none" ELSE Last(readings[c])

\* An audit has no more results than the build has checks.
AuditFits == Len(got) <= Len(Checks)

SentinelInv == SentinelTypes /\ AuditFits /\ SeenIsLast /\ AlertsFollowReadings

\* The alarming readings of a prefix are finitely many, and as many as their
\* places.
LEMMA AlarmingFacts ==
  ASSUME NEW s \in Seq(Reading), NEW k \in 0..Len(s)
  PROVE  /\ IsFiniteSet(Alarming(s, k))
         /\ Cardinality(Alarming(s, k)) \in 0..Cardinality(Alarming(s, Len(s)))
         /\ k \in Alarming(s, k) => Cardinality(Alarming(s, k)) # 0
<1>1. \A m \in 0..Len(s) : IsFiniteSet(Alarming(s, m))
                             /\ Cardinality(Alarming(s, m)) \in Nat
  <2> TAKE m \in 0..Len(s)
  <2>1. Alarming(s, m) \subseteq 1..m /\ IsFiniteSet(1..m)
    BY FS_Interval DEF Alarming
  <2> QED BY <2>1, FS_Subset, FS_CardinalityType
<1>2. Alarming(s, k) \subseteq Alarming(s, Len(s))
  BY DEF Alarming
<1>3. Cardinality(Alarming(s, k)) <= Cardinality(Alarming(s, Len(s)))
  BY <1>1, <1>2, FS_Subset
<1>4. k \in Alarming(s, k) => Cardinality(Alarming(s, k)) # 0
  BY <1>1, FS_EmptySet
<1> QED BY <1>1, <1>3, <1>4

\* One more reading, told exactly when it is alarming.
LEMMA AlarmsGrow ==
  ASSUME NEW s \in Seq(Reading), NEW t \in Seq(Reading), AlarmsOf(t, s),
         NEW e \in Reading
  PROVE  AlarmsOf(IF Alerting(e) THEN Append(t, e) ELSE t, Append(s, e))
<1> DEFINE n == Len(s) + 1
           u == IF Alerting(e) THEN Append(t, e) ELSE t
<1>1. /\ Append(s, e) \in Seq(Reading) /\ Len(Append(s, e)) = n /\ n \in Nat
      /\ Append(s, e)[n] = e /\ \A k \in 1..Len(s) : Append(s, e)[k] = s[k]
  OBVIOUS
<1>2. \A k \in 0..Len(s) : Alarming(Append(s, e), k) = Alarming(s, k)
  BY <1>1 DEF Alarming
<1>3. Alarming(Append(s, e), n) =
        IF Alerting(e) THEN Alarming(s, Len(s)) \cup {n} ELSE Alarming(s, Len(s))
  BY <1>1 DEF Alarming
<1>4. n \notin Alarming(s, Len(s)) /\ IsFiniteSet(Alarming(s, Len(s)))
  <2>1. Len(s) \in 0..Len(s) /\ n \notin 1..Len(s)
    OBVIOUS
  <2> QED BY <2>1, AlarmingFacts DEF Alarming
<1>5. Cardinality(Alarming(Append(s, e), n)) = Len(u)
  <2>1. CASE Alerting(e)
    <3>1. Cardinality(Alarming(s, Len(s)) \cup {n}) = Len(t) + 1
      BY <1>4, FS_AddElement DEF AlarmsOf
    <3>2. Len(u) = Len(t) + 1
      BY <2>1
    <3> QED BY <1>3, <2>1, <3>1, <3>2
  <2>2. CASE ~Alerting(e)
    BY <1>3, <2>2 DEF AlarmsOf
  <2> QED BY <2>1, <2>2
<1>6. ASSUME NEW k \in Alarming(Append(s, e), n)
      PROVE  u[Cardinality(Alarming(Append(s, e), k))] = Append(s, e)[k]
  <2>1. CASE k \in Alarming(s, Len(s))
    <3>1. k \in 1..Len(s) /\ k \in Alarming(s, k)
      BY <2>1 DEF Alarming
    <3>2. t[Cardinality(Alarming(s, k))] = s[k]
      BY <2>1 DEF AlarmsOf
    <3>3. Cardinality(Alarming(s, k)) \in 1..Len(t)
      BY <3>1, AlarmingFacts DEF AlarmsOf
    <3>4. u[Cardinality(Alarming(s, k))] = t[Cardinality(Alarming(s, k))]
      BY <3>3
    <3>5. Alarming(Append(s, e), k) = Alarming(s, k)
      BY <1>2, <3>1
    <3>6. Append(s, e)[k] = s[k]
      BY <1>1, <3>1
    <3> HIDE DEF u
    <3> QED BY <3>2, <3>4, <3>5, <3>6
  <2>2. CASE k \notin Alarming(s, Len(s))
    <3>1. k = n /\ Alerting(e)
      BY <1>3, <2>2
    <3>2. u = Append(t, e) /\ Cardinality(Alarming(Append(s, e), k)) = Len(t) + 1
      BY <1>5, <3>1
    <3> QED BY <1>1, <3>1, <3>2
  <2> QED BY <2>1, <2>2
<1> HIDE DEF u
<1> QED BY <1>1, <1>5, <1>6 DEF AlarmsOf, u

\* Every check of the build has a status, and its own place in an audit.
CheckName == {"proxy-env-vars", "processes", "scheduled-tasks", "dropped-files",
              "connections", "routes"}

LEMMA ChecksTyped ==
  /\ Checks \in Seq(CheckName)
  /\ \A c : c \in Check <=> \E k \in DOMAIN Checks : Checks[k] = c
<1>1. /\ <<"proxy-env-vars", "processes">> \in Seq(CheckName)
      /\ (IF Windows THEN <<"scheduled-tasks", "dropped-files">> ELSE <<>>)
            \in Seq(CheckName)
      /\ <<"connections">> \in Seq(CheckName)
      /\ (IF Windows THEN <<"routes">> ELSE <<>>) \in Seq(CheckName)
  <2>1. /\ <<"proxy-env-vars", "processes">> \in Seq(CheckName)
        /\ <<"scheduled-tasks", "dropped-files">> \in Seq(CheckName)
    BY DEF CheckName
  <2>2. /\ <<"connections">> \in Seq(CheckName) /\ <<"routes">> \in Seq(CheckName)
        /\ <<>> \in Seq(CheckName)
    BY DEF CheckName
  <2> QED BY <2>1, <2>2
<1>2. \A p, q \in Seq(CheckName) : p \o q \in Seq(CheckName)
  OBVIOUS
<1>3. Checks \in Seq(CheckName)
  <2>1. <<"proxy-env-vars", "processes">>
          \o (IF Windows THEN <<"scheduled-tasks", "dropped-files">> ELSE <<>>)
            \in Seq(CheckName)
    BY <1>1, <1>2
  <2>2. <<"proxy-env-vars", "processes">>
          \o (IF Windows THEN <<"scheduled-tasks", "dropped-files">> ELSE <<>>)
          \o <<"connections">> \in Seq(CheckName)
    BY <1>1, <1>2, <2>1
  <2> QED BY <1>1, <1>2, <2>2 DEF Checks
<1>4. \A c : c \in Check <=> \E k \in DOMAIN Checks : Checks[k] = c
  BY DEF Check, Range
<1> QED BY <1>3, <1>4

LEMMA StatusTyped ==
  ASSUME NEW k \in DOMAIN Checks
  PROVE  Status(Checks[k]) \in Reading
<1>1. Checks[k] \in CheckName
  BY ChecksTyped
<1> QED BY <1>1 DEF CheckName, Status, Flags, Command, Connections, Reading

\* A report tells what it reads anew, when it is alarming.
LEMMA ReportKeeps ==
  ASSUME SentinelInv, Report
  PROVE  SentinelInv'
<1>1. ASSUME NEW c \in Check PROVE Result(c) \in Reading
  <2>1. \E k \in DOMAIN Checks : Checks[k] = c
    BY ChecksTyped
  <2>2. PICK k \in DOMAIN Checks : Result(c) = got[k]
    BY <2>1 DEF Result
  <2>3. k \in DOMAIN got
    BY <2>2, ChecksTyped DEF Report, Audited, SentinelInv, SentinelTypes
  <2> QED BY <2>2, <2>3 DEF SentinelInv, SentinelTypes
<1>2. /\ seen' = [c \in Check |-> Result(c)]
      /\ told' = [c \in Check |->
                    IF Alerting(Result(c)) /\ seen[c] # Result(c)
                    THEN Append(told[c], Result(c)) ELSE told[c]]
      /\ readings' = [c \in Check |-> Changed(readings[c], Result(c))]
      /\ got' = <<>>
  BY DEF Report, See
<1>3. ASSUME NEW c \in Check
      PROVE  /\ told'[c] \in Seq(Reading) /\ readings'[c] \in Seq(Reading)
             /\ seen'[c] \in Reading
             /\ readings'[c] # <<>> /\ Last(readings'[c]) = seen'[c]
             /\ AlarmsOf(told'[c], readings'[c])
  <2> DEFINE e == Result(c)
  <2>1. /\ readings[c] \in Seq(Reading) /\ told[c] \in Seq(Reading) /\ e \in Reading
        /\ AlarmsOf(told[c], readings[c])
        /\ seen[c] = IF readings[c] = <<>> THEN "none" ELSE Last(readings[c])
    BY <1>1 DEF SentinelInv, SentinelTypes, SeenIsLast, AlertsFollowReadings
  <2>2. /\ seen'[c] = e
        /\ told'[c] = IF Alerting(e) /\ seen[c] # e THEN Append(told[c], e) ELSE told[c]
        /\ readings'[c] = Changed(readings[c], e)
    BY <1>2
  <2> HIDE DEF e
  <2>3. CASE readings[c] # <<>> /\ Last(readings[c]) = e
    BY <2>1, <2>2, <2>3 DEF Changed
  <2>4. CASE ~(readings[c] # <<>> /\ Last(readings[c]) = e)
    <3>1. readings'[c] = Append(readings[c], e)
      BY <2>2, <2>4 DEF Changed
    <3>2. Alerting(e) => seen[c] # e
      BY <2>1, <2>4 DEF Alerting
    <3>3. told'[c] = IF Alerting(e) THEN Append(told[c], e) ELSE told[c]
      BY <2>2, <3>2
    <3>4. AlarmsOf(told'[c], readings'[c])
      BY <2>1, <3>1, <3>3, AlarmsGrow
    <3>5. /\ readings'[c] \in Seq(Reading) /\ readings'[c] # <<>>
          /\ Last(readings'[c]) = e
      BY <2>1, <3>1 DEF Last
    <3>6. told'[c] \in Seq(Reading)
      BY <2>1, <3>3
    <3> QED BY <2>1, <2>2, <3>4, <3>5, <3>6
  <2> QED BY <2>3, <2>4
<1>4. SentinelTypes'
  <2>1. got' \in Seq(Reading)
    BY <1>2
  <2>2. seen' \in [Check -> Reading \cup {"none"}]
    BY <1>1, <1>2
  <2>3. readings' \in [Check -> Seq(Reading)]
    <3>1. readings' = [c \in Check |-> readings'[c]]
      BY <1>2
    <3> QED BY <1>3, <3>1
  <2>4. told' \in [Check -> Seq(Reading)]
    <3>1. told' = [c \in Check |-> told'[c]]
      BY <1>2
    <3> QED BY <1>3, <3>1
  <2> QED BY <2>1, <2>2, <2>3, <2>4 DEF SentinelTypes, Check, Checks
<1>5. SeenIsLast'
  BY <1>3 DEF SeenIsLast, Check, Checks
<1>6. AlertsFollowReadings'
  BY <1>3 DEF AlertsFollowReadings, Check, Checks
<1>7. AuditFits'
  <2>1. Len(got') = 0 /\ Len(Checks) \in Nat /\ UNCHANGED Checks
    BY <1>2, ChecksTyped DEF Checks
  <2> QED BY <2>1 DEF AuditFits
<1> QED BY <1>4, <1>5, <1>6, <1>7 DEF SentinelInv

\* A check is told exactly when an audit finds it alarming and the audit before
\* did not find it in the same state (sentinel.go, Monitor).
THEOREM AlertsAreReadings == Spec => []AlertsFollowReadings
<1>1. Init => SentinelInv
  <2> SUFFICES ASSUME Init PROVE SentinelInv
    OBVIOUS
  <2>1. /\ got = <<>> /\ seen = [c \in Check |-> "none"]
        /\ readings = [c \in Check |-> <<>>] /\ told = [c \in Check |-> <<>>]
    BY DEF Init, WatchInit
  <2>2. SentinelTypes /\ AuditFits /\ SeenIsLast
    <3>1. Len(got) = 0 /\ Len(Checks) \in Nat
      BY <2>1, ChecksTyped
    <3> QED BY <2>1, <3>1 DEF SentinelTypes, AuditFits, SeenIsLast
  <2>3. Alarming(<<>>, 0) = {}
    BY DEF Alarming
  <2>4. AlertsFollowReadings
    BY <2>1, <2>3, FS_EmptySet DEF AlertsFollowReadings, AlarmsOf
  <2> QED BY <2>2, <2>4 DEF SentinelInv
<1>2. SentinelInv /\ [Next]_vars => SentinelInv'
  <2> SUFFICES ASSUME SentinelInv, [Next]_vars PROVE SentinelInv'
    OBVIOUS
  <2>1. ASSUME got' \in Seq(Reading), AuditFits', UNCHANGED <<seen, readings, told>>
        PROVE  SentinelInv'
    BY <2>1 DEF SentinelInv, SentinelTypes, SeenIsLast, AlertsFollowReadings,
                Check, Checks
  <2>2. Len(Checks) \in Nat /\ DOMAIN Checks = 1..Len(Checks) /\ UNCHANGED Checks
    BY ChecksTyped DEF Checks
  <2>3. CASE RunCheck
    <3>1. /\ got \in Seq(Reading) /\ Len(got) <= Len(Checks)
          /\ Len(got) # Len(Checks)
      BY <2>3 DEF RunCheck, Audited, SentinelInv, SentinelTypes, AuditFits
    <3>2. Len(got) + 1 \in DOMAIN Checks
      BY <2>2, <3>1
    <3>3. /\ got' = Append(got, Status(Checks[Len(got) + 1]))
          /\ Status(Checks[Len(got) + 1]) \in Reading
      BY <2>3, <3>2, StatusTyped DEF RunCheck
    <3>4. got' \in Seq(Reading) /\ Len(got') = Len(got) + 1
      BY <3>1, <3>3
    <3>5. AuditFits'
      BY <2>2, <3>1, <3>2, <3>4 DEF AuditFits
    <3> QED BY <2>1, <2>3, <3>4, <3>5 DEF RunCheck
  <2>4. CASE Printed
    <3>1. got' = <<>> /\ UNCHANGED <<seen, readings, told>>
      BY <2>4 DEF Printed
    <3>2. AuditFits'
      BY <2>2, <3>1 DEF AuditFits
    <3> QED BY <2>1, <3>1, <3>2
  <2>5. CASE Report
    BY <2>5, ReportKeeps
  <2>6. ASSUME UNCHANGED <<got, seen, readings, told>> PROVE SentinelInv'
    BY <2>1, <2>2, <2>6 DEF SentinelInv, SentinelTypes, AuditFits
  <2>7. CASE Tick \/ Wake \/ Stop \/ Cancel \/ Change
    BY <2>6, <2>7 DEF Tick, Wake, Stop, Cancel, Change
  <2>8. CASE UNCHANGED watch
    BY <2>6, <2>8 DEF watch
  <2>9. CASE UNCHANGED vars
    BY <2>8, <2>9 DEF vars
  <2>10. CASE Next
    BY <2>3, <2>4, <2>5, <2>7, <2>8, <2>10 DEF Next, InSentinel, Watch
  <2> QED BY <2>9, <2>10
<1>3. SentinelInv => AlertsFollowReadings
  BY DEF SentinelInv
<1> QED BY <1>1, <1>2, <1>3, PTL DEF Spec
=============================================================================
