----------------------------- MODULE AuditLog ------------------------------
(***************************************************************************)
(* What becomes of a decision: report in internal/proxy/proxy.go writes it *)
(* to the log and hands it on, to the feed of the dashboard or to the      *)
(* terminal.  A Logger writes a record and its newline one after the other *)
(* under the mutex of its process; a dashboard and a standalone proxy use  *)
(* the same file unless told otherwise, and append to it.                  *)
(***************************************************************************)
EXTENDS ActivityLog, FiniteSets

CONSTANTS
  Managed,     \* requests to the proxy of the dashboard
  Standalone,  \* requests to a `holone proxy` beside it
  NoOne        \* the mutex is free

ASSUME RequestAssumption ==
  /\ NoOne \notin Managed \cup Standalone
  /\ Managed \cap Standalone = {}
  /\ IsFiniteSet(Managed)

Request    == Managed \cup Standalone
Process(r) == IF r \in Managed THEN "dashboard" ELSE "proxy"

VARIABLES
  work,     \* per request: "new", "served", "writing", "ending", "logged", "done"
  verdict,  \* per managed request, once handed on
  writer,   \* per process: the request that holds the mutex of its Logger
  file,     \* the log: records by their request, newlines, and torn records
  trouble   \* a write has failed

log == <<work, verdict, writer, file, trouble>>

Newline == "newline"
Torn    == "torn"
Record(r)    == [of |-> "record", by |-> r]
EndOf(r)     == [of |-> Newline, by |-> r]
TornOf(r)    == [of |-> Torn, by |-> r]

LogInit ==
  /\ work = [r \in Request |-> "new"]
  /\ verdict = [r \in Request |-> "none"]
  /\ writer = [p \in {"dashboard", "proxy"} |-> NoOne]
  /\ file = <<>>
  /\ trouble = FALSE

Enter(r, stage) == work' = [work EXCEPT ![r] = stage]

\* proxyActivityRecorder in front of the managed proxy; the standalone has none.
ServeRequest(r) ==
  /\ work[r] = "new"
  /\ Enter(r, "served")
  /\ IF r \in Managed THEN Add([type |-> "request", of |-> r]) ELSE UNCHANGED feed
  /\ UNCHANGED <<verdict, writer, file, trouble>>

\* Mutant: the mutex is not taken.
LockNothing(r) ==
  /\ work[r] = "served"
  /\ Enter(r, "writing")
  /\ UNCHANGED <<verdict, writer, file, trouble, feed>>

\* report, up to the mutex of the Logger.
Lock(r) ==
  /\ work[r] = "served"
  /\ writer[Process(r)] = NoOne
  /\ writer' = [writer EXCEPT ![Process(r)] = r]
  /\ Enter(r, "writing")
  /\ UNCHANGED <<verdict, file, trouble, feed>>

\* Bound: one write fails.
Fails == ~trouble /\ trouble' = TRUE

\* The errors of both writes are ignored; a write that fails may have left
\* part of the record, or nothing.
WriteRecord(r) ==
  /\ work[r] = "writing"
  /\ \/ file' = Append(file, Record(r)) /\ UNCHANGED trouble
     \/ Fails /\ file' = Append(file, TornOf(r))
  /\ Enter(r, "ending")
  /\ UNCHANGED <<verdict, writer, feed>>

WriteNewline(r) ==
  /\ work[r] = "ending"
  /\ \/ file' = Append(file, EndOf(r)) /\ UNCHANGED trouble
     \/ Fails /\ UNCHANGED file
  /\ writer' = [writer EXCEPT ![Process(r)] = NoOne]
  /\ Enter(r, "logged")
  /\ UNCHANGED <<verdict, feed>>

\* OnDecision for a verdict other than clean: recordDecision adds to the feed;
\* printDecision of a standalone proxy only prints.
Decided(r) ==
  /\ work[r] = "logged"
  /\ Enter(r, "done")
  /\ IF r \in Managed
     THEN \E v \in {"clean", "alert", "blocked"} :
            /\ verdict' = [verdict EXCEPT ![r] = v]
            /\ IF v = "clean" THEN UNCHANGED feed ELSE Add([type |-> v, of |-> r])
     ELSE UNCHANGED <<verdict, feed>>
  /\ UNCHANGED <<writer, file, trouble>>

RequestStep(r) ==
  ServeRequest(r) \/ Lock(r) \/ WriteRecord(r) \/ WriteNewline(r) \/ Decided(r)

-----------------------------------------------------------------------------
(* Properties *)

\* As long as the file can be written, every decision handed on is in it as one
\* whole record, and two records of one process have a newline of that process
\* between them, so a line holds at most one record per process.
Records(r) == {k \in DOMAIN file : file[k] = Record(r)}
RecordsWhole ==
  /\ \A r \in Request : work[r] \in {"logged", "done"} => Cardinality(Records(r)) = 1
  /\ \A q, r \in Request :
       q # r /\ Process(q) = Process(r) =>
         \A i \in Records(q), j \in Records(r) :
           i < j => \E k \in i..j : file[k] = EndOf(q)

\* The counters of the status, which outlive what is evicted and cleared, count
\* the alerts and blocks of the managed proxy, each of them logged before.
Shown(v) == {r \in Managed : work[r] = "done" /\ verdict[r] = v}
CountsLogged ==
  alerts = Cardinality(Shown("alert")) /\ blocks = Cardinality(Shown("blocked"))

\* The log and the counters agree with what was decided (proxy.go:381-405).
DecisionsRecorded == (~trouble => RecordsWhole) /\ CountsLogged
=============================================================================
