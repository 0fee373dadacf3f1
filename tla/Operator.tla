------------------------------ MODULE Operator ------------------------------
(***************************************************************************)
(* What the operator runs beside the plain proxy: `holone sentinel`, or    *)
(* `holone dashboard`, whose scans, audits and managed proxy all end up in *)
(* the activity log (cmd/holone/main.go and the handlers of                *)
(* internal/dashboard/server.go).                                          *)
(***************************************************************************)
EXTENDS AuditLog, Sentinel

CONSTANT MaxCalls  \* bound on the scans, audits and clearings asked of the dashboard

VARIABLES
  command,  \* "sentinel" or "dashboard"
  asked     \* bound: scans, audits and clearings so far

vars == <<command, asked, feed, log, watch>>

Init ==
  /\ command \in {"sentinel", "dashboard"}
  /\ asked = 0
  /\ NewActivityLog /\ LogInit /\ WatchInit
  /\ command = "dashboard" => host = {}

\* GET /api/audit and POST /api/scan: the audit or scan, then its entry.  A scan
\* that fails adds none.
Ask(kind) ==
  /\ asked < MaxCalls
  /\ asked' = asked + 1
  /\ Add([type |-> kind, of |-> asked])
  /\ UNCHANGED log

\* DELETE /api/activity
ClearActivity ==
  /\ asked < MaxCalls
  /\ asked' = asked + 1
  /\ Clear
  /\ UNCHANGED log

Dashboard ==
  \/ \E r \in Request : RequestStep(r) /\ UNCHANGED asked
  \/ \E kind \in {"audit", "scan"} : Ask(kind)
  \/ ClearActivity

InSentinel(A) == command = "sentinel" /\ A /\ UNCHANGED <<command, asked, feed, log>>

Next ==
  \/ InSentinel(Watch)
  \/ command = "dashboard" /\ Dashboard /\ UNCHANGED <<command, watch>>

\* The process is scheduled, a command ends within its eight seconds, and the
\* ticker ticks.
Spec ==
  /\ Init /\ [][Next]_vars
  /\ WF_vars(InSentinel(RunCheck \/ Printed \/ Report))
  /\ WF_vars(InSentinel(Tick))
  /\ WF_vars(InSentinel(Wake \/ Stop))
=============================================================================
