------------------------------ MODULE Sentinel ------------------------------
(***************************************************************************)
(* The watch on the host: `holone sentinel`, which audits once for the     *)
(* terminal and then runs Monitor in internal/sentinel/sentinel.go.  The   *)
(* checks of an audit run one after another, each at its own time, while   *)
(* the host changes; most read the output of a system command, which may   *)
(* be missing, fail, or take too long.                                     *)
(***************************************************************************)
EXTENDS Naturals, SequencesExt, FiniteSets

CONSTANTS
  Windows,    \* the Windows build, which has the most checks
  Changing,   \* what may come and go on the host while the sentinel runs
  MaxChanges  \* bound on how often it does

\* What may be true of the host; "no ..." says that a command yields nothing.
Fact == {"proxy variable", "bad process", "bad task", "dropped file",
         "bad address", "public socks", "bad route",
         "no processes", "no tasks", "no connections", "no routes"}

\* The environment of a process does not change under it.
ASSUME SentinelAssumption ==
  /\ Windows \in BOOLEAN /\ MaxChanges \in Nat
  /\ Changing \subseteq Fact \ {"proxy variable"}

VARIABLES
  host,       \* the facts that are true now
  changes,    \* bound: changes of the host so far
  cancelled,  \* the context: the user has asked for the end
  pc,         \* "printing", "auditing", "waiting", "stopped"
  got,        \* results of the audit under way
  seen,       \* per check, the status last read
  ticked,     \* a tick lies in the channel of the ticker
  readings,   \* history: per check, its status at every audit that changed it
  told        \* history: per check, the alerts given

watch == <<host, changes, cancelled, pc, got, seen, ticked, readings, told>>

-----------------------------------------------------------------------------
(* One audit *)

Checks ==
  <<"proxy-env-vars", "processes">>
    \o (IF Windows THEN <<"scheduled-tasks", "dropped-files">> ELSE <<>>)
    \o <<"connections">>
    \o (IF Windows THEN <<"routes">> ELSE <<>>)

Check == Range(Checks)

Flags(fact, status) == IF fact \in host THEN status ELSE "clean"

\* A check that runs a command; with the context cancelled it is not run.
Command(without, status) ==
  IF cancelled \/ without \in host THEN "error" ELSE status

\* analyzeConnections
Connections ==
  IF "bad address" \in host THEN "infected" ELSE Flags("public socks", "warn")

Status(c) ==
  CASE c = "proxy-env-vars"  -> Flags("proxy variable", "warn")
    [] c = "processes"       -> Command("no processes", Flags("bad process", "infected"))
    [] c = "scheduled-tasks" -> Command("no tasks", Flags("bad task", "infected"))
    [] c = "dropped-files"   -> Flags("dropped file", "infected")
    [] c = "connections"     -> Command("no connections", Connections)
    [] c = "routes"          -> Command("no routes", Flags("bad route", "warn"))

\* Mutant: a check that could not run is not told.
AlertingFound(s) == s \in {"infected", "warn"}

Alerting(s) == s \in {"infected", "warn", "error"}

Audited == Len(got) = Len(Checks)

RunCheck ==
  /\ pc \in {"printing", "auditing"} /\ ~Audited
  /\ got' = Append(got, Status(Checks[Len(got) + 1]))
  /\ UNCHANGED <<host, changes, cancelled, pc, seen, ticked, readings, told>>

Result(c) == LET k == CHOOSE k \in DOMAIN Checks : Checks[k] = c IN got[k]

-----------------------------------------------------------------------------
(* The commands around it *)

\* cmdSentinel prints the first audit; Monitor starts over with one of its own.
Printed ==
  /\ pc = "printing" /\ Audited
  /\ pc' = "auditing"
  /\ got' = <<>>
  /\ UNCHANGED <<host, changes, cancelled, seen, ticked, readings, told>>

\* Mutant: only what was flagged is remembered.
SeeFlagged(c) == IF Alerting(Result(c)) THEN Result(c) ELSE seen[c]

See(c) == Result(c)

Changed(s, r) == IF s # <<>> /\ Last(s) = r THEN s ELSE Append(s, r)

\* The loop over the results, then select.
Report ==
  /\ pc = "auditing" /\ Audited
  /\ pc' = "waiting"
  /\ seen' = [c \in Check |-> See(c)]
  /\ told' = [c \in Check |->
                IF Alerting(Result(c)) /\ seen[c] # Result(c)
                THEN Append(told[c], Result(c)) ELSE told[c]]
  /\ readings' = [c \in Check |-> Changed(readings[c], Result(c))]
  /\ got' = <<>>
  /\ UNCHANGED <<host, changes, cancelled, ticked>>

\* The channel of the ticker holds one tick, further ones are dropped; the
\* ticker is made after the first run.
Tick ==
  /\ pc \in {"auditing", "waiting"} /\ \E c \in Check : readings[c] # <<>>
  /\ ~ticked
  /\ ticked' = TRUE
  /\ UNCHANGED <<host, changes, cancelled, pc, got, seen, readings, told>>

Wake ==
  /\ pc = "waiting" /\ ticked
  /\ ticked' = FALSE
  /\ pc' = "auditing"
  /\ UNCHANGED <<host, changes, cancelled, got, seen, readings, told>>

Stop ==
  /\ pc = "waiting" /\ cancelled
  /\ pc' = "stopped"
  /\ UNCHANGED <<host, changes, cancelled, got, seen, ticked, readings, told>>

Cancel ==
  /\ ~cancelled
  /\ cancelled' = TRUE
  /\ UNCHANGED <<host, changes, pc, got, seen, ticked, readings, told>>

Change ==
  /\ changes < MaxChanges
  /\ changes' = changes + 1
  /\ \E f \in Changing : host' = SymDiff(host, {f})
  /\ UNCHANGED <<cancelled, pc, got, seen, ticked, readings, told>>

WatchInit ==
  /\ host \in {S \in SUBSET Fact : Cardinality(S) <= 1}
  /\ changes = 0
  /\ cancelled = FALSE
  /\ pc = "printing"
  /\ got = <<>>
  /\ seen = [c \in Check |-> "none"]
  /\ ticked = FALSE
  /\ readings = [c \in Check |-> <<>>]
  /\ told = [c \in Check |-> <<>>]

Watch == RunCheck \/ Printed \/ Report \/ Tick \/ Wake \/ Stop \/ Cancel \/ Change

-----------------------------------------------------------------------------
(* Properties *)

\* A check is reported exactly when an audit finds it flagged and the audit
\* before did not find it in the same state: once while it stays, again when it
\* comes back, and when its kind changes.  Told are the alarming readings, each
\* at the place it has among them.
Alarming(s, k) == {j \in 1..k : Alerting(s[j])}
AlarmsOf(t, s) ==
  /\ Len(t) = Cardinality(Alarming(s, Len(s)))
  /\ \A k \in Alarming(s, Len(s)) : t[Cardinality(Alarming(s, k))] = s[k]
AlertsFollowReadings == \A c \in Check : AlarmsOf(told[c], readings[c])

\* What stays wrong with the host is told: a check that comes to say something
\* alarming and keeps saying it is the last told of that check, unless the
\* sentinel was stopped.
FlaggedIsTold ==
  \A c \in Check : \A s \in {"infected", "warn", "error"} :
    <>[](Status(c) = s)
      => <>[](pc = "stopped" \/ (told[c] # <<>> /\ Last(told[c]) = s))
=============================================================================
