--------------------------- MODULE ProviderStore ---------------------------
(***************************************************************************)
(* The provider profiles of the dashboard: type ProviderStore in           *)
(* internal/dashboard/dashboard.go, a list in memory that every change     *)
(* rewrites to a JSON file.  Every operation holds the mutex to its end,   *)
(* so an operation is one step; the rewrite inside it may fail, or the     *)
(* process may die during it.  The file is truncated before it is written, *)
(* so what was there may be lost as well.                                  *)
(***************************************************************************)
EXTENDS Naturals, Sequences

CONSTANTS
  Body,         \* name, base URL, model and tags that validateProvider accepts
  BadBody,      \* ... that it rejects
  NoId,         \* the empty id
  WordId,       \* ids that do not start with a number
  MaxImportId,  \* largest number an imported id may be
  MaxImport,    \* bound on the length of an imported list
  MaxProfiles   \* bound on the profiles ever created

ASSUME BodyAssumption == BadBody \notin Body
ASSUME IdAssumption == NoId \notin Nat \cup WordId /\ WordId \cap Nat = {}
ASSUME ImportAssumption == MaxImportId \in Nat /\ MaxImport \in Nat /\ MaxProfiles \in Nat

VARIABLES
  list,      \* the profiles in memory
  next,      \* the next id to give out
  disk,      \* providers.json
  running,   \* the dashboard process is up
  created,   \* history: number of profiles ever created, the next serial
  agreed,    \* history: the list as the last successful operation left it
  result,    \* history: how the last step ended for the caller
  trouble,   \* history: a write of the file has failed or was interrupted
  disorder   \* history: an import with repeated ids, or with an explicit id
             \* after an entry without one

history == <<created, agreed, result, trouble, disorder>>
storeVars == <<list, next, disk, running, history>>

-----------------------------------------------------------------------------
(* Profiles and their ids *)

Profile(id, b, sn) == [id |-> id, body |-> b, serial |-> sn]

\* fmt.Sscanf(id, "%d"): zero for an id that is no number.
Number(id) == IF id \in Nat THEN id ELSE 0

Largest(S) == CHOOSE n \in S \cup {0} : \A m \in S : m <= n

MaxID(l) == Largest({Number(l[i].id) : i \in DOMAIN l})

Holders(id) == {i \in DOMAIN list : list[i].id = id}
First(id)   == CHOOSE i \in Holders(id) : \A j \in Holders(id) : i <= j

Get(id) == list[First(id)]

-----------------------------------------------------------------------------
(* The file *)

\* A missing or an empty file holds no profiles; a torn one does not parse.
File(l) == [whole |-> TRUE, list |-> l]
Torn    == [whole |-> FALSE, list |-> <<>>]

\* How the rewrite of the file ends.
Outcome == {"ok", "error", "crash"}

\* save, called with the list l.
Save(l, o) ==
  /\ disk' \in CASE o = "ok"    -> {File(l)}
                 [] o = "error" -> {disk, File(<<>>), Torn}
                 [] o = "crash" -> {disk, File(<<>>), Torn, File(l)}
  /\ running' = (o # "crash")
  /\ trouble' = (trouble \/ o # "ok")

\* What the caller is told, and may rely on from then on.
Report(o, l) ==
  /\ result' = o
  /\ agreed' = IF o = "ok" THEN l ELSE agreed

NoSave == UNCHANGED <<disk, running, trouble>>

-----------------------------------------------------------------------------
(* Operations *)

\* Mutant: the new profile is not written to the file.
AddUnsaved(b, o) ==
  /\ running
  /\ created < MaxProfiles
  /\ list' = Append(list, Profile(next, b, created))
  /\ next' = next + 1
  /\ created' = created + 1
  /\ NoSave
  /\ Report("ok", list')
  /\ UNCHANGED disorder

Add(b, o) ==
  /\ running
  /\ created < MaxProfiles
  /\ list' = Append(list, Profile(next, b, created))
  /\ next' = next + 1
  /\ created' = created + 1
  /\ Save(list', o)
  /\ Report(o, list')
  /\ UNCHANGED disorder

\* Remove does not look at the error of save.
Remove(id, o) ==
  LET i == First(id) IN
  /\ running
  /\ Holders(id) # {}
  /\ list' = SubSeq(list, 1, i - 1) \o SubSeq(list, i + 1, Len(list))
  /\ Save(list', o)
  /\ Report(IF o = "error" THEN "ok" ELSE o, list')
  /\ UNCHANGED <<next, created, disorder>>

\* Mutant: the entry is not put back when save fails.
UpdateKept(id, b, o) ==
  /\ running
  /\ Holders(id) # {}
  /\ b \in Body
  /\ list' = [list EXCEPT ![First(id)].body = b]
  /\ Save(list', o)
  /\ Report(o, list')
  /\ UNCHANGED <<next, created, disorder>>

\* Update puts the entry back when the new profile is invalid or save fails.
Update(id, b, o) ==
  LET new == [list EXCEPT ![First(id)].body = b] IN
  /\ running
  /\ Holders(id) # {}
  /\ IF b \in Body
     THEN /\ Save(new, o)
          /\ list' = IF o = "error" THEN list ELSE new
          /\ Report(o, new)
     ELSE NoSave /\ Report("error", list) /\ UNCHANGED list
  /\ UNCHANGED <<next, created, disorder>>

-----------------------------------------------------------------------------
(* ReplaceAll *)

Import == [id : {NoId} \cup (1..MaxImportId) \cup WordId, body : Body]

\* maxID after the first i entries: an entry without id gets the next number.
MaxAfter(l) ==
  LET f[i \in 0..Len(l)] ==
        IF i = 0 THEN 0
        ELSE IF l[i].id = NoId THEN f[i - 1] + 1
        ELSE Largest({f[i - 1], Number(l[i].id)})
  IN f

Cleaned(l) ==
  [i \in DOMAIN l |->
     Profile(IF l[i].id = NoId THEN MaxAfter(l)[i] ELSE l[i].id,
             l[i].body, created + i - 1)]

\* Mutant: only the last entry decides about the next id.
NextAfterLast(l) == IF l = <<>> THEN 1 ELSE Number(Cleaned(l)[Len(l)].id) + 1

NextAfter(l) == MaxAfter(l)[Len(l)] + 1

Disorderly(l) ==
  \E i, j \in DOMAIN l :
    i < j /\ l[j].id # NoId /\ l[i].id \in {NoId, l[j].id}

\* A list with an invalid entry is refused as a whole; otherwise the list is
\* replaced, whether or not it can be saved.
ReplaceAll(l, o) ==
  /\ running
  /\ created + Len(l) <= MaxProfiles
  /\ list' = Cleaned(l)
  /\ next' = NextAfter(l)
  /\ Save(list', o)
  /\ created' = created + Len(l)
  /\ Report(o, list')
  /\ disorder' = (disorder \/ Disorderly(l))

-----------------------------------------------------------------------------
(* The process *)

Crash ==
  /\ running
  /\ running' = FALSE
  /\ result' = "none"
  /\ UNCHANGED <<list, next, disk, created, agreed, trouble, disorder>>

NextOnLoad(l) == MaxID(l) + 1

\* LoadProvidersFile; with a torn file the dashboard does not start.
Load ==
  /\ ~running
  /\ disk.whole
  /\ running' = TRUE
  /\ list' = disk.list
  /\ next' = NextOnLoad(disk.list)
  /\ result' = "none"
  /\ UNCHANGED <<disk, created, agreed, trouble, disorder>>

StoreInit ==
  /\ list = <<>> /\ next = 1
  /\ disk = File(<<>>)
  /\ running = TRUE
  /\ created = 0 /\ agreed = <<>> /\ result = "none"
  /\ trouble = FALSE /\ disorder = FALSE

Imports == UNION {[1..n -> Import] : n \in 0..MaxImport}

StoreNext ==
  \/ \E o \in Outcome :
       \/ \E b \in Body : Add(b, o)
       \/ \E i \in DOMAIN list :
            \/ Remove(list[i].id, o)
            \/ \E b \in Body \cup {BadBody} : Update(list[i].id, b, o)
       \/ \E l \in Imports : ReplaceAll(l, o)
  \/ Crash
  \/ Load

StoreSpec == StoreInit /\ [][StoreNext]_storeVars

-----------------------------------------------------------------------------
(* Properties *)

\* Profiles keep distinct ids, unless an import repeats an id or names one after
\* an entry it left without (dashboard.go:285-288).
UniqueIds ==
  ~disorder => \A i, j \in DOMAIN list : list[i].id = list[j].id => i = j

\* What the operations reported is what a restart finds, as long as the file
\* could always be written.
ChangesSurvive == running /\ ~trouble => list = agreed

\* An update that fails changes no profile in memory (dashboard.go:260-267).
SameEntries ==
  \A i \in DOMAIN list, j \in DOMAIN list' :
    list[i].serial = list'[j].serial => list[i] = list'[j]
FailedUpdateUndone == [][result' = "error" => SameEntries]_storeVars
=============================================================================
