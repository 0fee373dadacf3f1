----------------------------- MODULE CallGuard -----------------------------
(***************************************************************************)
(* What block mode promises about tool calls, whatever the protocol: a     *)
(* call is held from its first frame, it reaches the client only if        *)
(* nothing against it was found, its fate never changes, and the response  *)
(* does not end with a call still held, unless the client is gone, nor,    *)
(* once a call was dropped, without being reported as blocked.             *)
(*                                                                         *)
(* One step may read a frame that opens calls, taints them and settles     *)
(* several of them at once, so the step is described by what may become    *)
(* of each call.                                                           *)
(***************************************************************************)
EXTENDS Naturals, FiniteSets

CONSTANT Call

VARIABLES
  held,      \* calls withheld from the client
  sent,      \* calls released to the client
  dropped,   \* calls replaced or left out
  tainted,   \* calls that must not be released
  gone,      \* the client no longer takes data
  ended,     \* the response is complete and its verdict reported
  blocked    \* the verdict is "blocked"

guardVars == <<held, sent, dropped, tainted, gone, ended, blocked>>

Known == held \cup sent \cup dropped

Init ==
  /\ held = {} /\ sent = {} /\ dropped = {} /\ tainted = {}
  /\ gone = FALSE /\ ended = FALSE /\ blocked = FALSE

Disjoint ==
  held \cap sent = {} /\ held \cap dropped = {} /\ sent \cap dropped = {}

\* Calls enter the system held; the ones that leave the hold are settled.
Settle ==
  /\ held' \subseteq Call /\ sent' \subseteq Call /\ dropped' \subseteq Call
  /\ sent \subseteq sent' /\ dropped \subseteq dropped'
  /\ held \subseteq Known'
  /\ Disjoint'

\* A call becomes tainted before it is settled, never afterwards; only calls
\* that are not tainted are released.
Taint ==
  /\ tainted \subseteq tainted' /\ tainted' \subseteq Known'
  /\ (tainted' \ tainted) \cap (sent \cup dropped) = {}
  /\ (sent' \ sent) \cap tainted' = {}

Read ==
  /\ Settle /\ Taint
  /\ gone' \in {gone, TRUE} /\ blocked' \in {blocked, TRUE}
  /\ ended' = FALSE

End ==
  /\ Settle /\ Taint
  /\ gone' \in {gone, TRUE} /\ blocked' \in BOOLEAN
  /\ ended' = TRUE
  /\ held' = {} \/ gone'
  /\ dropped' # {} => blocked'

Next == ~ended /\ (Read \/ End)

Spec == Init /\ [][Next]_guardVars

-----------------------------------------------------------------------------
\* A call in the client's hands was never one found unacceptable.
ReleasedClean == sent \cap tainted = {}
=============================================================================
