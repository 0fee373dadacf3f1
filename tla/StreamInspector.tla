-------------------------- MODULE StreamInspector --------------------------
(***************************************************************************)
(* The windowed stream inspector: internal/proxy/window.go.  Bytes are     *)
(* numbered from 0 in the order they are written; pending is the stretch   *)
(* base..total-1.  A signature is a stretch lo..hi-1 of the stream that a  *)
(* rule matches; inspecting a window reports the signatures inside it.     *)
(* The loop in Write is one ScanWindow step per window.                    *)
(***************************************************************************)
EXTENDS Naturals, FiniteSets

CONSTANTS
  Window,       \* inspectWindow
  Overlap,      \* inspectOverlap
  MaxLen,       \* bound on the length of the stream
  Key           \* (rule id, match) pairs

ASSUME WindowAssumption ==
  /\ Window \in Nat /\ Overlap \in Nat /\ Overlap < Window
ASSUME LengthAssumption == MaxLen \in Nat

VARIABLES
  signs,      \* the signatures of the whole stream, known only to the rules
  total,      \* bytes written so far
  base,       \* position of the first pending byte
  found,      \* findings: keys reported so far
  cuts        \* history: positions at which Finish emptied the inspector

inspectorVars == <<signs, total, base, found, cuts>>

Sign == [lo : 0..MaxLen, hi : 0..MaxLen, key : Key]

\* inspect: report what lies inside the window, each key once.
Reported(lo, hi) ==
  found \cup {s.key : s \in {t \in signs : lo <= t.lo /\ t.hi <= hi}}

Pending == total - base

\* Mutants: no overlap is kept, the whole window is kept.
StepWithoutOverlap == Window
StepNowhere        == 0

\* How far a scan advances: the window is released but for the overlap.
Step == Window - Overlap

InspectorInit ==
  /\ signs \in SUBSET {s \in Sign : s.lo < s.hi}
  /\ total = 0 /\ base = 0 /\ found = {} /\ cuts = {}

\* Write appends a chunk of any length ...
Write(n) ==
  /\ Pending < Window
  /\ total + n <= MaxLen
  /\ total' = total + n
  /\ UNCHANGED <<signs, base, found, cuts>>

\* ... then inspects every window that has filled up, keeping the overlap.
ScanWindow ==
  /\ Pending >= Window
  /\ found' = Reported(base, base + Window)
  /\ base' = base + Step
  /\ UNCHANGED <<signs, total, cuts>>

\* Finish inspects the tail and forgets it.
Finish ==
  /\ 0 < Pending /\ Pending < Window
  /\ found' = Reported(base, total)
  /\ base' = total
  /\ cuts' = cuts \cup {total}
  /\ UNCHANGED <<signs, total>>

InspectorNext == (\E n \in 1..MaxLen : Write(n)) \/ ScanWindow \/ Finish

InspectorSpec == InspectorInit /\ [][InspectorNext]_inspectorVars

\* The loop in Write runs to its end.
InspectorFairSpec == InspectorSpec /\ WF_inspectorVars(ScanWindow)

-----------------------------------------------------------------------------

InspectorTypeOK ==
  /\ signs \subseteq {s \in Sign : s.lo < s.hi}
  /\ total \in Nat /\ base \in Nat /\ base <= total
  /\ found \subseteq Key
  /\ cuts \subseteq 0..base

\* A signature the windows must not lose: short enough for the overlap, and not
\* torn apart by an earlier Finish.
Short(s) == s.hi - s.lo <= Overlap + 1
Torn(s)  == \E c \in cuts : s.lo < c /\ c < s.hi

\* Nothing is pending: the loop is over and Finish has seen the tail.
Drained == base = total

\* Wherever the stream was cut into chunks and windows, a signature no longer
\* than the overlap plus one byte is reported once the stream is finished
\* (window.go:10-14: the windows lose nothing the overlap can hold).
NothingLost ==
  Drained => \A s \in signs :
               s.hi <= total /\ Short(s) /\ ~Torn(s) => s.key \in found

\* Nothing is reported that the stream written so far does not contain.
NothingInvented ==
  \A k \in found : \E s \in signs : s.key = k /\ s.hi <= total

\* The memory held is less than a window as soon as the loop is over, however
\* much was written at once.
LoopEnds == (Pending >= Window) ~> (Pending < Window)

\* The inductive strengthening of NothingLost: a signature not yet reported is
\* still wholly pending.  It needs that the overlap is there to be continued.
StillPending ==
  \A s \in signs :
    s.hi <= total /\ Short(s) /\ ~Torn(s) => s.key \in found \/ base <= s.lo

OverlapKept == base = 0 \/ base \in cuts \/ Overlap <= total - base
=============================================================================
