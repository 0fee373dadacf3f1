---------------------------- MODULE StreamState ----------------------------
(***************************************************************************)
(* Per-request inspection state of the proxy (internal/proxy/proxy.go,     *)
(* type streamState) and the client side of the response: the frames       *)
(* written so far and whether a write has failed.  The three block-mode    *)
(* stream handlers extend this module.                                     *)
(*                                                                         *)
(* A finding is reduced to its rule: two findings of one rule differ only  *)
(* in wording and in the matched text.  Content (tool arguments and        *)
(* assistant text) is a sequence of fragments; the rule set is the one     *)
(* high-severity signature head-then-tail, which only the reassembled      *)
(* content shows, and the one medium-severity signature warn.              *)
(***************************************************************************)
EXTENDS Naturals, Sequences, FiniteSets

CONSTANTS
  ToolName,     \* the non-empty tool names a frame may carry
  NoName,       \* the empty name
  Frag          \* the content fragments a delta may carry

ASSUME NoNameAssumption == NoName \notin ToolName

Name == ToolName \cup {NoName}

VARIABLES
  declaredTools,  \* names the client declared in its request
  findings,       \* rules reported for this response
  sawTool,        \* a tool call appeared in the response
  blocked,        \* the response was altered or refused
  out,            \* frames written to the client, in order
  failed          \* a write to the client returned an error

stateVars == <<declaredTools, findings, sawTool, blocked, out, failed>>

-----------------------------------------------------------------------------
(* Findings *)

HighRules == {"rule-high", "unsolicited", "undeclared",
              "oversized-call", "oversized-sse"}
Rules     == HighRules \cup {"rule-medium"}

\* inspect.MaxSeverity(fs) == inspect.SevHigh
IsHigh(fs) == fs \cap HighRules # {}

Signature(content) ==
  \E i \in 1..(Len(content) - 1) : content[i] = "head" /\ content[i + 1] = "tail"

\* What a stream inspector reports of everything written to it.  StreamInspector
\* shows that windowing loses no signature shorter than the overlap.
Inspect(content) ==
  {r \in {"rule-high"} : Signature(content)}
    \cup {r \in {"rule-medium"} : \E i \in 1..Len(content) : content[i] = "warn"}

\* The finding checkToolCall records for a returned call, and returns.
CheckToolCall(name) ==
  IF declaredTools = {} THEN {"unsolicited"}
  ELSE {r \in {"undeclared"} : name \notin declaredTools \cup {NoName}}

\* The verdict report gives the response.
Verdict ==
  IF blocked THEN "blocked" ELSE IF findings # {} THEN "alert" ELSE "clean"

-----------------------------------------------------------------------------
(* Writing to the client *)

\* Frames are written one by one; the first write error stops the sequence and,
\* the connection being gone, every later write fails as well.
Emit(frames) ==
  \E k \in IF failed THEN {0} ELSE 0..Len(frames) :
    /\ out' = out \o SubSeq(frames, 1, k)
    /\ failed' = (failed \/ k < Len(frames))

StateInit ==
  /\ declaredTools \in SUBSET ToolName
  /\ findings = {}
  /\ sawTool = FALSE
  /\ blocked = FALSE
  /\ out = <<>>
  /\ failed = FALSE
=============================================================================
