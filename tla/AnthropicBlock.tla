--------------------------- MODULE AnthropicBlock ---------------------------
(***************************************************************************)
(* Block mode for an Anthropic Messages stream: streamAnthropicBlock in    *)
(* internal/proxy/anthropic.go.  Each action is the handling of one frame  *)
(* delivered by readSSE, of an oversized line or frame, of the end of the  *)
(* upstream body, or of what follows readSSE.                              *)
(***************************************************************************)
EXTENDS StreamState

CONSTANTS
  Index,              \* content block indexes
  Sizes,              \* byte lengths of a frame and of an argument fragment
  MaxToolCallBytes,   \* cap on the held-back data of one call
  MaxFrames,          \* bound on the frames of an orderly upstream
  MaxFreeFrames,      \* bound on the frames of any other upstream
  Interludes,         \* frames that belong to no block: "ping", "unparsed"
  ErrorContents       \* contents of error frames

\* readSSE delivers no frame close to the tool-call cap (4 MiB + a line, 8 MiB).
ASSUME SizeAssumption ==
  /\ MaxToolCallBytes \in Nat
  /\ Sizes \subseteq 0..MaxToolCallBytes
ASSUME IndexAssumption == Index \subseteq Nat /\ 0 \in Index
ASSUME FrameAssumption ==
  Interludes \subseteq {"ping", "unparsed"} /\ ErrorContents \subseteq Seq(Frag)
ASSUME BoundAssumption == MaxFrames \in Nat /\ MaxFreeFrames \in Nat

VARIABLES
  phase,         \* "reading", "closing" (readSSE returned), "done"
  buffering, bufIndex, bufName, bufRaw, bufBytes, bufInspect,
  nameFindings, oversized, droppedTool,
  text,          \* assistant text given to the text inspector
  upstream,      \* what the upstream has sent: open block, next index, ...
  ledger         \* history: the resolved calls, clean or not, sent or dropped

callVars == <<buffering, bufIndex, bufName, bufRaw, bufBytes, bufInspect,
              nameFindings, oversized>>
vars == <<stateVars, callVars, phase, droppedTool, text, upstream, ledger>>

-----------------------------------------------------------------------------
(* Frames *)

ToolStart(i, n) == [kind |-> "tool_start", index |-> i, name |-> n]
TextStart(i)    == [kind |-> "text_start", index |-> i]
ArgDelta(i, g)  == [kind |-> "arg_delta", index |-> i, frag |-> g]
TextDelta(i, g) == [kind |-> "text_delta", index |-> i, frag |-> g]
BlockStop(i)    == [kind |-> "block_stop", index |-> i]
MessageDelta(r) == [kind |-> "message_delta", reason |-> r]
ErrorFrame(c)   == [kind |-> "error", content |-> c]
Plain(k)        == [kind |-> k]
NoteDelta(i)    == [kind |-> "note", index |-> i]

StopReason == {"tool_use", "end_turn"}

Frame ==
  {ToolStart(i, n) : i \in Index, n \in Name}
  \cup {ArgDelta(i, g) : i \in Index, g \in Frag}
  \cup {TextDelta(i, g) : i \in Index, g \in Frag}
  \cup {TextStart(i) : i \in Index} \cup {BlockStop(i) : i \in Index}
  \cup {MessageDelta(r) : r \in StopReason}
  \cup {ErrorFrame(c) : c \in ErrorContents}
  \cup {Plain(k) : k \in Interludes \cup {"message_stop"}}

\* Mutant: the block is not closed.
NoteUnclosed(i) == <<TextStart(i), NoteDelta(i)>>

\* A note is a whole text block at the index of the call it replaces.
Note(i) == <<TextStart(i), NoteDelta(i), BlockStop(i)>>

-----------------------------------------------------------------------------
(* The upstream *)

Opens(f)  == f.kind \in {"tool_start", "text_start"}
Within(f) == f.kind \in {"arg_delta", "text_delta", "block_stop"}

\* An orderly upstream opens and closes blocks one after another, as the
\* Messages API does; another one sends frames in any order.
UpstreamInit(orderly) ==
  [open |-> "none", next |-> 0, stage |-> "blocks", sent |-> 0,
   orderly |-> orderly]

\* The frames a conforming upstream may send next.
Conforming(f) ==
  CASE Opens(f) ->
         upstream.open = "none" /\ upstream.stage = "blocks"
           /\ f.index = upstream.next
    [] Within(f) ->
         /\ f.index = upstream.next
         /\ upstream.open \in IF f.kind = "arg_delta" THEN {"tool_start"}
                              ELSE IF f.kind = "text_delta" THEN {"text_start"}
                              ELSE {"tool_start", "text_start"}
    [] f.kind = "message_delta" ->
         upstream.open = "none" /\ upstream.stage = "blocks"
    [] f.kind = "message_stop" -> upstream.stage = "delta"
    [] OTHER -> upstream.stage # "stopped"

MaySend(f) ==
  IF upstream.orderly THEN upstream.sent < MaxFrames /\ Conforming(f)
  ELSE upstream.sent < MaxFreeFrames

\* Only the frames of an orderly upstream are followed.
AfterSending(f) ==
  IF ~upstream.orderly THEN [upstream EXCEPT !.sent = @ + 1] ELSE
  [ upstream EXCEPT
      !.open  = CASE Opens(f) -> f.kind
                  [] f.kind = "block_stop" -> "none"
                  [] OTHER -> @,
      !.next  = IF f.kind = "block_stop" THEN @ + 1 ELSE @,
      !.stage = CASE f.kind = "message_delta" -> "delta"
                  [] f.kind = "message_stop" -> "stopped"
                  [] OTHER -> @,
      !.sent  = @ + 1 ]

\* The frames readSSE may deliver now.
Arriving == IF phase = "reading" THEN {f \in Frame : MaySend(f)} ELSE {}

Receive(f) ==
  /\ phase = "reading" /\ MaySend(f)
  /\ upstream' = AfterSending(f)

\* A callback that returns an error makes readSSE return.
Proceed == phase' = IF failed' THEN "closing" ELSE "reading"

-----------------------------------------------------------------------------
(* Resolving a held call *)

\* Mutants: the arguments, or the size, do not count.
DropsUnread(insp, over) ==
  IsHigh(nameFindings) \/ declaredTools = {} \/ over

DropsAnySize(insp, over) ==
  IsHigh(Inspect(insp)) \/ IsHigh(nameFindings) \/ declaredTools = {}

DropsTool(insp, over) ==
  \/ IsHigh(Inspect(insp))
  \/ IsHigh(nameFindings)
  \/ declaredTools = {}
  \/ over

\* What the call is, independently of the findings kept about it.
Clean(name, insp, over) ==
  /\ declaredTools # {} /\ name \in declaredTools \cup {NoName}
  /\ ~Signature(insp)
  /\ ~over

ToolFindings(insp, over) ==
  Inspect(insp) \cup {r \in {"oversized-call"} : over}

FinalizeTool(raw, insp, over) ==
  LET drop == DropsTool(insp, over) IN
  /\ buffering' = FALSE
  /\ Emit(IF drop THEN Note(bufIndex) ELSE raw)
  /\ droppedTool' = (droppedTool \/ drop)
  /\ ledger' = Append(ledger, [clean |-> Clean(bufName, insp, over),
                               fate  |-> IF drop THEN "dropped" ELSE "sent"])

\* A frame that arrives while a call is held joins the held data, up to the cap.
Exceeds(n, d) == ~oversized /\ bufBytes + n + d > MaxToolCallBytes

\* Mutant: the arguments are not counted.
HoldsFrame(n, d) == ~oversized /\ bufBytes + n <= MaxToolCallBytes

Holds(n, d) == ~oversized /\ bufBytes + n + d <= MaxToolCallBytes

Held(f, n, d) ==
  [ raw   |-> IF Holds(n, d) THEN Append(bufRaw, f)
              ELSE IF Exceeds(n, d) THEN <<>> ELSE bufRaw,
    insp  |-> IF Holds(n, d) /\ f.kind = "arg_delta"
              THEN Append(bufInspect, f.frag) ELSE bufInspect,
    bytes |-> IF Holds(n, d) THEN bufBytes + n + d
              ELSE IF Exceeds(n, d) THEN 0 ELSE bufBytes,
    over  |-> oversized \/ Exceeds(n, d) ]

Accumulate(h) ==
  /\ bufRaw' = h.raw
  /\ bufInspect' = h.insp
  /\ bufBytes' = h.bytes
  /\ oversized' = h.over

\* n bytes of frame and, for an argument delta, d bytes of fragment.
DeltaSizes(f) == IF f.kind = "arg_delta" THEN Sizes ELSE {0}

ClosesHeld(f) == f.kind = "block_stop" /\ f.index = bufIndex

-----------------------------------------------------------------------------
(* Frame handlers *)

\* A frame that is not JSON passes through, even while a call is held.
PassUnparsed(f) ==
  /\ f.kind = "unparsed"
  /\ Receive(f)
  /\ Emit(<<f>>)
  /\ Proceed
  /\ UNCHANGED <<declaredTools, findings, sawTool, blocked, callVars,
                 droppedTool, text, ledger>>

HoldFrame(f, n, d) ==
  /\ buffering
  /\ f.kind # "unparsed" /\ ~ClosesHeld(f)
  /\ Receive(f)
  /\ Accumulate(Held(f, n, d))
  /\ UNCHANGED <<stateVars, phase, buffering, bufIndex, bufName, nameFindings,
                 droppedTool, text, ledger>>

ResolveHeld(f, n) ==
  /\ buffering
  /\ ClosesHeld(f)
  /\ Receive(f)
  /\ LET h == Held(f, n, 0) IN
       /\ Accumulate(h)
       /\ FinalizeTool(h.raw, h.insp, h.over)
       /\ findings' = findings \cup ToolFindings(h.insp, h.over)
  /\ Proceed
  /\ UNCHANGED <<declaredTools, sawTool, blocked, bufIndex, bufName,
                 nameFindings, text>>

\* Mutant: what was found against earlier calls is kept.
FindingsKept(n) == nameFindings \cup CheckToolCall(n)

\* What checkToolCall found against the call that begins.
NewNameFindings(n) == CheckToolCall(n)

StartTool(f, n) ==
  /\ ~buffering
  /\ f.kind = "tool_start"
  /\ Receive(f)
  /\ buffering' = TRUE
  /\ bufIndex' = f.index
  /\ bufName' = f.name
  /\ bufRaw' = <<f>>
  /\ bufBytes' = n
  /\ bufInspect' = <<>>
  /\ nameFindings' = NewNameFindings(f.name)
  /\ findings' = findings \cup CheckToolCall(f.name)
  /\ sawTool' = TRUE
  /\ oversized' = FALSE
  /\ UNCHANGED <<declaredTools, blocked, out, failed, phase, droppedTool, text,
                 ledger>>

ForwardText(f) ==
  /\ ~buffering
  /\ f.kind = "text_delta"
  /\ Receive(f)
  /\ text' = Append(text, f.frag)
  /\ Emit(<<f>>)
  /\ Proceed
  /\ UNCHANGED <<declaredTools, findings, sawTool, blocked, callVars,
                 droppedTool, ledger>>

\* Mutant: the stop reason is left alone.
StopAsSent(f) == f

\* Once a call was replaced the client is not told to run tools.
StopFrame(f) ==
  IF droppedTool /\ f.reason = "tool_use" THEN MessageDelta("end_turn") ELSE f

ForwardMessageDelta(f) ==
  /\ ~buffering
  /\ f.kind = "message_delta"
  /\ Receive(f)
  /\ Emit(<<StopFrame(f)>>)
  /\ Proceed
  /\ UNCHANGED <<declaredTools, findings, sawTool, blocked, callVars,
                 droppedTool, text, ledger>>

ForwardError(f) ==
  /\ ~buffering
  /\ f.kind = "error"
  /\ Receive(f)
  /\ findings' = findings \cup Inspect(f.content)
  /\ Emit(<<f>>)
  /\ Proceed
  /\ UNCHANGED <<declaredTools, sawTool, blocked, callVars, droppedTool, text,
                 ledger>>

ForwardOther(f) ==
  /\ ~buffering
  /\ f.kind \in {"text_start", "arg_delta", "block_stop", "message_stop", "ping"}
  /\ Receive(f)
  /\ Emit(<<f>>)
  /\ Proceed
  /\ UNCHANGED <<declaredTools, findings, sawTool, blocked, callVars,
                 droppedTool, text, ledger>>

-----------------------------------------------------------------------------
(* Oversized input and the end of the stream *)

\* Where the note of an oversized line goes.
OverflowIndex == IF buffering THEN bufIndex ELSE 0

\* The held data is let go.
LetGo == bufRaw' = <<>> /\ bufInspect' = <<>> /\ buffering' = FALSE

OnOversized ==
  /\ phase = "reading"
  /\ upstream.stage # "stopped"
  /\ findings' = findings \cup {"oversized-sse"}
  /\ blocked' = TRUE
  /\ LetGo
  /\ Emit(Note(OverflowIndex) \o <<Plain("message_stop")>>)
  /\ phase' = "closing"
  /\ ledger' = IF buffering
               THEN Append(ledger, [clean |-> FALSE, fate |-> "dropped"])
               ELSE ledger
  /\ UNCHANGED <<declaredTools, sawTool, bufIndex, bufName, bufBytes,
                 nameFindings, oversized, droppedTool, text, upstream>>

\* The upstream body ends, or reading it fails.
UpstreamEnds ==
  /\ phase = "reading"
  /\ phase' = "closing"
  /\ UNCHANGED <<stateVars, callVars, droppedTool, text, upstream, ledger>>

\* A call still open is resolved like any other; then the text and the verdict.
Close ==
  /\ phase = "closing"
  /\ phase' = "done"
  /\ IF buffering
     THEN /\ FinalizeTool(bufRaw, bufInspect, oversized)
          /\ findings' = findings \cup ToolFindings(bufInspect, oversized)
                           \cup Inspect(text)
     ELSE /\ findings' = findings \cup Inspect(text)
          /\ UNCHANGED <<buffering, out, failed, droppedTool, ledger>>
  /\ blocked' = (blocked \/ droppedTool')
  /\ UNCHANGED <<declaredTools, sawTool, bufIndex, bufName, bufRaw, bufBytes,
                 bufInspect, nameFindings, oversized, text, upstream>>

-----------------------------------------------------------------------------

Init ==
  /\ StateInit
  /\ phase = "reading"
  /\ buffering = FALSE /\ bufIndex = 0 /\ bufName = NoName
  /\ bufRaw = <<>> /\ bufBytes = 0 /\ bufInspect = <<>>
  /\ nameFindings = {} /\ oversized = FALSE /\ droppedTool = FALSE
  /\ text = <<>>
  /\ \E orderly \in BOOLEAN : upstream = UpstreamInit(orderly)
  /\ ledger = <<>>

OnEvent ==
  \E f \in Arriving :
    \/ PassUnparsed(f)
    \/ \E n \in Sizes : \/ \E d \in DeltaSizes(f) : HoldFrame(f, n, d)
                        \/ ResolveHeld(f, n)
                        \/ StartTool(f, n)
    \/ ForwardText(f)
    \/ ForwardMessageDelta(f)
    \/ ForwardError(f)
    \/ ForwardOther(f)

Next == OnEvent \/ OnOversized \/ UpstreamEnds \/ Close

Spec == Init /\ [][Next]_vars

-----------------------------------------------------------------------------
(* Properties *)

TypeOK ==
  /\ declaredTools \subseteq ToolName
  /\ findings \subseteq Rules /\ nameFindings \subseteq HighRules
  /\ sawTool \in BOOLEAN /\ blocked \in BOOLEAN /\ failed \in BOOLEAN
  /\ buffering \in BOOLEAN /\ oversized \in BOOLEAN /\ droppedTool \in BOOLEAN
  /\ phase \in {"reading", "closing", "done"}
  /\ bufIndex \in Index /\ bufName \in Name
  \* the data held back for one call stays within the cap (proxy.go:205-208)
  /\ bufBytes \in 0..MaxToolCallBytes
  /\ bufInspect \in Seq(Frag) /\ text \in Seq(Frag)
  /\ bufRaw \in Seq(Frame)
  /\ out \in Seq(Frame \cup {NoteDelta(i) : i \in Index})
  /\ upstream \in [open : {"none", "tool_start", "text_start"}, next : Nat,
                   stage : {"blocks", "delta", "stopped"},
                   sent : 0..(MaxFrames + MaxFreeFrames), orderly : BOOLEAN]
  /\ ledger \in Seq([clean : BOOLEAN, fate : {"sent", "dropped"}])

Kind(p, k) == p \in DOMAIN out /\ out[p].kind = k

\* Position q lies in the block that the client sees opened at p.
InBlock(p, q) ==
  p < q /\ \A r \in p..q : out[r] # BlockStop(out[p].index)

\* ... and is a fragment of its arguments; r is the next one.
IsArg(p, q) ==
  Kind(q, "arg_delta") /\ InBlock(p, q) /\ out[q].index = out[p].index
NextArg(p, q, r) ==
  IsArg(p, q) /\ IsArg(p, r) /\ q < r /\ \A k \in (q + 1)..(r - 1) : ~IsArg(p, k)

\* When the upstream is orderly every call the client can see carries a declared
\* name and arguments without the high-severity signature, however they were
\* split into deltas and wherever the stream stopped (anthropic.go:82-84).
SentCallsVerified ==
  upstream.orderly =>
    \A p \in DOMAIN out :
      Kind(p, "tool_start") =>
        /\ declaredTools # {}
        /\ out[p].name \in declaredTools \cup {NoName}
        /\ ~\E q, r \in DOMAIN out :
             NextArg(p, q, r) /\ out[q].frag = "head" /\ out[r].frag = "tail"

\* After a call was replaced the client is not told to run tools (anthropic.go:181-184,
\* rewriteStopReason).  A frame that the upstream sent inside a later call is
\* replayed with that call as it came; an orderly upstream sends none.
NoToolUseAfterNote ==
  \A p, q \in DOMAIN out :
    p < q /\ Kind(p, "note") /\ out[q] = MessageDelta("tool_use") =>
      /\ ~upstream.orderly
      /\ \E r \in DOMAIN out : Kind(r, "tool_start") /\ InBlock(r, q)

\* A call is dropped for its own name, arguments or size, never for what the
\* rest of the stream did (anthropic.go:104-132).
NoCleanCallDropped ==
  \A i \in DOMAIN ledger : ledger[i].fate = "dropped" => ~ledger[i].clean

\* Notes keep the client's content array contiguous (anthropic.go:236-237): the
\* blocks of an orderly stream reach the client numbered 0, 1, 2, ..., each
\* opened after the previous one was closed, as long as no line overflowed.
OpenedAt(p) == p \in DOMAIN out /\ Opens(out[p])
ClosedBy(p, q) == \E r \in p..q : out[r] = BlockStop(out[p].index)
NoteKeepsContiguity ==
  upstream.orderly /\ "oversized-sse" \notin findings =>
    \A q \in DOMAIN out :
      OpenedAt(q) =>
        \/ out[q].index = 0 /\ \A p \in 1..(q - 1) : ~OpenedAt(p)
        \/ \E p \in 1..(q - 1) :
             /\ OpenedAt(p) /\ \A k \in (p + 1)..(q - 1) : ~OpenedAt(k)
             /\ out[q].index = out[p].index + 1
             /\ ClosedBy(p, q)

-----------------------------------------------------------------------------
(* The abstract promise *)

Current == IF buffering THEN {Len(ledger) + 1} ELSE {}

Guard == INSTANCE CallGuard WITH
  Call    <- Nat,
  held    <- Current,
  sent    <- {i \in DOMAIN ledger : ledger[i].fate = "sent"},
  dropped <- {i \in DOMAIN ledger : ledger[i].fate = "dropped"},
  tainted <- {i \in DOMAIN ledger : ~ledger[i].clean}
               \cup {i \in Current : ~Clean(bufName, bufInspect, oversized)},
  gone    <- failed,
  ended   <- phase = "done",
  blocked <- blocked

\* Calls are held, released only when clean, settled for good and reported.
GuardSpec == Guard!Spec
=============================================================================
