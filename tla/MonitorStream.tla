--------------------------- MODULE MonitorStream ---------------------------
(***************************************************************************)
(* Monitor mode for a stream: the monitor halves of streamAnthropic,       *)
(* streamOpenAI and streamResponses, and streamGeneric (internal/proxy).   *)
(* Every frame is forwarded as it arrives and a copy is inspected: tool    *)
(* arguments per block or call, text per response.                         *)
(*                                                                         *)
(* A piece of content is identified by the frame that brought it and its   *)
(* key; arguments that a later frame repeats, alters or contradicts are a  *)
(* piece of their own.  StreamInspector shows that what was written to an  *)
(* inspector is inspected in full when it finishes, so an inspector is the *)
(* set of the pieces written to it.                                        *)
(***************************************************************************)
EXTENDS StreamState

CONSTANTS
  Key,         \* block indexes, call indexes, or item ids
  Frames       \* bound on the frames of a stream, by protocol

VARIABLES
  protocol,    \* which handler
  phase,       \* "reading", "closing" (readSSE returned), "done"
  tools,       \* the inspectors of the open blocks or calls, by key
  toolName,    \* OpenAI: the last name of a call
  text,        \* the inspector of the text
  inspected    \* pieces that were inspected

vars == <<stateVars, protocol, phase, tools, toolName, text, inspected>>

Inspector == [pieces |-> {}, gotDelta |-> FALSE]
Drop(f, k) == [x \in DOMAIN f \ {k} |-> f[x]]
Put(f, k, v) == [x \in DOMAIN f \cup {k} |-> IF x = k THEN v ELSE f[x]]
Write(i, p)  == [i EXCEPT !.pieces = @ \cup p]

Init ==
  /\ StateInit
  /\ protocol \in DOMAIN Frames
  /\ phase = "reading"
  /\ tools = <<>> /\ toolName = <<>>
  /\ text = {} /\ inspected = {}

-----------------------------------------------------------------------------
(* The upstream: any frames in any order.  An "ignored" one stands for content
   in a frame or a field that the handler does not read: other event types, data
   that is not JSON, other kinds of items and blocks. *)

New(k) == {<<Len(out) + 1, k>>}

Frame(kind, k, n, p) == [kind |-> kind, key |-> k, name |-> n, pieces |-> p]
Plain(kind)          == Frame(kind, "none", NoName, New("none"))

FrameOf ==
  {Plain("text"), Plain("error"), Plain("oversized")} \cup
  CASE protocol = "anthropic" ->
         {Plain("ignored")} \cup {Frame("start", k, n, {}) : k \in Key, n \in ToolName}
         \cup {Frame("delta", k, NoName, New(k)) : k \in Key}
         \cup {Frame("stop", k, NoName, {}) : k \in Key}
    [] protocol = "openai" ->
         {Plain("ignored")} \cup {Frame("chunk", k, n, New(k)) : k \in Key, n \in Name}
    [] protocol = "responses" ->
         {Plain("ignored")} \cup {Frame("start", k, n, {}) : k \in Key, n \in ToolName}
         \cup {Frame("start", k, n, New(k)) : k \in Key, n \in ToolName}
         \cup {Frame("delta", k, NoName, New(k)) : k \in Key}
         \cup {Frame("args", k, NoName, New(k)) : k \in Key}
         \cup {Frame("stop", k, n, New(k)) : k \in Key, n \in ToolName}
         \cup {Frame("listed", k, n, New(k)) : k \in Key, n \in ToolName}
         \cup {Frame("listed_without_id", k, n, New(k)) : k \in Key, n \in ToolName}
    [] OTHER -> {}

-----------------------------------------------------------------------------
(* What the handlers make of a frame that was forwarded.  Each names its
   effect on the variables of the code. *)

\* The inspectors are then t, the pieces i were inspected, and checkToolCall was
\* called with the names in `checked`.
Keep(t, i, checked) ==
  /\ tools' = t /\ inspected' = inspected \cup i
  /\ findings' = findings \cup UNION {CheckToolCall(n) : n \in checked}
  /\ sawTool' = (sawTool \/ checked # {})
  /\ UNCHANGED <<text, toolName>>

\* content_block_start, response.output_item.added
StartTool(f) ==
  Keep(Put(tools, f.key, Write(Inspector, f.pieces)), {}, {f.name})

\* input_json_delta, response.function_call_arguments.delta
ToolDelta(f) ==
  Keep(IF f.key \in DOMAIN tools
       THEN Put(tools, f.key, [Write(tools[f.key], f.pieces) EXCEPT !.gotDelta = TRUE])
       ELSE tools, {}, {})

\* content_block_stop
StopTool(f) ==
  Keep(Drop(tools, f.key),
       IF f.key \in DOMAIN tools THEN tools[f.key].pieces ELSE {}, {})

\* response.function_call_arguments.done
ArgumentsDone(f) ==
  Keep(IF f.key \in DOMAIN tools /\ ~tools[f.key].gotDelta
       THEN Put(tools, f.key, Write(tools[f.key], f.pieces)) ELSE tools, {}, {})

\* response.output_item.done
ItemDone(f) ==
  LET known == f.key \in DOMAIN tools
      c     == IF known THEN tools[f.key] ELSE Inspector
  IN Keep(Drop(tools, f.key), c.pieces \cup (IF c.gotDelta THEN {} ELSE f.pieces),
          IF known THEN {} ELSE {f.name})

\* response.completed, with one call in its list.
Listed(f) ==
  IF f.kind = "listed" /\ f.key \in DOMAIN tools
  THEN Keep(Drop(tools, f.key), tools[f.key].pieces, {})
  ELSE Keep(tools, f.pieces, {f.name})

\* Mutant: a call that changes its name is not checked again.
FirstName(f) ==
  IF f.name # NoName THEN f.key \notin DOMAIN toolName ELSE f.key \notin DOMAIN tools

\* A name not seen for this call, or a call that begins without one.
NewName(f) ==
  IF f.name # NoName THEN f.key \notin DOMAIN toolName \/ toolName[f.key] # f.name
  ELSE f.key \notin DOMAIN tools

\* A chunk with a tool delta: accumulate.
Accumulate(f) ==
  /\ tools' = Put(tools, f.key,
                  Write(IF f.key \in DOMAIN tools THEN tools[f.key] ELSE Inspector, f.pieces))
  /\ toolName' = IF f.name # NoName THEN Put(toolName, f.key, f.name) ELSE toolName
  /\ findings' = findings \cup IF NewName(f) THEN CheckToolCall(f.name) ELSE {}
  /\ sawTool' = TRUE
  /\ UNCHANGED <<text, inspected>>

\* text_delta, content, output_text.delta; any data of a generic stream.
Text(f) ==
  /\ text' = text \cup f.pieces
  /\ UNCHANGED <<tools, toolName, inspected, findings, sawTool>>

\* An error frame is inspected at once, except in a generic stream.
Error(f) == IF protocol = "generic" THEN Text(f) ELSE Keep(tools, f.pieces, {})

\* monitorOversized: the frame is not parsed, only reported.
Oversized(f) ==
  /\ findings' = findings \cup {"oversized-sse"}
  /\ UNCHANGED <<tools, toolName, text, inspected, sawTool>>

\* parseAnthropic and parseResponses fail, or no case of the switch is taken.
Ignored(f) == Keep(tools, {}, {})

Handle(f) ==
  CASE f.kind = "start"     -> StartTool(f)
    [] f.kind = "delta"     -> ToolDelta(f)
    [] f.kind = "stop"      -> IF protocol = "anthropic" THEN StopTool(f) ELSE ItemDone(f)
    [] f.kind = "args"      -> ArgumentsDone(f)
    [] f.kind = "chunk"     -> Accumulate(f)
    [] f.kind = "text"      -> Text(f)
    [] f.kind = "error"     -> Error(f)
    [] f.kind = "oversized" -> Oversized(f)
    [] f.kind = "ignored"   -> Ignored(f)
    [] OTHER                -> Listed(f)

-----------------------------------------------------------------------------
(* The reader: a line is forwarded before its frame is handled, and nothing
   is read any more once a write has failed. *)

Forward ==
  /\ phase = "reading" /\ Len(out) < Frames[protocol]
  /\ \E f \in FrameOf :
       /\ Emit(<<f>>)
       /\ IF failed'
          THEN /\ phase' = "closing"
               /\ UNCHANGED <<tools, toolName, text, inspected, findings, sawTool>>
          ELSE phase' = phase /\ Handle(f)
  /\ UNCHANGED <<declaredTools, blocked, protocol>>

UpstreamEnds ==
  /\ phase = "reading"
  /\ phase' = "closing"
  /\ UNCHANGED <<stateVars, protocol, tools, toolName, text, inspected>>

\* Mutant: what is open when the stream ends is forgotten.
UnfinishedText == text

\* The inspectors still open, then the text.
Unfinished == text \cup UNION {tools[k].pieces : k \in DOMAIN tools}

Close ==
  /\ phase = "closing"
  /\ phase' = "done"
  /\ inspected' = inspected \cup Unfinished
  /\ UNCHANGED <<stateVars, protocol, tools, toolName, text>>

Next == Forward \/ UpstreamEnds \/ Close

Spec == Init /\ [][Next]_vars

-----------------------------------------------------------------------------
(* Properties, about the stream the client has received *)

Opens(f, k)  == f.kind = "start" /\ f.key = k
Closes(f, k) == f.kind \in {"stop", "listed"} /\ f.key = k

Quiet(from, to, k) == \A m \in from..to : ~Closes(out[m], k)
OpenAt(n, k)     == \E s \in 1..(n - 1) : Opens(out[s], k) /\ Quiet(s + 1, n - 1, k)
ReopenedAt(n, k) == \E r \in (n + 1)..Len(out) : Opens(out[r], k) /\ Quiet(n + 1, r - 1, k)

\* A delta for the call that is open under key k at frame n came before it.
Streamed(n, k) ==
  \E d \in 1..(n - 1) :
    /\ out[d].kind = "delta" /\ out[d].key = k /\ OpenAt(d, k)
    /\ \A m \in (d + 1)..(n - 1) : ~Opens(out[m], k) /\ ~Closes(out[m], k)

\* The pieces of a frame that the handler has to inspect.  It loses those of a call
\* nobody announced, or that starts again while it is open; those of the final list
\* for a call announced before; those that arguments.done or output_item.done give
\* for a call once a delta came for it, whether they repeat the deltas or not
\* (responses.go:122, 134); and those it does not read.
Owed(n) ==
  LET f == out[n]
      k == f.key
      kept == OpenAt(n, k) /\ ~ReopenedAt(n, k)
  IN CASE f.kind \in {"oversized", "ignored"} -> {}
       [] f.kind = "delta"  -> IF kept THEN f.pieces ELSE {}
       [] f.kind = "args"   -> IF kept /\ ~Streamed(n, k) THEN f.pieces ELSE {}
       [] f.kind = "stop"   -> IF Streamed(n, k) THEN {} ELSE f.pieces
       [] f.kind = "start"  -> IF ReopenedAt(n, k) THEN {} ELSE f.pieces
       [] f.kind = "listed" -> IF OpenAt(n, k) THEN {} ELSE f.pieces
       [] OTHER -> f.pieces

\* Monitor mode inspects everything it has forwarded, but for the losses that
\* Owed names, and reports what was too long to parse.
ForwardedIsInspected ==
  phase = "done" =>
    \A n \in DOMAIN out :
      /\ Owed(n) \subseteq inspected
      /\ out[n].kind = "oversized" => "oversized-sse" \in findings

\* Every call the client was given the start of, or first heard of in a closing
\* frame, in frames that the handler reads, has been compared with the tools the
\* client declared.
CallsAreChecked ==
  phase = "done" =>
    \A n \in DOMAIN out :
      \/ out[n].name = NoName /\ out[n].kind # "chunk"
      \/ out[n].kind \in {"stop", "listed"} /\ OpenAt(n, out[n].key)
      \/ CheckToolCall(out[n].name) \subseteq findings

=============================================================================
