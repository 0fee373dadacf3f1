---------------------------- MODULE OpenAIBlock ----------------------------
(***************************************************************************)
(* Block mode for an OpenAI Chat Completions stream: the block half of     *)
(* streamOpenAI in internal/proxy/openai.go.  Text is forwarded as it      *)
(* arrives; every chunk that carries tool-call data is held until a finish *)
(* chunk, or the end of the stream, resolves all of them together.         *)
(***************************************************************************)
EXTENDS StreamState

CONSTANTS
  Index,              \* tool-call indexes
  Sizes,              \* byte lengths of a chunk
  MaxToolCallBytes,   \* cap on the held-back tool-call data
  MaxFrames,          \* bound on the frames of an orderly upstream
  MaxFreeFrames,      \* bound on the frames of any other upstream
  OtherContents       \* contents of frames without choices

ASSUME SizeAssumption == MaxToolCallBytes \in Nat /\ Sizes \subseteq Nat
ASSUME BoundAssumption ==
  MaxFrames \in Nat /\ MaxFreeFrames \in Nat

VARIABLES
  phase,         \* "reading", "closing" (readSSE returned), "done"
  toolArgs,      \* per index: the inspector of its arguments
  toolName,      \* per index: the last name seen
  content,       \* assistant text given to the text inspector
  oversized,
  bufChunks,     \* held chunks; bufContent is the text inside them
  bufBytes,
  droppedTool,
  upstream,      \* what the upstream has sent
  heldCalls,     \* history: calls opened since the last resolution
  settled        \* history: resolved calls, clean or not, sent or dropped

callVars == <<toolArgs, toolName, content>>
bufVars  == <<oversized, bufChunks, bufBytes>>
history  == <<heldCalls, settled>>
vars == <<stateVars, callVars, bufVars, phase, droppedTool, upstream, history>>

-----------------------------------------------------------------------------
(* Chunks *)

NoFrag == "none"

ASSUME FragAssumption == NoFrag \notin Frag

ToolDelta == [index : Index, name : Name, frag : Frag \cup {NoFrag}]

\* A chunk carries at most one tool-call delta.
NoTool == <<>>
Chunk(t, d, r) == [kind |-> "chunk", text |-> t, tools |-> d, finish |-> r]

HasTool(f) == f.tools # NoTool
Tool(f)    == f.tools[1]

\* Text, tool-call data and a finish reason may share a chunk.
Chunks == [kind : {"chunk"}, text : Frag \cup {NoFrag},
           tools : {<<e>> : e \in ToolDelta} \cup {NoTool},
           finish : {"", "tool_calls", "stop"}]

Done     == [kind |-> "done"]
Other(c) == [kind |-> "other", content |-> c]

Frame == Chunks \cup {Done} \cup {Other(c) : c \in OtherContents}

\* Chunks of the proxy's own.
TextChunk(t)   == Chunk(t, NoTool, "")
FinishChunk(r) == Chunk(NoFrag, NoTool, r)
NoteChunk      == [kind |-> "note"]

\* The text of some chunks, each as a chunk of its own.
TextChunks(fs) ==
  LET upTo[k \in 0..Len(fs)] ==
        IF k = 0 THEN <<>>
        ELSE IF fs[k].text = NoFrag THEN upTo[k - 1]
        ELSE Append(upTo[k - 1], TextChunk(fs[k].text))
  IN upTo[Len(fs)]

-----------------------------------------------------------------------------
(* The upstream *)

\* An orderly upstream names a call in its first delta only, sends tool-call
\* data in chunks of its own, one finish reason, then [DONE], then nothing;
\* another one sends any chunks in any order.
UpstreamInit(orderly) ==
  [stage |-> "chunks", opened |-> {}, sent |-> 0, orderly |-> orderly]

\* The first delta of a call carries its name, the following ones do not.
NamesOnce(f) ==
  HasTool(f) => (Tool(f).name # NoName <=> Tool(f).index \notin upstream.opened)

Unmixed(f) == HasTool(f) => f.text = NoFrag /\ f.finish = ""

Conforming(f) ==
  CASE f.kind = "chunk" -> upstream.stage = "chunks" /\ NamesOnce(f) /\ Unmixed(f)
    [] f.kind = "done"  -> upstream.stage = "finished"
    [] OTHER            -> upstream.stage # "done"

MaySend(f) ==
  IF upstream.orderly THEN upstream.sent < MaxFrames /\ Conforming(f)
  ELSE upstream.sent < MaxFreeFrames

\* Only the chunks of an orderly upstream are followed.
AfterSending(f) ==
  IF ~upstream.orderly THEN [upstream EXCEPT !.sent = @ + 1] ELSE
  [ upstream EXCEPT
      !.stage  = CASE f.kind = "done" -> "done"
                   [] f.kind = "chunk" /\ f.finish # "" -> "finished"
                   [] OTHER -> @,
      !.opened = IF f.kind = "chunk" /\ HasTool(f)
                 THEN @ \cup {Tool(f).index} ELSE @,
      !.sent   = @ + 1 ]

\* The frames readSSE may deliver now.
Arriving == IF phase = "reading" THEN {f \in Frame : MaySend(f)} ELSE {}

Receive(f) ==
  /\ phase = "reading" /\ MaySend(f)
  /\ upstream' = AfterSending(f)

\* A callback that returns an error makes readSSE return.
Proceed == phase' = IF failed' THEN "closing" ELSE "reading"

-----------------------------------------------------------------------------
(* accumulate: what a chunk adds to the calls and the findings *)

\* An inspector holds what it has not scanned yet and what it has found.
NoInspector  == [live |-> FALSE, pending |-> <<>>, found |-> {}]
NewInspector == [live |-> TRUE, pending |-> <<>>, found |-> {}]

Finished(si) ==
  [si EXCEPT !.pending = <<>>, !.found = @ \cup Inspect(si.pending)]

WriteArgs(d) ==
  LET si == IF toolArgs[d.index].live THEN toolArgs[d.index] ELSE NewInspector
  IN [toolArgs EXCEPT ![d.index] =
        IF d.frag = NoFrag THEN si
        ELSE [si EXCEPT !.pending = Append(@, d.frag)]]

\* A new name is checked; a call without one is checked when it opens.
Checks(d) ==
  IF d.name # NoName THEN toolName[d.index] # d.name ELSE ~toolArgs[d.index].live

NameFindings(f) ==
  IF HasTool(f) /\ Checks(Tool(f)) THEN CheckToolCall(Tool(f).name) ELSE {}

ToolNameAfter(f) ==
  IF HasTool(f) /\ Tool(f).name # NoName
  THEN [toolName EXCEPT ![Tool(f).index] = Tool(f).name] ELSE toolName

ArgsAfter(f)    == IF HasTool(f) /\ ~oversized THEN WriteArgs(Tool(f)) ELSE toolArgs
SawToolAfter(f) == sawTool \/ (HasTool(f) /\ Checks(Tool(f)))

Accumulate(f) ==
  /\ content' = IF f.text = NoFrag THEN content ELSE Append(content, f.text)
  /\ toolName' = ToolNameAfter(f)
  /\ sawTool' = SawToolAfter(f)

\* The cap on held chunks.
Exceeds(f, n)  == HasTool(f) /\ ~oversized /\ bufBytes + n > MaxToolCallBytes
OverAfter(f, n) == oversized \/ Exceeds(f, n)
Buffers(f, n)  == HasTool(f) /\ ~OverAfter(f, n)

Buffer(f, n) ==
  /\ oversized' = OverAfter(f, n)
  /\ bufBytes' = IF Exceeds(f, n) THEN 0
                 ELSE IF Buffers(f, n) THEN bufBytes + n ELSE bufBytes

ChunksAfter(f, n) ==
  IF Exceeds(f, n) THEN <<>>
  ELSE IF Buffers(f, n) THEN Append(bufChunks, f) ELSE bufChunks

-----------------------------------------------------------------------------
(* History of calls, for the abstract promise *)

\* A call is what one index receives between two resolutions.
NoCall == [clean |-> TRUE, args |-> <<>>]

Opened(f, over) ==
  IF ~HasTool(f) THEN heldCalls
  ELSE LET d == Tool(f)
           c == IF d.index \in DOMAIN heldCalls THEN heldCalls[d.index] ELSE NoCall
           a == IF d.frag = NoFrag THEN c.args ELSE Append(c.args, d.frag)
           new == [ clean |-> /\ c.clean /\ ~over /\ ~Signature(a)
                              /\ declaredTools # {}
                              /\ d.name \in declaredTools \cup {NoName},
                    args  |-> a ]
       IN [i \in DOMAIN heldCalls \cup {d.index} |->
             LET e == IF i = d.index THEN new ELSE heldCalls[i]
             IN [e EXCEPT !.clean = @ /\ ~over]]

Settle(calls, fate) ==
  /\ settled' = Append(settled,
       [i \in DOMAIN calls |-> [clean |-> calls[i].clean, fate |-> fate]])
  /\ heldCalls' = <<>>

-----------------------------------------------------------------------------
(* finalize *)

\* Mutant: the inspectors are not finished, what is pending is not read.
ToolsUnfinished(args) == UNION {args[i].found : i \in Index}

Tools(args) == UNION {Finished(args[i]).found : i \in Index}

\* Mutant: the size does not count.
DropsAnySize(args, fs, saw, over) ==
  saw /\ (IsHigh(fs \cup Tools(args)) \/ declaredTools = {})

Drops(args, fs, saw, over) ==
  /\ saw
  /\ \/ IsHigh(Tools(args)) \/ IsHigh(fs \cup Tools(args))
     \/ declaredTools = {}
     \/ over

FinalFindings(args, fs, saw, over) ==
  fs \cup Tools(args)
     \cup {r \in {"oversized-call"} : Drops(args, fs, saw, over) /\ over}

\* Mutants: the text of the finish chunk is lost; the upstream's finish reason
\* is sent as well.
FinishTextLost(chunks, finish) ==
  TextChunks(chunks) \o <<NoteChunk, FinishChunk("stop")>>
FinishTwice(chunks, finish) ==
  TextChunks(chunks) \o finish \o <<NoteChunk, FinishChunk("stop")>>

\* What the client gets for dropped calls: their chunks' text, then the note and
\* a finish chunk of the proxy's own.
Replacement(chunks, finish) ==
  TextChunks(chunks) \o TextChunks(finish) \o <<NoteChunk, FinishChunk("stop")>>

\* Resolve the held chunks, given the state accumulate left.  finish is the
\* finish chunk that was not held, as a sequence of at most one.  The chunks
\* stay in the buffer when a write fails before all of it was written.
Finalize(args, fs, saw, over, chunks, finish, calls) ==
  LET drop == Drops(args, fs, saw, over)
      frames == IF drop THEN Replacement(chunks, finish) ELSE chunks \o finish
      needed == IF drop THEN Len(frames) - 1 ELSE Len(chunks)
  IN /\ Emit(frames)
     /\ bufChunks' = IF Len(out') - Len(out) >= needed THEN <<>> ELSE chunks
     /\ droppedTool' = (droppedTool \/ drop)
     /\ toolArgs' = [i \in Index |->
          IF args[i].live THEN Finished(args[i]) ELSE args[i]]
     /\ Settle(calls, IF drop THEN "dropped" ELSE "sent")

-----------------------------------------------------------------------------
(* Frame handlers *)

ForwardDone(f) ==
  /\ f.kind = "done"
  /\ Receive(f)
  /\ Emit(<<f>>)
  /\ Proceed
  /\ UNCHANGED <<declaredTools, findings, sawTool, blocked, callVars, bufVars,
                 droppedTool, history>>

\* Not JSON, or without choices: inspected as an error frame, forwarded.
ForwardOther(f) ==
  /\ f.kind = "other"
  /\ Receive(f)
  /\ findings' = findings \cup Inspect(f.content)
  /\ Emit(<<f>>)
  /\ Proceed
  /\ UNCHANGED <<declaredTools, sawTool, blocked, callVars, bufVars,
                 droppedTool, history>>

\* A chunk without finish reason: tool-call data is held, and past the cap
\* nothing is forwarded any more; text alone goes straight to the client.
HoldChunk(f, n) ==
  /\ f.kind = "chunk" /\ f.finish = ""
  /\ HasTool(f) \/ oversized
  /\ Receive(f)
  /\ Accumulate(f)
  /\ toolArgs' = ArgsAfter(f)
  /\ findings' = findings \cup NameFindings(f)
  /\ Buffer(f, n)
  /\ bufChunks' = ChunksAfter(f, n)
  /\ heldCalls' = Opened(f, OverAfter(f, n))
  /\ UNCHANGED <<declaredTools, blocked, out, failed, phase, droppedTool,
                 settled>>

ForwardChunk(f) ==
  /\ f.kind = "chunk" /\ f.finish = ""
  /\ ~HasTool(f) /\ ~oversized
  /\ Receive(f)
  /\ Accumulate(f)
  /\ Emit(<<f>>)
  /\ Proceed
  /\ UNCHANGED <<declaredTools, findings, blocked, toolArgs, bufVars,
                 droppedTool, history>>

ResolveChunk(f, n) ==
  LET args == ArgsAfter(f)
      fs   == findings \cup NameFindings(f)
      saw  == SawToolAfter(f)
      over == OverAfter(f, n)
  IN
  /\ f.kind = "chunk" /\ f.finish # ""
  /\ Receive(f)
  /\ Accumulate(f)
  /\ Buffer(f, n)
  /\ Finalize(args, fs, saw, over, ChunksAfter(f, n),
              IF Buffers(f, n) THEN <<>> ELSE <<f>>, Opened(f, over))
  /\ findings' = FinalFindings(args, fs, saw, over)
  /\ Proceed
  /\ UNCHANGED <<declaredTools, blocked>>

-----------------------------------------------------------------------------
(* Oversized input and the end of the stream *)

OnOversized ==
  /\ phase = "reading"
  /\ upstream.stage # "done"
  /\ findings' = findings \cup {"oversized-sse"}
  /\ blocked' = TRUE
  /\ bufChunks' = <<>>
  /\ toolArgs' = [i \in Index |-> NoInspector]
  /\ Emit(<<NoteChunk, FinishChunk("stop"), Done>>)
  /\ phase' = "closing"
  /\ Settle([i \in DOMAIN heldCalls |-> [heldCalls[i] EXCEPT !.clean = FALSE]],
            "dropped")
  /\ UNCHANGED <<declaredTools, sawTool, toolName, content, oversized, bufBytes,
                 droppedTool, upstream>>

\* The upstream body ends, or reading it fails.
UpstreamEnds ==
  /\ phase = "reading"
  /\ phase' = "closing"
  /\ UNCHANGED <<stateVars, callVars, bufVars, droppedTool, upstream, history>>

\* Chunks held without a finish chunk, or dropped for their size, are resolved.
Unresolved == bufChunks # <<>> \/ oversized

Close ==
  /\ phase = "closing"
  /\ phase' = "done"
  /\ IF Unresolved
     THEN /\ Finalize(toolArgs, findings, sawTool, oversized, bufChunks, <<>>,
                      heldCalls)
          /\ findings' = FinalFindings(toolArgs, findings, sawTool, oversized)
                           \cup Inspect(content)
     ELSE /\ findings' = findings \cup Inspect(content)
          /\ UNCHANGED <<out, failed, bufChunks, droppedTool, toolArgs, history>>
  /\ blocked' = (blocked \/ droppedTool')
  /\ UNCHANGED <<declaredTools, sawTool, toolName, content, oversized, bufBytes,
                 upstream>>

-----------------------------------------------------------------------------

Init ==
  /\ StateInit
  /\ phase = "reading"
  /\ toolArgs = [i \in Index |-> NoInspector]
  /\ toolName = [i \in Index |-> NoName]
  /\ content = <<>>
  /\ oversized = FALSE /\ bufChunks = <<>> /\ bufBytes = 0
  /\ droppedTool = FALSE
  /\ \E orderly \in BOOLEAN : upstream = UpstreamInit(orderly)
  /\ heldCalls = <<>> /\ settled = <<>>

OnEvent ==
  \E f \in Arriving :
    \/ ForwardDone(f)
    \/ ForwardOther(f)
    \/ \E n \in Sizes : HoldChunk(f, n) \/ ResolveChunk(f, n)
    \/ ForwardChunk(f)

Next == OnEvent \/ OnOversized \/ UpstreamEnds \/ Close

Spec == Init /\ [][Next]_vars

-----------------------------------------------------------------------------
(* Properties *)

IsChunk(p) == p \in DOMAIN out /\ out[p].kind = "chunk"

\* Two fragments of one call with no other between them, in the chunks the client
\* received.
IsArg(i, p) ==
  IsChunk(p) /\ HasTool(out[p]) /\ Tool(out[p]).index = i /\ Tool(out[p]).frag # NoFrag
NextArg(i, p, q) ==
  IsArg(i, p) /\ IsArg(i, q) /\ p < q /\ \A k \in (p + 1)..(q - 1) : ~IsArg(i, k)

\* When the upstream is orderly every tool call the client can assemble from the
\* chunks it received carries declared names only, and arguments without the
\* high-severity signature (openai.go:99, 123-176).
SentCallsVerified ==
  upstream.orderly =>
    /\ \A p \in DOMAIN out :
         IsChunk(p) /\ HasTool(out[p]) =>
           declaredTools # {} /\ Tool(out[p]).name \in declaredTools \cup {NoName}
    /\ ~ \E i \in Index : \E p, q \in DOMAIN out :
         NextArg(i, p, q) /\ Tool(out[p]).frag = "head" /\ Tool(out[q]).frag = "tail"

\* How often a fragment occurs as text in what the client received, and in what
\* the upstream sent.
Received(g) == Cardinality({p \in DOMAIN out : IsChunk(p) /\ out[p].text = g})
SentAs(g)   == Cardinality({q \in DOMAIN content : content[q] = g})

\* When the response is complete the client has received every piece of text
\* exactly once, whether or not it shared a chunk with a replaced tool call
\* (openai.go:146), as long as nothing was oversized.
TextDelivered ==
  phase = "done" /\ ~failed /\ findings \cap {"oversized-call", "oversized-sse"} = {}
    => \A g \in Frag : Received(g) = SentAs(g)

\* Up to position n the stream reads as it should: one finish chunk, and [DONE] is
\* the last of it.
Finishes(p) == IsChunk(p) /\ out[p].finish # ""
CleanUpTo(n) ==
  /\ \A p, q \in 1..n : Finishes(p) /\ Finishes(q) => p = q
  /\ \A p \in 1..n : out[p] = Done => p = n

\* What follows position n is a second replacement, or what a client that went away
\* has of it.
ReplacedAgain(n) ==
  /\ oversized /\ phase = "done"
  /\ n + 1 = Len(out) \/ (n + 2 = Len(out) /\ out[n + 2] = FinishChunk("stop"))
  /\ out[n + 1] = NoteChunk

\* The stream of an orderly upstream ends cleanly for the client: it sees one
\* finish reason, never "tool_calls" once a call was replaced (openai.go:157-160),
\* and [DONE] is the last thing it reads.  The one exception is a call over the cap:
\* `oversized` is never reset, so the calls the finish chunk resolved are replaced
\* again when the stream is over (openai.go:246), and a note and a finish chunk
\* follow [DONE].  Nothing is said of a stream with an oversized line or frame.
EndsCleanly ==
  upstream.orderly /\ "oversized-sse" \notin findings =>
    /\ \E n \in 0..Len(out) :
         CleanUpTo(n) /\ (n = Len(out) \/ ReplacedAgain(n))
    /\ \A p, q \in DOMAIN out :
         out[p] = NoteChunk /\ IsChunk(q) => out[q].finish # "tool_calls"

-----------------------------------------------------------------------------
(* The abstract promise: a call is <<resolution, index>>. *)

HeldIds == {<<Len(settled) + 1, i>> : i \in DOMAIN heldCalls}
SettledIds == UNION {{<<b, i>> : i \in DOMAIN settled[b]} : b \in DOMAIN settled}
FateIs(c, fate) == settled[c[1]][c[2]].fate = fate

Guard == INSTANCE CallGuard WITH
  Call    <- Nat \X Index,
  held    <- HeldIds,
  sent    <- {c \in SettledIds : FateIs(c, "sent")},
  dropped <- {c \in SettledIds : FateIs(c, "dropped")},
  tainted <- {c \in SettledIds : ~settled[c[1]][c[2]].clean}
               \cup {c \in HeldIds : ~heldCalls[c[2]].clean},
  gone    <- failed,
  ended   <- phase = "done",
  blocked <- blocked

\* Calls are held, released only when clean, settled for good and reported.
GuardSpec == Guard!Spec
=============================================================================
