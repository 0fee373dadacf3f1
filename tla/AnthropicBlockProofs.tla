------------------------- MODULE AnthropicBlockProofs -------------------------
(***************************************************************************)
(* Proofs about AnthropicBlock, for any number of blocks, frames, names    *)
(* and fragments, any upstream, and a client that may go at any write:     *)
(* the held data stays within its cap (TypesHold), the calls a client can  *)
(* see are verified (CallsAreVerified), the stop reason follows the notes  *)
(* (StopReasonFollowsNote), no clean call is dropped (OnlyUncleanDropped), *)
(* the content array stays contiguous (BlocksStayContiguous), and the      *)
(* handler implements CallGuard (ImplementsGuard).                         *)
(*                                                                         *)
(* The properties speak of `out`, which the handler never reads: what it   *)
(* releases is `bufRaw`, decided upon by `bufInspect`, `bufName` and       *)
(* `nameFindings`.  The invariant IInv ties these together.                *)
(*  - Settled: the findings kept are those about the call that is held,    *)
(*    and every resolved call was sent if and only if it was clean.        *)
(*  - Holding, OrderlyHolding: the held frames start with the call, hold   *)
(*    no end of it, and the inspector was given the fragments that are in  *)
(*    them, in their order (Given).                                        *)
(*  - InStep: the block an orderly upstream has open is the one held.      *)
(*  - Noted: a note in the stream is remembered by droppedTool, or no call *)
(*    can follow it.                                                       *)
(*  - CallsClosed: while the client is there, the calls it has seen are    *)
(*    over, so that a frame written later adds nothing to them.            *)
(*  - Contiguous: the upstream's next block is numbered after the last one *)
(*    the client saw, whether that one is the upstream's or a note.        *)
(***************************************************************************)
EXTENDS AnthropicBlock, Integers, SequenceTheorems, TLAPS

-----------------------------------------------------------------------------
(* Frames *)

OutFrame == Frame \cup {NoteDelta(i) : i \in Index}

LEMMA FrameIs ==
  ASSUME NEW f \in Frame
  PROVE  /\ f.kind \in {"tool_start", "text_start", "arg_delta", "text_delta",
                        "block_stop", "message_delta", "error", "message_stop",
                        "ping", "unparsed"}
         /\ Opens(f) \/ f.kind \in {"arg_delta", "block_stop"} => f.index \in Index
         /\ f.kind = "tool_start" => f.name \in Name /\ f = ToolStart(f.index, f.name)
         /\ f.kind \in {"arg_delta", "text_delta"} => f.frag \in Frag
         /\ f.kind = "block_stop" => f = BlockStop(f.index)
         /\ f.kind = "message_delta" => f.reason \in StopReason
         /\ f.kind = "error" => f.content \in ErrorContents
<1>1. CASE \E i \in Index, n \in Name : f = ToolStart(i, n)
  BY <1>1 DEF ToolStart, Opens
<1>2. CASE \E i \in Index, g \in Frag : f = ArgDelta(i, g)
  BY <1>2 DEF ArgDelta, Opens
<1>3. CASE \E i \in Index, g \in Frag : f = TextDelta(i, g)
  BY <1>3 DEF TextDelta, Opens
<1>4. CASE \E i \in Index : f = TextStart(i)
  BY <1>4 DEF TextStart, Opens
<1>5. CASE \E i \in Index : f = BlockStop(i)
  BY <1>5 DEF BlockStop, Opens
<1>6. CASE \E r \in StopReason : f = MessageDelta(r)
  BY <1>6 DEF MessageDelta, Opens
<1>7. CASE \E c \in ErrorContents : f = ErrorFrame(c)
  BY <1>7 DEF ErrorFrame, Opens
<1>8. CASE \E k \in Interludes \cup {"message_stop"} : f = Plain(k)
  BY <1>8, FrameAssumption DEF Plain, Opens
<1> QED BY <1>1, <1>2, <1>3, <1>4, <1>5, <1>6, <1>7, <1>8 DEF Frame

LEMMA FramesWritten ==
  /\ \A i \in Index : TextStart(i) \in Frame /\ BlockStop(i) \in Frame
  /\ \A r \in StopReason : MessageDelta(r) \in Frame
  /\ Plain("message_stop") \in Frame
<1>1. \A i \in Index : TextStart(i) \in Frame /\ BlockStop(i) \in Frame
  BY DEF Frame
<1>2. \A r \in StopReason : MessageDelta(r) \in Frame
  BY DEF Frame
<1>3. Plain("message_stop") \in Frame
  BY DEF Frame
<1> QED BY <1>1, <1>2, <1>3

\* What tells the frames apart.
LEMMA FramesDiffer ==
  /\ \A i : BlockStop(i).kind = "block_stop" /\ BlockStop(i).index = i
  /\ \A i : TextStart(i).kind = "text_start" /\ TextStart(i).index = i
  /\ \A i : NoteDelta(i).kind = "note" /\ NoteDelta(i).index = i
  /\ \A i, n : /\ ToolStart(i, n).kind = "tool_start" /\ ToolStart(i, n).index = i
               /\ ToolStart(i, n).name = n
  /\ \A r : MessageDelta(r).kind = "message_delta" /\ MessageDelta(r).reason = r
  /\ \A k : Plain(k).kind = k
BY DEF BlockStop, TextStart, NoteDelta, ToolStart, MessageDelta, Plain

LEMMA NoteIs ==
  ASSUME NEW i \in Index
  PROVE  /\ Note(i) \in Seq(OutFrame) /\ Len(Note(i)) = 3
         /\ Note(i)[1] = TextStart(i) /\ Note(i)[2] = NoteDelta(i)
         /\ Note(i)[3] = BlockStop(i)
BY FramesWritten DEF Note, OutFrame

-----------------------------------------------------------------------------
(* The upstream *)

Upstreams ==
  [open : {"none", "tool_start", "text_start"}, next : Nat,
   stage : {"blocks", "delta", "stopped"},
   sent : 0..(MaxFrames + MaxFreeFrames), orderly : BOOLEAN]

LEMMA Received ==
  ASSUME upstream \in Upstreams, NEW f \in Frame, Receive(f)
  PROVE  /\ upstream' \in Upstreams /\ upstream'.orderly = upstream.orderly
         /\ upstream.orderly =>
              /\ Conforming(f)
              /\ upstream'.open = IF Opens(f) THEN f.kind
                                  ELSE IF f.kind = "block_stop" THEN "none"
                                  ELSE upstream.open
              /\ upstream'.next = IF f.kind = "block_stop" THEN upstream.next + 1
                                  ELSE upstream.next
<1> USE BoundAssumption
<1>1. upstream.sent + 1 \in 0..(MaxFrames + MaxFreeFrames)
  BY DEF Receive, MaySend, Upstreams
<1>2. CASE ~upstream.orderly
  <2>1. upstream' = [upstream EXCEPT !.sent = upstream.sent + 1]
    BY <1>2 DEF Receive, AfterSending
  <2> QED BY <1>1, <1>2, <2>1 DEF Upstreams
<1>3. CASE upstream.orderly
  <2> DEFINE o == IF Opens(f) THEN f.kind
                  ELSE IF f.kind = "block_stop" THEN "none" ELSE upstream.open
             n == IF f.kind = "block_stop" THEN upstream.next + 1 ELSE upstream.next
             s == IF f.kind = "message_delta" THEN "delta"
                  ELSE IF f.kind = "message_stop" THEN "stopped" ELSE upstream.stage
  <2>1. ~(Opens(f) /\ f.kind = "block_stop")
    BY DEF Opens
  <2>2. upstream' = [upstream EXCEPT !.open = o, !.next = n, !.stage = s,
                                     !.sent = upstream.sent + 1]
    BY <1>3, <2>1 DEF Receive, AfterSending
  <2>3. /\ o \in {"none", "tool_start", "text_start"} /\ n \in Nat
        /\ s \in {"blocks", "delta", "stopped"}
    BY DEF Upstreams, Opens
  <2> HIDE DEF o, n, s
  <2>4. /\ upstream' \in Upstreams /\ upstream'.orderly = upstream.orderly
        /\ upstream'.open = o /\ upstream'.next = n
    BY <1>1, <2>2, <2>3 DEF Upstreams
  <2> QED BY <1>3, <2>4 DEF o, n, Receive, MaySend
<1> QED BY <1>2, <1>3 DEF Upstreams

-----------------------------------------------------------------------------
(* Writing, and judging a call *)

\* The first k of the frames follow what was written before.
Adds(frames, k) ==
  /\ k \in 0..Len(frames) /\ (failed => k = 0)
  /\ failed' = (failed \/ k < Len(frames))
  /\ out' \in Seq(OutFrame) /\ Len(out') = Len(out) + k
  /\ \A p \in 1..Len(out) : out'[p] = out[p]
  /\ \A j \in 1..k : out'[Len(out) + j] = frames[j]

LEMMA EmitAdds ==
  ASSUME out \in Seq(OutFrame), failed \in BOOLEAN, NEW frames \in Seq(OutFrame),
         Emit(frames)
  PROVE  \E k \in Nat : Adds(frames, k)
<1>1. PICK k \in IF failed THEN {0} ELSE 0..Len(frames) :
        /\ out' = out \o SubSeq(frames, 1, k)
        /\ failed' = (failed \/ k < Len(frames))
  BY DEF Emit
<1>2. k \in 0..Len(frames) /\ Len(frames) \in Nat /\ (failed => k = 0)
  BY <1>1
<1>3. PICK s : s = SubSeq(frames, 1, k)
  OBVIOUS
<1>4. s \in Seq(OutFrame) /\ Len(s) = k /\ \A j \in 1..k : s[j] = frames[j]
  BY <1>2, <1>3
<1>5. out' = out \o s
  BY <1>1, <1>3
<1>6. /\ out' \in Seq(OutFrame) /\ Len(out') = Len(out) + k
      /\ \A p \in 1..Len(out) : out'[p] = out[p]
      /\ \A j \in 1..k : out'[Len(out) + j] = s[j]
  <2>1. out \o s \in Seq(OutFrame) /\ Len(out \o s) = Len(out) + Len(s)
    BY <1>4, ConcatProperties
  <2>2. \A p \in 1..Len(out) : (out \o s)[p] = out[p]
    BY <1>4
  <2>3. \A j \in 1..k : (out \o s)[Len(out) + j] = s[j]
    BY <1>2, <1>4
  <2> QED BY <1>4, <1>5, <2>1, <2>2, <2>3
<1> QED BY <1>1, <1>2, <1>4, <1>6 DEF Adds

LEMMA InspectIs ==
  ASSUME NEW c
  PROVE  Inspect(c) \subseteq Rules /\ (IsHigh(Inspect(c)) <=> Signature(c))
<1>1. "rule-medium" \notin HighRules /\ "rule-high" \in HighRules
  BY DEF HighRules
<1> QED BY <1>1 DEF Inspect, IsHigh, Rules

LEMMA CheckIs ==
  ASSUME NEW n
  PROVE  /\ CheckToolCall(n) \subseteq HighRules /\ CheckToolCall(n) \subseteq Rules
         /\ IsHigh(CheckToolCall(n)) <=>
              declaredTools = {} \/ n \notin declaredTools \cup {NoName}
BY DEF CheckToolCall, HighRules, Rules, IsHigh

\* The code keeps the findings about the name; the verdict is that of the call.
LEMMA DroppedUnlessClean ==
  ASSUME nameFindings = CheckToolCall(bufName), NEW insp, NEW over
  PROVE  DropsTool(insp, over) <=> ~Clean(bufName, insp, over)
BY InspectIs, CheckIs DEF DropsTool, Clean

LEMMA Longer ==
  ASSUME NEW c \in Seq(Frag), NEW g \in Frag
  PROVE  /\ Append(c, g) \in Seq(Frag)
         /\ Signature(c) => Signature(Append(c, g))
         /\ c # <<>> /\ c[Len(c)] = "head" /\ g = "tail" => Signature(Append(c, g))
<1>1. PICK d : d = Append(c, g)
  OBVIOUS
<1>2. /\ d \in Seq(Frag) /\ Len(d) = Len(c) + 1 /\ Len(c) \in Nat
      /\ \A i \in 1..Len(c) : d[i] = c[i]
      /\ d[Len(c) + 1] = g
  BY <1>1
<1>3. Signature(c) => Signature(d)
  BY <1>2 DEF Signature
<1>4. ASSUME c # <<>>, c[Len(c)] = "head", g = "tail" PROVE Signature(d)
  <2>1. Len(c) \in 1..(Len(d) - 1)
    BY <1>2, <1>4
  <2>2. d[Len(c)] = "head" /\ d[Len(c) + 1] = "tail"
    BY <1>2, <1>4, <2>1
  <2> QED BY <2>1, <2>2 DEF Signature
<1> QED BY <1>1, <1>2, <1>3, <1>4

-----------------------------------------------------------------------------
(* What is held *)

\* The held data after one more frame.
LEMMA HeldIs ==
  ASSUME TypeOK, NEW f \in Frame, NEW n \in Sizes, NEW d \in DeltaSizes(f),
         NEW h, h = Held(f, n, d)
  PROVE  /\ h.raw \in Seq(Frame) /\ h.insp \in Seq(Frag) /\ h.over \in BOOLEAN
         /\ h.bytes \in 0..MaxToolCallBytes
         /\ oversized => h.over
         /\ Signature(bufInspect) => Signature(h.insp)
         /\ ~h.over => /\ h.raw = Append(bufRaw, f)
                       /\ h.insp = IF f.kind = "arg_delta"
                                   THEN Append(bufInspect, f.frag) ELSE bufInspect
<1>0. PICK g : g = h
  OBVIOUS
<1>1. n \in 0..MaxToolCallBytes /\ d \in 0..MaxToolCallBytes /\ MaxToolCallBytes \in Nat
  BY SizeAssumption DEF DeltaSizes
<1>2. /\ bufRaw \in Seq(Frame) /\ bufInspect \in Seq(Frag) /\ oversized \in BOOLEAN
      /\ bufBytes \in 0..MaxToolCallBytes
  BY DEF TypeOK
<1>3. f.kind = "arg_delta" => f.frag \in Frag
  BY FrameIs
<1>4. Append(bufRaw, f) \in Seq(Frame)
  BY <1>2
<1>5. f.kind = "arg_delta" =>
        /\ Append(bufInspect, f.frag) \in Seq(Frag)
        /\ Signature(bufInspect) => Signature(Append(bufInspect, f.frag))
  BY <1>2, <1>3, Longer
<1>6. /\ g.raw = IF Holds(n, d) THEN Append(bufRaw, f)
                 ELSE IF Exceeds(n, d) THEN <<>> ELSE bufRaw
      /\ g.insp = IF Holds(n, d) /\ f.kind = "arg_delta"
                  THEN Append(bufInspect, f.frag) ELSE bufInspect
      /\ g.bytes = IF Holds(n, d) THEN bufBytes + n + d
                   ELSE IF Exceeds(n, d) THEN 0 ELSE bufBytes
      /\ g.over = (oversized \/ Exceeds(n, d))
  BY <1>0 DEF Held
<1>7. g.raw \in Seq(Frame)
  BY <1>2, <1>4, <1>6
<1>8. g.insp \in Seq(Frag) /\ (Signature(bufInspect) => Signature(g.insp))
  BY <1>2, <1>5, <1>6
<1>9. g.bytes \in 0..MaxToolCallBytes
  BY <1>1, <1>2, <1>6 DEF Holds
<1>10. g.over \in BOOLEAN /\ (oversized => g.over)
  BY <1>2, <1>6 DEF Exceeds
<1>11. oversized \/ Exceeds(n, d) \/ Holds(n, d)
  BY <1>1, <1>2 DEF Holds, Exceeds
<1>12. ~g.over => Holds(n, d)
  BY <1>6, <1>11
<1> QED BY <1>0, <1>6, <1>7, <1>8, <1>9, <1>10, <1>12

-----------------------------------------------------------------------------
(* The invariant *)

\* Every resolved call was sent if it was clean and dropped otherwise.
Settled ==
  /\ buffering => nameFindings = CheckToolCall(bufName)
  /\ \A i \in DOMAIN ledger : ledger[i].fate = "sent" <=> ledger[i].clean
  /\ (\E i \in DOMAIN ledger : ledger[i].fate = "dropped") => droppedTool \/ blocked
  /\ phase = "done" => ~buffering

\* The held data starts with the start of the call, and its end is not in it.
Holding ==
  buffering /\ ~oversized =>
    /\ Len(bufRaw) > 0 /\ bufRaw[1] = ToolStart(bufIndex, bufName)
    /\ \A k \in 2..Len(bufRaw) : bufRaw[k] # BlockStop(bufIndex)

\* Of what follows an orderly upstream's start the rest are fragments of its
\* arguments, and frames of no block.
InCall == {"arg_delta", "error", "message_stop", "ping", "unparsed"}
PartOfCall(f) == f.kind \in InCall /\ (f.kind = "arg_delta" => f.index = bufIndex)

\* In the frames r two fragments with no other between them.
ArgIn(r, q) == q \in DOMAIN r /\ r[q].kind = "arg_delta"
NextIn(r, p, q) ==
  ArgIn(r, p) /\ ArgIn(r, q) /\ p < q /\ \A k \in (p + 1)..(q - 1) : ~ArgIn(r, k)
LastIn(r, q) == ArgIn(r, q) /\ \A k \in (q + 1)..Len(r) : ~ArgIn(r, k)

\* The inspector was given the fragments in r, in their order.
Given(r, insp) ==
  /\ \A p, q \in DOMAIN r :
       NextIn(r, p, q) /\ r[p].frag = "head" /\ r[q].frag = "tail" => Signature(insp)
  /\ \A q \in DOMAIN r :
       LastIn(r, q) => insp # <<>> /\ r[q].frag = insp[Len(insp)]

OrderlyHolding ==
  upstream.orderly /\ buffering /\ ~oversized =>
    /\ \A k \in 2..Len(bufRaw) : PartOfCall(bufRaw[k])
    /\ Given(bufRaw, bufInspect)

\* A note in the stream is remembered, or no call follows it.
Noted ==
  (\E p \in DOMAIN out : Kind(p, "note")) =>
    droppedTool \/ failed \/ (~buffering /\ phase # "reading")

\* The block an orderly upstream has open is the one that is held.
InStep ==
  upstream.orderly =>
    /\ phase = "reading" => (buffering <=> upstream.open = "tool_start")
    /\ buffering => bufIndex = upstream.next /\ upstream.open = "tool_start"

Live == upstream.orderly /\ ~failed /\ phase # "done"

\* The calls the client has seen are over.
CallsClosed ==
  Live => \A p \in DOMAIN out : Kind(p, "tool_start") => ClosedBy(p, Len(out))

LastOpened(p) == OpenedAt(p) /\ \A k \in (p + 1)..Len(out) : ~OpenedAt(k)

\* The next block is numbered after the last one the client has seen.
Numbered ==
  IF upstream.open = "text_start"
  THEN \E p \in DOMAIN out : LastOpened(p) /\ out[p].index = upstream.next
  ELSE \/ upstream.next = 0 /\ \A p \in DOMAIN out : ~OpenedAt(p)
       \/ \E p \in DOMAIN out : /\ LastOpened(p) /\ out[p].index + 1 = upstream.next
                                /\ ClosedBy(p, Len(out))

Contiguous == Live /\ "oversized-sse" \notin findings => Numbered

CallInv == TypeOK /\ Settled
HoldInv == Holding /\ OrderlyHolding /\ InStep

IInv ==
  /\ CallInv /\ HoldInv
  /\ Noted /\ NoToolUseAfterNote
  /\ CallsClosed /\ SentCallsVerified
  /\ Contiguous /\ NoteKeepsContiguity

-----------------------------------------------------------------------------
(* Resolving a call *)

Entry == [clean : BOOLEAN, fate : {"sent", "dropped"}]

\* The ledger has one more entry.
Entered(ok) ==
  /\ ledger' \in Seq(Entry) /\ Len(ledger') = Len(ledger) + 1
  /\ \A i \in 1..Len(ledger) : ledger'[i] = ledger[i]
  /\ ledger'[Len(ledger) + 1] = [clean |-> ok, fate |-> IF ok THEN "sent" ELSE "dropped"]

LEMMA AppendEnters ==
  ASSUME ledger \in Seq(Entry), NEW ok \in BOOLEAN,
         ledger' = Append(ledger, [clean |-> ok, fate |-> IF ok THEN "sent" ELSE "dropped"])
  PROVE  Entered(ok)
<1>1. PICK e : e = [clean |-> ok, fate |-> IF ok THEN "sent" ELSE "dropped"]
  OBVIOUS
<1>2. e \in Entry
  BY <1>1 DEF Entry
<1>3. ledger' = Append(ledger, e)
  BY <1>1
<1>4. /\ ledger' \in Seq(Entry) /\ Len(ledger') = Len(ledger) + 1
      /\ \A i \in 1..Len(ledger) : ledger'[i] = ledger[i]
      /\ ledger'[Len(ledger) + 1] = e
  BY <1>2, <1>3
<1> QED BY <1>1, <1>4 DEF Entered

\* What becomes of a call is decided by what it is.
Resolves(raw, ok) ==
  /\ buffering' = FALSE
  /\ Entered(ok)
  /\ droppedTool' = (droppedTool \/ ~ok)
  /\ \E k \in Nat : Adds(IF ok THEN raw ELSE Note(bufIndex), k)

LEMMA Finalized ==
  ASSUME TypeOK, nameFindings = CheckToolCall(bufName),
         NEW raw \in Seq(Frame), NEW insp, NEW over, FinalizeTool(raw, insp, over)
  PROVE  \E ok \in BOOLEAN : ok = Clean(bufName, insp, over) /\ Resolves(raw, ok)
<1>1. PICK ok : ok = Clean(bufName, insp, over)
  OBVIOUS
<1>2. ok \in BOOLEAN /\ DropsTool(insp, over) = ~ok
  <2>1. ok \in BOOLEAN
    BY <1>1 DEF Clean
  <2>2. DropsTool(insp, over) \in BOOLEAN
    BY DEF DropsTool
  <2> QED BY <1>1, <2>1, <2>2, DroppedUnlessClean
<1>3. /\ buffering' = FALSE
      /\ Emit(IF ok THEN raw ELSE Note(bufIndex))
      /\ droppedTool' = (droppedTool \/ ~ok)
      /\ ledger' = Append(ledger, [clean |-> ok, fate |-> IF ok THEN "sent" ELSE "dropped"])
  <2>1. CASE ok
    BY <1>1, <1>2, <2>1 DEF FinalizeTool
  <2>2. CASE ~ok
    BY <1>1, <1>2, <2>2 DEF FinalizeTool
  <2> QED BY <2>1, <2>2
<1>4. Entered(ok)
  BY <1>2, <1>3, AppendEnters DEF TypeOK, Entry
<1>5. (IF ok THEN raw ELSE Note(bufIndex)) \in Seq(OutFrame)
  <2>1. raw \in Seq(OutFrame)
    BY DEF OutFrame
  <2>2. Note(bufIndex) \in Seq(OutFrame)
    BY NoteIs DEF TypeOK
  <2> QED BY <2>1, <2>2
<1>6. \E k \in Nat : Adds(IF ok THEN raw ELSE Note(bufIndex), k)
  BY <1>3, <1>5, EmitAdds DEF TypeOK, OutFrame
<1> QED BY <1>1, <1>2, <1>3, <1>4, <1>6 DEF Resolves

-----------------------------------------------------------------------------
(* Types, and the ledger *)

LEMMA AddsTyped ==
  ASSUME failed \in BOOLEAN, NEW frames, NEW k \in Nat, Adds(frames, k)
  PROVE  out' \in Seq(OutFrame) /\ failed' \in BOOLEAN
BY DEF Adds

\* One frame is written as it came, or rewritten; no held call is touched.
Forwards(f, g) ==
  /\ f \in Frame /\ g \in Frame
  /\ Receive(f) /\ Emit(<<g>>) /\ Proceed
  /\ findings \subseteq findings' /\ findings' \subseteq Rules
  /\ "oversized-sse" \in findings' => "oversized-sse" \in findings
  /\ text' \in Seq(Frag)
  /\ UNCHANGED <<declaredTools, sawTool, blocked, callVars, droppedTool, ledger>>
  /\ buffering => f.kind = "unparsed"
  /\ f.kind # "tool_start" /\ g.kind = f.kind
  /\ f.kind # "message_delta" => g = f
  /\ droppedTool => g # MessageDelta("tool_use")

LEMMA WhatForwards ==
  ASSUME TypeOK, NEW f \in Frame,
         \/ PassUnparsed(f) \/ ForwardText(f) \/ ForwardMessageDelta(f)
         \/ ForwardError(f) \/ ForwardOther(f)
  PROVE  \E g \in Frame : Forwards(f, g)
<1> USE DEF Forwards
<1>1. findings \subseteq Rules /\ text \in Seq(Frag)
  BY DEF TypeOK
<1>2. f.kind # "message_delta" => f # MessageDelta("tool_use")
  BY FramesDiffer
<1>3. CASE PassUnparsed(f)
  BY <1>1, <1>2, <1>3 DEF PassUnparsed
<1>4. CASE ForwardText(f)
  <2>1. text' = Append(text, f.frag) /\ f.frag \in Frag
    BY <1>4, FrameIs DEF ForwardText
  <2>2. text' \in Seq(Frag)
    BY <1>1, <2>1
  <2> QED BY <1>1, <1>2, <1>4, <2>2 DEF ForwardText
<1>5. CASE ForwardMessageDelta(f)
  <2>1. PICK g : g = StopFrame(f)
    OBVIOUS
  <2>2. f.kind = "message_delta" /\ f.reason \in StopReason
    BY <1>5, FrameIs DEF ForwardMessageDelta
  <2>3. g \in Frame /\ g.kind = "message_delta"
    BY <2>1, <2>2, FramesWritten, FramesDiffer DEF StopFrame, StopReason
  <2>4. droppedTool => g # MessageDelta("tool_use")
    BY <2>1, FramesDiffer DEF StopFrame
  <2> QED BY <1>1, <1>5, <2>1, <2>2, <2>3, <2>4 DEF ForwardMessageDelta
<1>6. CASE ForwardError(f)
  <2>1. findings' = findings \cup Inspect(f.content)
    BY <1>6 DEF ForwardError
  <2>2. Inspect(f.content) \subseteq Rules /\ "oversized-sse" \notin Inspect(f.content)
    BY InspectIs DEF Inspect
  <2> QED BY <1>1, <1>2, <1>6, <2>1, <2>2 DEF ForwardError
<1>7. CASE ForwardOther(f)
  BY <1>1, <1>2, <1>7 DEF ForwardOther
<1> QED BY <1>3, <1>4, <1>5, <1>6, <1>7

\* What a forwarded frame adds to the stream.
LEMMA ForwardAdds ==
  ASSUME TypeOK, NEW f, NEW g, Forwards(f, g)
  PROVE  \E k \in Nat : Adds(<<g>>, k)
<1>1. <<g>> \in Seq(OutFrame) /\ out \in Seq(OutFrame) /\ failed \in BOOLEAN
  BY DEF Forwards, TypeOK, OutFrame
<1> QED BY <1>1, EmitAdds DEF Forwards

LEMMA ForwardKeepsTypes ==
  ASSUME TypeOK, Settled, NEW f, NEW g, Forwards(f, g)
  PROVE  TypeOK' /\ Settled'
<1>1. PICK k \in Nat : Adds(<<g>>, k)
  BY ForwardAdds
<1>2. out' \in Seq(OutFrame) /\ failed' \in BOOLEAN
  BY <1>1, AddsTyped DEF TypeOK
<1>3. upstream' \in Upstreams
  BY Received DEF Forwards, TypeOK, Upstreams
<1>4. phase' \in {"reading", "closing"}
  BY DEF Forwards, Proceed
<1>5. TypeOK'
  BY <1>2, <1>3, <1>4 DEF TypeOK, Forwards, callVars, OutFrame, Upstreams
<1>6. Settled'
  BY <1>4 DEF Settled, Forwards, callVars, CheckToolCall
<1> QED BY <1>5, <1>6

LEMMA HoldKeepsTypes ==
  ASSUME TypeOK, Settled, NEW f \in Frame, NEW n \in Sizes, NEW d \in DeltaSizes(f),
         HoldFrame(f, n, d)
  PROVE  TypeOK' /\ Settled'
<1>1. PICK h : h = Held(f, n, d)
  OBVIOUS
<1>2. /\ h.raw \in Seq(Frame) /\ h.insp \in Seq(Frag) /\ h.over \in BOOLEAN
      /\ h.bytes \in 0..MaxToolCallBytes
  BY <1>1, HeldIs
<1>3. Accumulate(h)
  BY <1>1 DEF HoldFrame
<1>4. /\ UNCHANGED <<declaredTools, findings, sawTool, blocked, out, failed>>
      /\ UNCHANGED <<phase, buffering, bufIndex, bufName, nameFindings>>
      /\ UNCHANGED <<droppedTool, text, ledger>>
  BY DEF HoldFrame, stateVars
<1>5. upstream' \in Upstreams
  BY Received DEF HoldFrame, TypeOK, Upstreams
<1>6. TypeOK'
  BY <1>2, <1>3, <1>4, <1>5 DEF TypeOK, Accumulate, Upstreams
<1>7. Settled'
  BY <1>4 DEF Settled, CheckToolCall
<1> QED BY <1>6, <1>7

LEMMA StartKeepsTypes ==
  ASSUME TypeOK, Settled, NEW f \in Frame, NEW n \in Sizes, StartTool(f, n)
  PROVE  TypeOK' /\ Settled'
<1>1. f.index \in Index /\ f.name \in Name
  BY FrameIs DEF StartTool, Opens
<1>2. upstream' \in Upstreams
  BY Received DEF StartTool, TypeOK, Upstreams
<1>3. n \in 0..MaxToolCallBytes
  BY SizeAssumption
<1>4. bufRaw' \in Seq(Frame) /\ bufInspect' \in Seq(Frag)
  BY DEF StartTool
<1>5. /\ nameFindings' = CheckToolCall(f.name) /\ nameFindings' \subseteq HighRules
      /\ findings' \subseteq Rules
  BY CheckIs DEF StartTool, NewNameFindings, TypeOK
<1>6. TypeOK'
  BY <1>1, <1>2, <1>3, <1>4, <1>5 DEF TypeOK, StartTool, Upstreams
<1>7. Settled'
  <2>1. bufName' = f.name /\ phase' = "reading" /\ declaredTools' = declaredTools
        /\ ledger' = ledger /\ droppedTool' = droppedTool /\ blocked' = blocked
    BY DEF StartTool, Receive
  <2>2. CheckToolCall(f.name) = CheckToolCall(bufName)'
    BY <2>1, Zenon DEF CheckToolCall
  <2> QED BY <1>5, <2>1, <2>2 DEF Settled
<1> QED BY <1>6, <1>7

LEMMA EnteredKeeps ==
  ASSUME TypeOK, Settled, NEW ok \in BOOLEAN, Entered(ok), ok \/ droppedTool' \/ blocked',
         droppedTool => droppedTool', blocked => blocked', buffering' = FALSE
  PROVE  Settled' /\ ledger' \in Seq(Entry)
<1>1. ledger \in Seq(Entry)
  BY DEF TypeOK, Entry
<1>2. DOMAIN ledger' = 1..(Len(ledger) + 1) /\ DOMAIN ledger = 1..Len(ledger)
      /\ Len(ledger) \in Nat
  BY <1>1 DEF Entered
<1>3. \A i \in DOMAIN ledger' : \/ i \in DOMAIN ledger /\ ledger'[i] = ledger[i]
                               \/ i = Len(ledger) + 1
  BY <1>2 DEF Entered
<1>4. /\ ledger'[Len(ledger) + 1].clean = ok
      /\ ledger'[Len(ledger) + 1].fate = IF ok THEN "sent" ELSE "dropped"
  BY DEF Entered
<1>5. \A i \in DOMAIN ledger' : ledger'[i].fate = "sent" <=> ledger'[i].clean
  BY <1>3, <1>4 DEF Settled
<1>6. (\E i \in DOMAIN ledger' : ledger'[i].fate = "dropped") => droppedTool' \/ blocked'
  BY <1>3, <1>4 DEF Settled
<1> QED BY <1>5, <1>6 DEF Settled, Entered

LEMMA ResolveKeepsTypes ==
  ASSUME TypeOK, Settled, NEW f \in Frame, NEW n \in Sizes, ResolveHeld(f, n)
  PROVE  TypeOK' /\ Settled'
<1>1. PICK h : h = Held(f, n, 0)
  OBVIOUS
<1>2. /\ h.raw \in Seq(Frame) /\ h.insp \in Seq(Frag) /\ h.over \in BOOLEAN
      /\ h.bytes \in 0..MaxToolCallBytes
  <2>1. 0 \in DeltaSizes(f)
    BY DEF DeltaSizes, ResolveHeld, ClosesHeld
  <2> QED BY <1>1, <2>1, HeldIs
<1>3. Accumulate(h) /\ FinalizeTool(h.raw, h.insp, h.over)
      /\ findings' = findings \cup ToolFindings(h.insp, h.over)
  BY <1>1 DEF ResolveHeld
<1>4. PICK ok \in BOOLEAN : Resolves(h.raw, ok)
  BY <1>2, <1>3, Finalized DEF ResolveHeld, Settled
<1>5. Settled' /\ ledger' \in Seq(Entry)
  BY <1>4, EnteredKeeps DEF Resolves, ResolveHeld
<1>6. findings' \subseteq Rules
  BY <1>3, InspectIs DEF ToolFindings, TypeOK, Rules, HighRules
<1>7. out' \in Seq(OutFrame) /\ failed' \in BOOLEAN
  BY <1>4, AddsTyped DEF Resolves, TypeOK
<1>8. upstream' \in Upstreams
  BY Received DEF ResolveHeld, TypeOK, Upstreams
<1>9. phase' \in {"reading", "closing"} /\ droppedTool' \in BOOLEAN
  BY <1>4 DEF ResolveHeld, Proceed, Resolves, TypeOK
<1>10. UNCHANGED <<declaredTools, sawTool, blocked, bufIndex, bufName, nameFindings, text>>
  BY DEF ResolveHeld
<1>11. TypeOK'
  BY <1>2, <1>3, <1>4, <1>5, <1>6, <1>7, <1>8, <1>9, <1>10
     DEF TypeOK, Accumulate, Upstreams, OutFrame, Entry, Resolves
<1> QED BY <1>5, <1>11

LEMMA OversizedKeepsTypes ==
  ASSUME TypeOK, Settled, OnOversized
  PROVE  /\ TypeOK' /\ Settled'
         /\ \E k \in Nat : Adds(Note(OverflowIndex) \o <<Plain("message_stop")>>, k)
<1>1. OverflowIndex \in Index
  BY IndexAssumption DEF OverflowIndex, TypeOK
<1>2. Note(OverflowIndex) \o <<Plain("message_stop")>> \in Seq(OutFrame)
  <2>1. Note(OverflowIndex) \in Seq(OutFrame) /\ <<Plain("message_stop")>> \in Seq(OutFrame)
    BY <1>1, NoteIs, FramesWritten DEF OutFrame
  <2> QED BY <2>1, ConcatProperties
<1>3. PICK k \in Nat : Adds(Note(OverflowIndex) \o <<Plain("message_stop")>>, k)
  BY <1>2, EmitAdds DEF OnOversized, TypeOK, OutFrame
<1>4. out' \in Seq(OutFrame) /\ failed' \in BOOLEAN
  BY <1>3, AddsTyped DEF TypeOK
<1>5. Settled' /\ ledger' \in Seq(Entry)
  <2>1. blocked' /\ buffering' = FALSE /\ droppedTool' = droppedTool
    BY DEF OnOversized, LetGo
  <2>2. CASE buffering
    <3>1. Entered(FALSE)
      BY <2>2, AppendEnters DEF OnOversized, TypeOK, Entry
    <3> QED BY <2>1, <3>1, EnteredKeeps
  <2>3. CASE ~buffering
    <3>1. ledger' = ledger
      BY <2>3 DEF OnOversized
    <3> QED BY <2>1, <3>1 DEF Settled, TypeOK, Entry
  <2> QED BY <2>2, <2>3 DEF TypeOK
<1>6. findings' \subseteq Rules
  BY DEF OnOversized, TypeOK, Rules, HighRules
<1>7. bufRaw' = <<>> /\ bufInspect' = <<>> /\ buffering' = FALSE
  BY DEF OnOversized, LetGo
<1>8. /\ UNCHANGED <<declaredTools, sawTool, bufIndex, bufName, bufBytes>>
      /\ UNCHANGED <<nameFindings, oversized, droppedTool, text, upstream>>
      /\ phase' = "closing" /\ blocked' = TRUE
  BY DEF OnOversized
<1>9. TypeOK'
  <2>1. /\ bufRaw' \in Seq(Frame) /\ bufInspect' \in Seq(Frag)
    BY <1>7
  <2>2. buffering' \in BOOLEAN /\ blocked' \in BOOLEAN
    BY <1>7, <1>8
  <2> QED BY <1>4, <1>5, <1>6, <1>8, <2>1, <2>2 DEF TypeOK, OutFrame, Entry
<1> QED BY <1>3, <1>5, <1>9

LEMMA EndKeepsTypes ==
  ASSUME TypeOK, Settled, UpstreamEnds
  PROVE  TypeOK' /\ Settled'
BY DEF UpstreamEnds, TypeOK, Settled, stateVars, callVars, CheckToolCall

LEMMA CloseKeepsTypes ==
  ASSUME TypeOK, Settled, Close
  PROVE  TypeOK' /\ Settled'
<1>1. /\ UNCHANGED <<declaredTools, sawTool, bufIndex, bufName, bufRaw, bufBytes>>
      /\ UNCHANGED <<bufInspect, nameFindings, oversized, text, upstream>>
      /\ phase' = "done" /\ blocked' = (blocked \/ droppedTool')
  BY DEF Close
<1>2. findings' \subseteq Rules
  <2>1. \/ findings' = findings \cup ToolFindings(bufInspect, oversized) \cup Inspect(text)
        \/ findings' = findings \cup Inspect(text)
    BY DEF Close
  <2>2. ToolFindings(bufInspect, oversized) \subseteq Rules
    BY InspectIs DEF ToolFindings, Rules, HighRules
  <2> QED BY <2>1, <2>2, InspectIs DEF TypeOK
<1>3. CASE buffering
  <2>1. PICK ok \in BOOLEAN : Resolves(bufRaw, ok)
    BY <1>3, Finalized DEF Close, TypeOK, Settled
  <2>2. droppedTool' \in BOOLEAN /\ blocked' \in BOOLEAN /\ buffering' = FALSE
    BY <1>1, <2>1 DEF Resolves, TypeOK
  <2>3. Settled' /\ ledger' \in Seq(Entry)
    BY <1>1, <2>1, EnteredKeeps DEF Resolves
  <2>4. out' \in Seq(OutFrame) /\ failed' \in BOOLEAN
    BY <2>1, AddsTyped DEF Resolves, TypeOK
  <2>5. TypeOK'
    BY <1>1, <1>2, <2>2, <2>3, <2>4 DEF TypeOK, OutFrame, Entry
  <2> QED BY <2>3, <2>5
<1>4. CASE ~buffering
  <2>1. UNCHANGED <<buffering, out, failed, droppedTool, ledger>>
    BY <1>4 DEF Close
  <2>2. blocked' \in BOOLEAN
    BY <1>1, <2>1 DEF TypeOK
  <2>3. TypeOK'
    BY <1>1, <1>2, <2>1, <2>2 DEF TypeOK
  <2>4. Settled'
    BY <1>1, <1>4, <2>1 DEF Settled
  <2> QED BY <2>3, <2>4
<1> QED BY <1>3, <1>4

-----------------------------------------------------------------------------
(* What is held *)

LEMMA GivenMore ==
  ASSUME NEW r \in Seq(Frame), NEW insp \in Seq(Frag), Given(r, insp), NEW f \in Frame
  PROVE  Given(Append(r, f), IF f.kind = "arg_delta" THEN Append(insp, f.frag) ELSE insp)
<1>1. PICK s : s = Append(r, f)
  OBVIOUS
<1>2. PICK i : i = IF f.kind = "arg_delta" THEN Append(insp, f.frag) ELSE insp
  OBVIOUS
<1>3. /\ Len(r) \in Nat /\ Len(s) = Len(r) + 1 /\ DOMAIN s = 1..(Len(r) + 1)
      /\ DOMAIN r = 1..Len(r) /\ s[Len(r) + 1] = f
      /\ \A q \in DOMAIN r : s[q] = r[q]
  BY <1>1
<1>4. \A q \in DOMAIN s : q \in DOMAIN r \/ q = Len(r) + 1
  BY <1>3
<1>5. \A q \in DOMAIN r : ArgIn(s, q) <=> ArgIn(r, q)
  BY <1>3 DEF ArgIn
<1>6. ArgIn(s, Len(r) + 1) <=> f.kind = "arg_delta"
  BY <1>3 DEF ArgIn
<1>7. Signature(insp) => Signature(i)
  BY <1>2, Longer, FrameIs
<1>8. ASSUME NEW p \in DOMAIN s, NEW q \in DOMAIN s, NextIn(s, p, q),
             s[p].frag = "head", s[q].frag = "tail"
      PROVE  Signature(i)
  <2>1. p \in DOMAIN r
    BY <1>3, <1>4, <1>8 DEF NextIn
  <2>2. CASE q \in DOMAIN r
    <3>1. NextIn(r, p, q)
      BY <1>3, <1>5, <1>8, <2>1, <2>2 DEF NextIn, ArgIn
    <3> QED BY <1>3, <1>7, <1>8, <2>1, <2>2, <3>1 DEF Given
  <2>3. CASE q = Len(r) + 1
    <3>1. f.kind = "arg_delta" /\ f.frag = "tail" /\ f.frag \in Frag
      BY <1>3, <1>6, <1>8, <2>3, FrameIs DEF NextIn
    <3>2. LastIn(r, p)
      BY <1>3, <1>5, <1>8, <2>1, <2>3 DEF NextIn, LastIn, ArgIn
    <3>3. insp # <<>> /\ insp[Len(insp)] = "head"
      BY <1>3, <1>8, <2>1, <3>2 DEF Given
    <3> QED BY <1>2, <3>1, <3>3, Longer
  <2> QED BY <1>4, <2>2, <2>3
<1>9. ASSUME NEW q \in DOMAIN s, LastIn(s, q)
      PROVE  i # <<>> /\ s[q].frag = i[Len(i)]
  <2>1. CASE f.kind = "arg_delta"
    <3>1. q = Len(r) + 1
      BY <1>3, <1>4, <1>6, <1>9, <2>1 DEF LastIn
    <3>2. i = Append(insp, f.frag) /\ f.frag \in Frag
      BY <1>2, <2>1, FrameIs
    <3>3. Len(i) = Len(insp) + 1 /\ i[Len(insp) + 1] = f.frag /\ Len(insp) \in Nat
      BY <3>2
    <3> QED BY <1>3, <3>1, <3>3
  <2>2. CASE f.kind # "arg_delta"
    <3>1. q \in DOMAIN r
      BY <1>4, <1>6, <1>9, <2>2 DEF LastIn
    <3>2. LastIn(r, q)
      BY <1>3, <1>5, <1>9, <3>1 DEF LastIn, ArgIn
    <3> QED BY <1>2, <1>3, <2>2, <3>1, <3>2 DEF Given
  <2> QED BY <2>1, <2>2
<1>10. Given(s, i)
  BY <1>8, <1>9 DEF Given
<1> QED BY <1>1, <1>2, <1>10

LEMMA ForwardKeepsHold ==
  ASSUME TypeOK, HoldInv, NEW f, NEW g, Forwards(f, g)
  PROVE  HoldInv'
<1>1. /\ UNCHANGED <<buffering, bufIndex, bufName, bufRaw, bufInspect, oversized>>
      /\ f \in Frame /\ Receive(f)
  BY DEF Forwards, callVars
<1>2. upstream \in Upstreams
  BY DEF TypeOK, Upstreams
<1>3. Holding'
  BY <1>1 DEF HoldInv, Holding
<1>4. OrderlyHolding'
  BY <1>1, <1>2, Received DEF HoldInv, OrderlyHolding, Given, NextIn, LastIn, ArgIn,
                                 Signature, PartOfCall
<1>5. InStep'
  <2> SUFFICES ASSUME upstream'.orderly PROVE InStep'
    BY DEF InStep
  <2>1. upstream.orderly /\ Conforming(f) /\ phase = "reading"
    BY <1>1, <1>2, Received DEF Receive
  <2>2. /\ upstream'.open = IF Opens(f) THEN f.kind
                            ELSE IF f.kind = "block_stop" THEN "none" ELSE upstream.open
        /\ upstream'.next = IF f.kind = "block_stop" THEN upstream.next + 1
                            ELSE upstream.next
    BY <1>1, <1>2, <2>1, Received
  <2>3. buffering <=> upstream.open = "tool_start"
    BY <2>1 DEF HoldInv, InStep
  <2>4. CASE f.kind = "unparsed"
    BY <1>1, <2>1, <2>2, <2>4 DEF HoldInv, InStep, Opens
  <2>5. CASE f.kind # "unparsed"
    <3>1. ~buffering /\ f.kind # "tool_start"
      BY <2>5 DEF Forwards
    <3> QED BY <1>1, <2>2, <2>3, <3>1 DEF InStep, Opens
  <2> QED BY <2>4, <2>5
<1> QED BY <1>3, <1>4, <1>5 DEF HoldInv

\* An orderly upstream sends nothing else inside a call.
LEMMA OrderlyInCall ==
  ASSUME TypeOK, HoldInv, NEW f \in Frame, Receive(f), buffering, ~ClosesHeld(f),
         upstream.orderly
  PROVE  PartOfCall(f)
<1>1. upstream \in Upstreams /\ phase = "reading"
  BY DEF TypeOK, Upstreams, Receive
<1>2. Conforming(f) /\ upstream.open = "tool_start" /\ bufIndex = upstream.next
  BY <1>1, Received DEF HoldInv, InStep
<1>3. ~Opens(f) /\ f.kind # "message_delta" /\ f.kind # "text_delta"
  BY <1>2 DEF Conforming, Opens, Within
<1>4. f.kind # "block_stop"
  BY <1>2 DEF Conforming, Opens, Within, ClosesHeld
<1>5. f.kind = "arg_delta" => f.index = bufIndex
  BY <1>2 DEF Conforming, Opens, Within
<1> QED BY <1>3, <1>4, <1>5, FrameIs DEF Opens, InCall, PartOfCall

LEMMA HoldKeepsHold ==
  ASSUME TypeOK, HoldInv, NEW f \in Frame, NEW n \in Sizes, NEW d \in DeltaSizes(f),
         HoldFrame(f, n, d)
  PROVE  HoldInv'
<1>1. PICK h : h = Held(f, n, d)
  OBVIOUS
<1>2. /\ oversized => h.over
      /\ ~h.over => /\ h.raw = Append(bufRaw, f)
                    /\ h.insp = IF f.kind = "arg_delta"
                                THEN Append(bufInspect, f.frag) ELSE bufInspect
  BY <1>1, HeldIs
<1>3. bufRaw' = h.raw /\ bufInspect' = h.insp /\ oversized' = h.over
  BY <1>1 DEF HoldFrame, Accumulate
<1>4. /\ UNCHANGED <<phase, buffering, bufIndex, bufName>>
      /\ buffering /\ Receive(f) /\ ~ClosesHeld(f)
  BY DEF HoldFrame
<1>5. upstream \in Upstreams /\ bufRaw \in Seq(Frame) /\ bufInspect \in Seq(Frag)
      /\ oversized \in BOOLEAN /\ phase = "reading"
  BY <1>4 DEF TypeOK, Upstreams, Receive
<1>6. /\ Len(bufRaw) \in Nat /\ Len(Append(bufRaw, f)) = Len(bufRaw) + 1
      /\ \A k \in 1..Len(bufRaw) : Append(bufRaw, f)[k] = bufRaw[k]
      /\ Append(bufRaw, f)[Len(bufRaw) + 1] = f
  BY <1>5
<1>7. f # BlockStop(bufIndex)
  BY <1>4, FramesDiffer DEF ClosesHeld
<1>8. Holding'
  <2> SUFFICES ASSUME ~h.over
               PROVE  /\ Len(bufRaw') > 0 /\ bufRaw'[1] = ToolStart(bufIndex, bufName)
                      /\ \A k \in 2..Len(bufRaw') : bufRaw'[k] # BlockStop(bufIndex)
    BY <1>3, <1>4, Zenon DEF Holding
  <2>1. bufRaw' = Append(bufRaw, f) /\ ~oversized
    BY <1>2, <1>3, <1>5
  <2>2. /\ Len(bufRaw) > 0 /\ bufRaw[1] = ToolStart(bufIndex, bufName)
        /\ \A k \in 2..Len(bufRaw) : bufRaw[k] # BlockStop(bufIndex)
    BY <1>4, <2>1 DEF HoldInv, Holding
  <2>3. Len(bufRaw') > 0 /\ bufRaw'[1] = ToolStart(bufIndex, bufName)
    BY <1>6, <2>1, <2>2
  <2>4. \A k \in 2..Len(bufRaw') : bufRaw'[k] # BlockStop(bufIndex)
    BY <1>6, <1>7, <2>1, <2>2
  <2> QED BY <2>3, <2>4
<1>9. OrderlyHolding'
  <2> SUFFICES ASSUME ~h.over, upstream.orderly
               PROVE  /\ \A k \in 2..Len(bufRaw') : PartOfCall(bufRaw'[k])
                      /\ Given(bufRaw', bufInspect')
    BY <1>3, <1>4, <1>5, Received
       DEF OrderlyHolding, Given, NextIn, LastIn, ArgIn, Signature, PartOfCall
  <2>1. bufRaw' = Append(bufRaw, f) /\ ~oversized
    BY <1>2, <1>3, <1>5
  <2>2. Given(bufRaw, bufInspect) /\ \A k \in 2..Len(bufRaw) : PartOfCall(bufRaw[k])
    BY <1>4, <2>1 DEF HoldInv, OrderlyHolding
  <2>3. Given(bufRaw', bufInspect')
    BY <1>2, <1>3, <1>5, <2>1, <2>2, GivenMore
  <2>4. PartOfCall(f)
    BY <1>4, OrderlyInCall
  <2>5. \A k \in 2..Len(bufRaw') : PartOfCall(bufRaw'[k])
    BY <1>6, <2>1, <2>2, <2>4
  <2> QED BY <2>3, <2>5
<1>10. InStep'
  <2> SUFFICES ASSUME upstream.orderly PROVE InStep'
    BY <1>4, <1>5, Received DEF InStep
  <2>1. ~Opens(f) /\ f.kind # "block_stop"
    BY <1>4, OrderlyInCall DEF InCall, Opens, PartOfCall
  <2>2. upstream'.open = upstream.open /\ upstream'.next = upstream.next
    BY <1>4, <1>5, <2>1, Received
  <2> QED BY <1>4, <1>5, <2>2, Received DEF InStep, HoldInv
<1> QED BY <1>8, <1>9, <1>10 DEF HoldInv

LEMMA StartKeepsHold ==
  ASSUME TypeOK, HoldInv, NEW f \in Frame, NEW n \in Sizes, StartTool(f, n)
  PROVE  HoldInv'
<1>1. f.kind = "tool_start" /\ f = ToolStart(f.index, f.name) /\ Receive(f)
  BY FrameIs DEF StartTool
<1>2. /\ buffering' /\ bufIndex' = f.index /\ bufName' = f.name
      /\ bufRaw' = <<f>> /\ bufInspect' = <<>> /\ phase' = phase
  BY DEF StartTool
<1>3. Len(bufRaw') = 1 /\ bufRaw'[1] = f /\ DOMAIN bufRaw' = {1}
  BY <1>2
<1>4. Holding'
  BY <1>1, <1>2, <1>3 DEF Holding
<1>5. Given(bufRaw', bufInspect')
  BY <1>1, <1>3 DEF Given, NextIn, LastIn, ArgIn
<1>6. OrderlyHolding'
  <2>1. \A k \in 2..Len(bufRaw') : FALSE
    BY <1>3
  <2> QED BY <1>5, <2>1 DEF OrderlyHolding, Given, NextIn, LastIn, ArgIn, Signature,
                           PartOfCall
<1>7. InStep'
  <2> SUFFICES ASSUME upstream'.orderly PROVE InStep'
    BY DEF InStep
  <2>1. /\ upstream'.open = "tool_start" /\ upstream'.next = upstream.next
        /\ Conforming(f)
    BY <1>1, Received DEF Opens, TypeOK, Upstreams
  <2>2. f.index = upstream.next
    BY <1>1, <2>1 DEF Conforming, Opens
  <2> QED BY <1>2, <2>1, <2>2 DEF InStep
<1> QED BY <1>4, <1>6, <1>7 DEF HoldInv

LEMMA NotHeld ==
  ASSUME ~buffering',
         upstream'.orderly /\ phase' = "reading" => upstream'.open # "tool_start"
  PROVE  HoldInv'
BY DEF HoldInv, Holding, OrderlyHolding, InStep

LEMMA ResolveKeepsHold ==
  ASSUME TypeOK, NEW f \in Frame, NEW n \in Sizes, ResolveHeld(f, n)
  PROVE  HoldInv'
<1>1. ~buffering'
  BY DEF ResolveHeld, FinalizeTool
<1>2. upstream'.orderly => upstream'.open = "none"
  BY Received DEF ResolveHeld, ClosesHeld, TypeOK, Upstreams, Opens
<1> QED BY <1>1, <1>2, NotHeld

LEMMA EndsKeepHold ==
  ASSUME TypeOK, HoldInv, OnOversized \/ UpstreamEnds \/ Close
  PROVE  HoldInv'
<1>1. CASE OnOversized
  BY <1>1, NotHeld DEF OnOversized, LetGo
<1>2. CASE Close
  BY <1>2, NotHeld DEF Close, FinalizeTool
<1>3. CASE UpstreamEnds
  BY <1>3 DEF UpstreamEnds, callVars, HoldInv, Holding, OrderlyHolding, InStep,
              Given, NextIn, LastIn, ArgIn, Signature, PartOfCall
<1> QED BY <1>1, <1>2, <1>3

-----------------------------------------------------------------------------
(* What was written stays *)

LEMMA Prefix ==
  ASSUME out \in Seq(OutFrame), NEW frames, NEW k \in Nat, Adds(frames, k)
  PROVE  /\ Len(out) \in Nat /\ DOMAIN out = 1..Len(out)
         /\ Len(out') = Len(out) + k /\ DOMAIN out' = 1..(Len(out) + k)
         /\ \A p \in DOMAIN out : p \in DOMAIN out' /\ out'[p] = out[p]
         /\ \A q \in DOMAIN out' :
              q \in DOMAIN out \/ \E j \in 1..k : q = Len(out) + j /\ out'[q] = frames[j]
         /\ \A j \in 1..k : Len(out) + j \in DOMAIN out' /\ out'[Len(out) + j] = frames[j]
<1>1. /\ Len(out) \in Nat /\ DOMAIN out = 1..Len(out)
      /\ Len(out') = Len(out) + k /\ DOMAIN out' = 1..(Len(out) + k)
  BY DEF Adds
<1>2. \A p \in DOMAIN out : p \in DOMAIN out' /\ out'[p] = out[p]
  BY <1>1 DEF Adds
<1>3. \A j \in 1..k : Len(out) + j \in DOMAIN out' /\ out'[Len(out) + j] = frames[j]
  BY <1>1 DEF Adds
<1>4. ASSUME NEW q \in DOMAIN out', q \notin DOMAIN out
      PROVE  \E j \in 1..k : q = Len(out) + j /\ out'[q] = frames[j]
  <2>1. PICK j : j = q - Len(out)
    OBVIOUS
  <2>2. j \in 1..k /\ q = Len(out) + j
    BY <1>1, <1>4, <2>1
  <2> QED BY <1>3, <2>2
<1> QED BY <1>1, <1>2, <1>3, <1>4

\* Blocks and arguments that were written are what they were.
LEMMA SameBlocks ==
  ASSUME out \in Seq(OutFrame), NEW frames, NEW k \in Nat, Adds(frames, k)
  PROVE  \A p, q \in DOMAIN out :
           /\ \A c : Kind(p, c)' <=> Kind(p, c)
           /\ InBlock(p, q)' <=> InBlock(p, q)
           /\ IsArg(p, q)' <=> IsArg(p, q)
           /\ OpenedAt(p)' <=> OpenedAt(p)
           /\ ClosedBy(p, q) => ClosedBy(p, q)'
<1> SUFFICES ASSUME NEW p \in DOMAIN out, NEW q \in DOMAIN out
             PROVE  /\ \A c : Kind(p, c)' <=> Kind(p, c)
                    /\ InBlock(p, q)' <=> InBlock(p, q)
                    /\ IsArg(p, q)' <=> IsArg(p, q)
                    /\ OpenedAt(p)' <=> OpenedAt(p)
                    /\ ClosedBy(p, q) => ClosedBy(p, q)'
  OBVIOUS
<1>1. \A r \in p..q : r \in DOMAIN out /\ r \in DOMAIN out' /\ out'[r] = out[r]
  BY Prefix
<1>2. /\ out'[p] = out[p] /\ out'[q] = out[q] /\ p \in DOMAIN out' /\ q \in DOMAIN out'
  BY Prefix
<1>3. InBlock(p, q)' <=> InBlock(p, q)
  BY <1>1, <1>2 DEF InBlock
<1>4. (\A c : Kind(p, c)' <=> Kind(p, c)) /\ (OpenedAt(p)' <=> OpenedAt(p))
  BY <1>2 DEF Kind, OpenedAt, Opens
<1>5. IsArg(p, q)' <=> IsArg(p, q)
  BY <1>2, <1>3 DEF IsArg, Kind
<1>6. ClosedBy(p, q) => ClosedBy(p, q)'
  BY <1>1, <1>2 DEF ClosedBy
<1> QED BY <1>3, <1>4, <1>5, <1>6

\* A block closed before is closed still.
LEMMA StillClosed ==
  ASSUME out \in Seq(OutFrame), NEW frames, NEW k \in Nat, Adds(frames, k),
         NEW p \in DOMAIN out, ClosedBy(p, Len(out))
  PROVE  ClosedBy(p, Len(out))'
<1>1. PICK r \in p..Len(out) : out[r] = BlockStop(out[p].index)
  BY DEF ClosedBy
<1>2. r \in p..Len(out') /\ r \in DOMAIN out
  BY Prefix
<1>3. out'[r] = BlockStop(out'[p].index)
  BY <1>1, <1>2, Prefix
<1> QED BY <1>2, <1>3 DEF ClosedBy

-----------------------------------------------------------------------------
(* What a replayed call is *)

Replay(r, insp) ==
  /\ r \in Seq(Frame) /\ Len(r) > 0 /\ r[1] = ToolStart(bufIndex, bufName)
  /\ \A k \in 2..(Len(r) - 1) : r[k] # BlockStop(bufIndex)
  /\ upstream.orderly =>
       /\ \A k \in 2..Len(r) : PartOfCall(r[k]) \/ r[k].kind = "block_stop"
       /\ Given(r, insp)

LEMMA ReplayAtClose ==
  ASSUME TypeOK, HoldInv, buffering, ~oversized
  PROVE  Replay(bufRaw, bufInspect)
<1>1. bufRaw \in Seq(Frame) /\ Len(bufRaw) \in Nat
  BY DEF TypeOK
<1>2. /\ Len(bufRaw) > 0 /\ bufRaw[1] = ToolStart(bufIndex, bufName)
      /\ \A k \in 2..Len(bufRaw) : bufRaw[k] # BlockStop(bufIndex)
      /\ upstream.orderly =>
           /\ \A k \in 2..Len(bufRaw) : PartOfCall(bufRaw[k])
           /\ Given(bufRaw, bufInspect)
  BY DEF HoldInv, Holding, OrderlyHolding
<1> QED BY <1>1, <1>2 DEF Replay

LEMMA ReplayAtStop ==
  ASSUME TypeOK, HoldInv, NEW f \in Frame, NEW n \in Sizes, ResolveHeld(f, n),
         NEW h, h = Held(f, n, 0), ~h.over
  PROVE  Replay(h.raw, h.insp) /\ h.raw[Len(h.raw)] = BlockStop(bufIndex)
<1>1. f = BlockStop(bufIndex) /\ f.kind = "block_stop" /\ buffering
  BY FrameIs DEF ResolveHeld, ClosesHeld
<1>2. 0 \in DeltaSizes(f)
  BY <1>1 DEF DeltaSizes
<1>3. ~oversized /\ h.raw = Append(bufRaw, f) /\ h.insp = bufInspect
  BY <1>1, <1>2, HeldIs DEF TypeOK
<1>4. bufRaw \in Seq(Frame) /\ bufInspect \in Seq(Frag)
  BY DEF TypeOK
<1>5. PICK r : r = Append(bufRaw, f)
  OBVIOUS
<1>6. /\ r \in Seq(Frame) /\ Len(bufRaw) \in Nat /\ Len(r) = Len(bufRaw) + 1
      /\ \A k \in 1..Len(bufRaw) : r[k] = bufRaw[k]
      /\ r[Len(r)] = f
  BY <1>4, <1>5
<1>7. Replay(bufRaw, bufInspect)
  BY <1>1, <1>3, ReplayAtClose
<1>8. \A k \in 2..Len(bufRaw) : bufRaw[k] # BlockStop(bufIndex)
  BY <1>1, <1>3 DEF HoldInv, Holding
<1>9. Len(r) > 0 /\ r[1] = ToolStart(bufIndex, bufName)
  BY <1>6, <1>7 DEF Replay
<1>10. \A k \in 2..(Len(r) - 1) : r[k] # BlockStop(bufIndex)
  BY <1>6, <1>8
<1>11. ASSUME upstream.orderly
       PROVE  /\ \A k \in 2..Len(r) : PartOfCall(r[k]) \/ r[k].kind = "block_stop"
              /\ Given(r, bufInspect)
  <2>1. \A k \in 2..Len(r) : PartOfCall(r[k]) \/ r[k].kind = "block_stop"
    BY <1>1, <1>6, <1>7, <1>11 DEF Replay
  <2>2. Given(r, bufInspect)
    BY <1>1, <1>4, <1>5, <1>7, <1>11, GivenMore DEF Replay
  <2> QED BY <2>1, <2>2
<1>12. Replay(r, bufInspect)
  BY <1>6, <1>9, <1>10, <1>11 DEF Replay
<1> QED BY <1>1, <1>3, <1>5, <1>6, <1>12

-----------------------------------------------------------------------------
(* Notes and stop reasons *)

LEMMA QuietKeepsNotes ==
  ASSUME TypeOK, NoToolUseAfterNote, NEW frames, NEW k \in Nat, Adds(frames, k),
         upstream'.orderly = upstream.orderly,
         \A j \in 1..k : frames[j] # MessageDelta("tool_use")
  PROVE  NoToolUseAfterNote'
<1> USE DEF OutFrame
<1>1. out \in Seq(OutFrame)
  BY DEF TypeOK
<1> SUFFICES ASSUME NEW p \in DOMAIN out', NEW q \in DOMAIN out',
                    p < q, Kind(p, "note")', out'[q] = MessageDelta("tool_use")
             PROVE  /\ ~upstream.orderly
                    /\ \E r \in DOMAIN out' : Kind(r, "tool_start")' /\ InBlock(r, q)'
  BY DEF NoToolUseAfterNote
<1>2. q \in DOMAIN out
  <2> SUFFICES ASSUME q \notin DOMAIN out PROVE FALSE
    OBVIOUS
  <2>1. PICK j \in 1..k : out'[q] = frames[j]
    BY <1>1, Prefix
  <2> QED BY <2>1
<1>3. p \in DOMAIN out
  BY <1>1, <1>2, Prefix
<1>4. Kind(p, "note") /\ out[q] = MessageDelta("tool_use")
  BY <1>1, <1>2, <1>3, Prefix, SameBlocks
<1>5. ~upstream.orderly /\ \E r \in DOMAIN out : Kind(r, "tool_start") /\ InBlock(r, q)
  BY <1>2, <1>3, <1>4 DEF NoToolUseAfterNote
<1> QED BY <1>1, <1>2, <1>5, Prefix, SameBlocks

\* A replayed call brings no note, and what it asks for it asks inside the call.
LEMMA ReplayKeepsNotes ==
  ASSUME TypeOK, NoToolUseAfterNote, NEW r, NEW insp, Replay(r, insp),
         NEW k \in Nat, Adds(r, k), upstream'.orderly = upstream.orderly
  PROVE  /\ NoToolUseAfterNote'
         /\ \A p \in DOMAIN out' : Kind(p, "note")' => p \in DOMAIN out /\ Kind(p, "note")
<1> DEFINE b == Len(out)
<1>1. out \in Seq(OutFrame)
  BY DEF TypeOK, OutFrame
<1>2. b \in Nat /\ r \in Seq(Frame) /\ Len(r) \in Nat /\ k <= Len(r)
  BY <1>1 DEF Replay, Adds
<1>3. \A j \in 1..k : r[j] \in Frame /\ r[j].kind # "note"
  BY <1>2, FrameIs
<1>4. \A p \in DOMAIN out' : Kind(p, "note")' => p \in DOMAIN out /\ Kind(p, "note")
  <2> SUFFICES ASSUME NEW p \in DOMAIN out', Kind(p, "note")'
               PROVE  p \in DOMAIN out /\ Kind(p, "note")
    OBVIOUS
  <2>1. p \in DOMAIN out
    <3> SUFFICES ASSUME p \notin DOMAIN out PROVE FALSE
      OBVIOUS
    <3>1. PICK j \in 1..k : out'[p] = r[j]
      BY <1>1, Prefix
    <3> QED BY <1>3, <3>1 DEF Kind
  <2> QED BY <1>1, <2>1, SameBlocks
<1>5. ASSUME NEW p \in DOMAIN out', NEW q \in DOMAIN out',
             p < q, Kind(p, "note")', out'[q] = MessageDelta("tool_use")
      PROVE  /\ ~upstream.orderly
             /\ \E s \in DOMAIN out' : Kind(s, "tool_start")' /\ InBlock(s, q)'
  <2>1. CASE q \in DOMAIN out
    <3>1. p \in DOMAIN out /\ Kind(p, "note") /\ out[q] = MessageDelta("tool_use")
      BY <1>1, <1>4, <1>5, <2>1, Prefix
    <3>2. /\ ~upstream.orderly
          /\ \E s \in DOMAIN out : Kind(s, "tool_start") /\ InBlock(s, q)
      BY <1>5, <2>1, <3>1 DEF NoToolUseAfterNote
    <3> QED BY <1>1, <2>1, <3>2, Prefix, SameBlocks
  <2>2. CASE q \notin DOMAIN out
    <3>1. PICK j \in 1..k : q = b + j /\ out'[q] = r[j]
      BY <1>1, <2>2, Prefix
    <3>2. r[j].kind = "message_delta" /\ j # 1
      BY <1>5, <3>1, FramesDiffer DEF Replay
    <3>3. ~upstream.orderly
      BY <1>2, <3>1, <3>2 DEF Replay, InCall, PartOfCall
    <3>4. b + 1 \in DOMAIN out' /\ out'[b + 1] = ToolStart(bufIndex, bufName)
      BY <1>1, <3>1, Prefix DEF Replay
    <3> PICK c : c = b + 1
      OBVIOUS
    <3>5. Kind(c, "tool_start")' /\ out'[c].index = bufIndex /\ c < q /\ c \in DOMAIN out'
      <4>1. c \in DOMAIN out' /\ out'[c] = ToolStart(bufIndex, bufName)
        BY <3>4
      <4>2. out'[c].kind = "tool_start" /\ out'[c].index = bufIndex
        BY <4>1, FramesDiffer
      <4>3. c < q
        BY <1>2, <3>1, <3>2
      <4> QED BY <4>1, <4>2, <4>3 DEF Kind
    <3>6. InBlock(c, q)'
      <4> SUFFICES ASSUME NEW s \in (b + 1)..q PROVE out'[s] # BlockStop(bufIndex)
        BY <3>5 DEF InBlock
      <4>1. PICK i : i = s - b
        OBVIOUS
      <4>2. i \in 1..k /\ s = b + i /\ i <= j
        BY <1>2, <3>1, <4>1
      <4>3. out'[s] = r[i]
        BY <1>1, <4>2, Prefix
      <4>4. CASE i = 1
        BY <4>3, <4>4, FramesDiffer DEF Replay
      <4>5. CASE i = j
        BY <3>2, <4>3, <4>5, FramesDiffer
      <4>6. CASE i # 1 /\ i # j
        <5>1. i \in 2..(Len(r) - 1)
          BY <1>2, <4>2, <4>6
        <5> QED BY <4>3, <5>1 DEF Replay
      <4> QED BY <4>4, <4>5, <4>6
    <3> QED BY <3>3, <3>5, <3>6
  <2> QED BY <2>1, <2>2
<1>6. NoToolUseAfterNote'
  BY <1>5 DEF NoToolUseAfterNote
<1> QED BY <1>4, <1>6

-----------------------------------------------------------------------------
(* Verified calls *)

\* What is claimed of the call opened at p.
Verified(p) ==
  /\ declaredTools # {}
  /\ out[p].name \in declaredTools \cup {NoName}
  /\ ~\E q, r \in DOMAIN out :
       NextArg(p, q, r) /\ out[q].frag = "head" /\ out[r].frag = "tail"

\* A call stays verified while no more arguments are added to it.
LEMMA StaysVerified ==
  ASSUME TypeOK, NEW frames, NEW k \in Nat, Adds(frames, k),
         UNCHANGED declaredTools, NEW p \in DOMAIN out, Verified(p),
         \A q \in DOMAIN out' : IsArg(p, q)' => q \in DOMAIN out
  PROVE  Verified(p)'
<1>1. out \in Seq(OutFrame)
  BY DEF TypeOK, OutFrame
<1>2. out'[p] = out[p]
  BY <1>1, Prefix
<1>3. ASSUME NEW q \in DOMAIN out', NEW r \in DOMAIN out', NextArg(p, q, r)',
             out'[q].frag = "head", out'[r].frag = "tail"
      PROVE  FALSE
  <2>1. q \in DOMAIN out /\ r \in DOMAIN out /\ IsArg(p, q) /\ IsArg(p, r) /\ q < r
    BY <1>1, <1>3, SameBlocks DEF NextArg
  <2>2. \A s \in (q + 1)..(r - 1) : ~IsArg(p, s)
    <3> SUFFICES ASSUME NEW s \in (q + 1)..(r - 1) PROVE ~IsArg(p, s)
      OBVIOUS
    <3>1. s \in DOMAIN out
      BY <1>1, <2>1
    <3> QED BY <1>1, <1>3, <3>1, SameBlocks DEF NextArg
  <2>3. out[q].frag = "head" /\ out[r].frag = "tail"
    BY <1>1, <1>3, <2>1, Prefix
  <2> QED BY <2>1, <2>2, <2>3 DEF Verified, NextArg
<1> QED BY <1>2, <1>3 DEF Verified

LEMMA QuietKeepsCalls ==
  ASSUME TypeOK, SentCallsVerified, NEW frames, NEW k \in Nat, Adds(frames, k),
         UNCHANGED declaredTools, upstream'.orderly = upstream.orderly,
         upstream.orderly =>
           \A j \in 1..k : frames[j].kind \notin {"tool_start", "arg_delta"}
  PROVE  SentCallsVerified'
<1>1. out \in Seq(OutFrame)
  BY DEF TypeOK, OutFrame
<1> SUFFICES ASSUME upstream.orderly, NEW p \in DOMAIN out', Kind(p, "tool_start")'
             PROVE  Verified(p)'
  BY DEF SentCallsVerified, Verified
<1>2. p \in DOMAIN out
  <2> SUFFICES ASSUME p \notin DOMAIN out PROVE FALSE
    OBVIOUS
  <2>1. PICK j \in 1..k : out'[p] = frames[j]
    BY <1>1, Prefix
  <2> QED BY <2>1 DEF Kind
<1>3. Verified(p)
  BY <1>1, <1>2, SameBlocks DEF SentCallsVerified, Verified
<1>4. \A q \in DOMAIN out' : IsArg(p, q)' => q \in DOMAIN out
  <2> SUFFICES ASSUME NEW q \in DOMAIN out', IsArg(p, q)', q \notin DOMAIN out PROVE FALSE
    OBVIOUS
  <2>1. PICK j \in 1..k : out'[q] = frames[j]
    BY <1>1, Prefix
  <2> QED BY <2>1 DEF IsArg, Kind
<1> QED BY <1>2, <1>3, <1>4, StaysVerified

LEMMA QuietKeepsClosed ==
  ASSUME TypeOK, CallsClosed, NEW frames, NEW k \in Nat, Adds(frames, k),
         phase # "done", upstream'.orderly = upstream.orderly,
         upstream.orderly => \A j \in 1..k : frames[j].kind # "tool_start"
  PROVE  CallsClosed'
<1>1. out \in Seq(OutFrame) /\ failed \in BOOLEAN
  BY DEF TypeOK, OutFrame
<1> SUFFICES ASSUME Live', NEW p \in DOMAIN out', Kind(p, "tool_start")'
             PROVE  ClosedBy(p, Len(out))'
  BY DEF CallsClosed
<1>2. Live
  BY <1>1 DEF Live, Adds
<1>3. p \in DOMAIN out
  <2> SUFFICES ASSUME p \notin DOMAIN out PROVE FALSE
    OBVIOUS
  <2>1. PICK j \in 1..k : out'[p] = frames[j]
    BY <1>1, Prefix
  <2> QED BY <1>2, <2>1 DEF Kind, Live
<1>4. Kind(p, "tool_start")
  BY <1>1, <1>3, SameBlocks
<1>5. ClosedBy(p, Len(out))
  BY <1>2, <1>3, <1>4 DEF CallsClosed
<1> QED BY <1>1, <1>3, <1>5, StillClosed

\* No argument is added to a call that is over.
LEMMA ClosedTakesNone ==
  ASSUME TypeOK, NEW frames, NEW k \in Nat, Adds(frames, k),
         NEW p \in DOMAIN out, ClosedBy(p, Len(out))
  PROVE  \A q \in DOMAIN out' : IsArg(p, q)' => q \in DOMAIN out
<1>1. out \in Seq(OutFrame)
  BY DEF TypeOK, OutFrame
<1>2. PICK s \in p..Len(out) : out[s] = BlockStop(out[p].index)
  BY DEF ClosedBy
<1>3. s \in DOMAIN out /\ out'[s] = BlockStop(out'[p].index)
  BY <1>1, <1>2, Prefix
<1> SUFFICES ASSUME NEW q \in DOMAIN out', IsArg(p, q)', q \notin DOMAIN out PROVE FALSE
  OBVIOUS
<1>4. s \in p..q
  BY <1>1, <1>2, Prefix
<1> QED BY <1>3, <1>4 DEF IsArg, InBlock

LEMMA ReplayKeepsCalls ==
  ASSUME TypeOK, SentCallsVerified, CallsClosed, phase # "done",
         NEW r, NEW insp, NEW over, Replay(r, insp), Clean(bufName, insp, over),
         NEW k \in Nat, Adds(r, k),
         UNCHANGED declaredTools, upstream'.orderly = upstream.orderly,
         phase' # "done" => r[Len(r)] = BlockStop(bufIndex)
  PROVE  SentCallsVerified' /\ CallsClosed'
<1> PICK b : b = Len(out)
  OBVIOUS
<1> PICK c : c = b + 1
  OBVIOUS
<1>1. out \in Seq(OutFrame) /\ failed \in BOOLEAN
  BY DEF TypeOK, OutFrame
<1>2. b \in Nat /\ c = b + 1 /\ r \in Seq(Frame) /\ Len(r) \in Nat /\ k <= Len(r)
  BY <1>1 DEF Replay, Adds
<1>3. CASE k = 0
  <2>1. failed'
    BY <1>2, <1>3 DEF Adds, Replay
  <2> QED BY <1>3, <2>1, QuietKeepsCalls DEF CallsClosed, Live
<1>4. CASE k # 0 /\ upstream.orderly
  <2>1. Live
    BY <1>4 DEF Live, Adds
  <2>2. \A j \in 2..k : /\ PartOfCall(r[j]) \/ r[j].kind = "block_stop"
                        /\ r[j].kind # "tool_start"
    BY <1>2, <1>4 DEF Replay, PartOfCall, InCall
  <2>3. c \in DOMAIN out' /\ out'[c] = ToolStart(bufIndex, bufName)
    BY <1>1, <1>2, <1>4, Prefix DEF Replay
  <2>4. out'[c].kind = "tool_start" /\ out'[c].index = bufIndex /\ out'[c].name = bufName
    BY <2>3, FramesDiffer
  <2>5. \A p \in DOMAIN out' : p \in DOMAIN out \/ \E j \in 1..k : p = b + j /\ out'[p] = r[j]
    BY <1>1, Prefix
  <2>6. \A p \in DOMAIN out' : Kind(p, "tool_start")' => p \in DOMAIN out \/ p = c
    BY <1>2, <2>2, <2>5 DEF Kind
  <2>7. \A p \in DOMAIN out : Kind(p, "tool_start")' => ClosedBy(p, Len(out)) /\ Verified(p)
    BY <1>1, <1>4, <2>1, SameBlocks DEF CallsClosed, SentCallsVerified, Verified
  <2>8. \A p \in DOMAIN out : Kind(p, "tool_start")' => Verified(p)'
    <3> SUFFICES ASSUME NEW p \in DOMAIN out, Kind(p, "tool_start")' PROVE Verified(p)'
      OBVIOUS
    <3>1. \A q \in DOMAIN out' : IsArg(p, q)' => q \in DOMAIN out
      BY <2>7, ClosedTakesNone
    <3> QED BY <2>7, <3>1, StaysVerified
  <2>9. Verified(c)'
    <3>1. declaredTools' # {} /\ out'[c].name \in declaredTools' \cup {NoName}
      BY <2>4 DEF Clean
    <3>2. ASSUME NEW q \in DOMAIN out', NEW s \in DOMAIN out', NextArg(c, q, s)',
                 out'[q].frag = "head", out'[s].frag = "tail"
          PROVE  FALSE
      <4>1. q > c /\ s > q /\ out'[q].kind = "arg_delta" /\ out'[s].kind = "arg_delta"
        BY <3>2 DEF NextArg, IsArg, InBlock, Kind
      <4>2. q \notin DOMAIN out /\ s \notin DOMAIN out
        BY <1>1, <1>2, <4>1, Prefix
      <4>3. PICK i \in 1..k : q = b + i /\ out'[q] = r[i]
        BY <2>5, <4>2
      <4>4. PICK j \in 1..k : s = b + j /\ out'[s] = r[j]
        BY <2>5, <4>2
      <4>5. i < j /\ i \in DOMAIN r /\ j \in DOMAIN r
        BY <1>2, <4>1, <4>3, <4>4
      <4>6. \A l \in (i + 1)..(j - 1) : ~ArgIn(r, l)
        <5> SUFFICES ASSUME NEW l \in (i + 1)..(j - 1), ArgIn(r, l) PROVE FALSE
          OBVIOUS
        <5> PICK t : t = b + l
          OBVIOUS
        <5>1. /\ l \in 2..k /\ l \in 1..k
              /\ t \in (q + 1)..(s - 1) /\ t > c
          BY <1>2, <4>3, <4>4
        <5>2. t \in DOMAIN out' /\ out'[t] = r[l]
          BY <1>1, <5>1, Prefix
        <5>3. out'[t].kind = "arg_delta" /\ out'[t].index = out'[c].index
          BY <2>2, <2>4, <5>1, <5>2 DEF ArgIn, PartOfCall
        <5>4. InBlock(c, s)'
          BY <3>2 DEF NextArg, IsArg
        <5>5. c..t \subseteq c..s
          BY <1>2, <5>1, <4>4
        <5>6. InBlock(c, t)'
          BY <5>1, <5>4, <5>5 DEF InBlock
        <5>7. IsArg(c, t)'
          BY <5>2, <5>3, <5>6 DEF IsArg, Kind
        <5> QED BY <3>2, <5>1, <5>7 DEF NextArg
      <4>7. NextIn(r, i, j)
        BY <4>1, <4>3, <4>4, <4>5, <4>6 DEF NextIn, ArgIn
      <4>8. Signature(insp)
        BY <1>4, <3>2, <4>3, <4>4, <4>5, <4>7 DEF Replay, Given
      <4> QED BY <4>8 DEF Clean
    <3> QED BY <3>1, <3>2 DEF Verified
  <2>10. SentCallsVerified'
    BY <2>6, <2>8, <2>9 DEF SentCallsVerified, Verified
  <2>11. CallsClosed'
    <3> SUFFICES ASSUME Live', NEW p \in DOMAIN out', Kind(p, "tool_start")'
                 PROVE  ClosedBy(p, Len(out))'
      BY DEF CallsClosed
    <3>1. CASE p \in DOMAIN out
      BY <1>1, <2>7, <3>1, StillClosed
    <3>2. CASE p = c
      <4>1. k = Len(r) /\ r[k] = BlockStop(bufIndex)
        <5>1. ~(k < Len(r)) /\ r[Len(r)] = BlockStop(bufIndex)
          BY DEF Live, Adds
        <5> QED BY <1>2, <5>1
      <4>2. Len(out') = b + k /\ out'[b + k] = r[k] /\ b + k \in c..(b + k)
        BY <1>1, <1>2, <1>4, Prefix
      <4> QED BY <2>4, <3>2, <4>1, <4>2 DEF ClosedBy
    <3> QED BY <2>6, <3>1, <3>2
  <2> QED BY <2>10, <2>11
<1>5. CASE ~upstream.orderly
  BY <1>5 DEF SentCallsVerified, CallsClosed, Live
<1> QED BY <1>3, <1>4, <1>5

-----------------------------------------------------------------------------
(* The numbers of the blocks *)

\* What is claimed of the block opened at q.
Follows(q) ==
  \/ out[q].index = 0 /\ \A p \in 1..(q - 1) : ~OpenedAt(p)
  \/ \E p \in 1..(q - 1) :
       /\ OpenedAt(p) /\ \A k \in (p + 1)..(q - 1) : ~OpenedAt(k)
       /\ out[q].index = out[p].index + 1
       /\ ClosedBy(p, q)

LEMMA StillFollows ==
  ASSUME TypeOK, NEW frames, NEW k \in Nat, Adds(frames, k),
         NEW q \in DOMAIN out, Follows(q)
  PROVE  Follows(q)'
<1>1. out \in Seq(OutFrame) /\ DOMAIN out = 1..Len(out) /\ Len(out) \in Nat
  BY Prefix DEF TypeOK, OutFrame
<1>2. \A p \in 1..(q - 1) : p \in DOMAIN out
  BY <1>1
<1>3. \A p \in 1..(q - 1) : OpenedAt(p)' <=> OpenedAt(p)
  BY <1>1, <1>2, SameBlocks
<1>4. out'[q] = out[q] /\ \A p \in 1..(q - 1) : out'[p] = out[p]
  BY <1>1, <1>2, Prefix
<1>5. CASE out[q].index = 0 /\ \A p \in 1..(q - 1) : ~OpenedAt(p)
  BY <1>3, <1>4, <1>5 DEF Follows
<1>6. ASSUME NEW p \in 1..(q - 1),
             OpenedAt(p), \A i \in (p + 1)..(q - 1) : ~OpenedAt(i),
             out[q].index = out[p].index + 1, ClosedBy(p, q)
      PROVE  Follows(q)'
  <2>1. ClosedBy(p, q)' /\ OpenedAt(p)'
    BY <1>1, <1>2, <1>6, SameBlocks
  <2>2. \A i \in (p + 1)..(q - 1) : ~OpenedAt(i)'
    BY <1>1, <1>3, <1>6
  <2>3. out'[q].index = out'[p].index + 1
    BY <1>4, <1>6
  <2> QED BY <1>6, <2>1, <2>2, <2>3 DEF Follows
<1> QED BY <1>5, <1>6 DEF Follows

\* Frames that open nothing.
LEMMA QuietKeepsContiguity ==
  ASSUME TypeOK, NoteKeepsContiguity, NEW frames, NEW k \in Nat, Adds(frames, k),
         upstream'.orderly = upstream.orderly, findings \subseteq findings',
         upstream.orderly /\ "oversized-sse" \notin findings' =>
           \A j \in 1..k : ~Opens(frames[j])
  PROVE  NoteKeepsContiguity'
<1>1. out \in Seq(OutFrame)
  BY DEF TypeOK, OutFrame
<1> SUFFICES ASSUME upstream.orderly, "oversized-sse" \notin findings',
                    NEW q \in DOMAIN out', OpenedAt(q)'
             PROVE  Follows(q)'
  BY DEF NoteKeepsContiguity, Follows
<1>2. q \in DOMAIN out
  <2> SUFFICES ASSUME q \notin DOMAIN out PROVE FALSE
    OBVIOUS
  <2>1. PICK j \in 1..k : out'[q] = frames[j]
    BY <1>1, Prefix
  <2> QED BY <2>1 DEF OpenedAt, Opens
<1>3. Follows(q)
  BY <1>1, <1>2, SameBlocks DEF NoteKeepsContiguity, Follows
<1> QED BY <1>2, <1>3, StillFollows

LEMMA StillLast ==
  ASSUME TypeOK, NEW frames, NEW k \in Nat, Adds(frames, k),
         \A j \in 1..k : ~Opens(frames[j])
  PROVE  /\ \A p \in DOMAIN out : LastOpened(p) => LastOpened(p)'
         /\ (\A p \in DOMAIN out : ~OpenedAt(p)) => \A p \in DOMAIN out' : ~OpenedAt(p)'
<1>1. out \in Seq(OutFrame)
  BY DEF TypeOK, OutFrame
<1>2. /\ Len(out) \in Nat /\ DOMAIN out = 1..Len(out)
      /\ Len(out') = Len(out) + k /\ DOMAIN out' = 1..(Len(out) + k)
  BY <1>1, Prefix
<1>3. \A q \in DOMAIN out' : OpenedAt(q)' => q \in DOMAIN out /\ OpenedAt(q)
  <2> SUFFICES ASSUME NEW q \in DOMAIN out', OpenedAt(q)'
               PROVE  q \in DOMAIN out /\ OpenedAt(q)
    OBVIOUS
  <2>1. q \in DOMAIN out
    <3> SUFFICES ASSUME q \notin DOMAIN out PROVE FALSE
      OBVIOUS
    <3>1. PICK j \in 1..k : out'[q] = frames[j]
      BY <1>1, Prefix
    <3> QED BY <3>1 DEF OpenedAt, Opens
  <2> QED BY <1>1, <2>1, SameBlocks
<1>4. ASSUME NEW p \in DOMAIN out, LastOpened(p) PROVE LastOpened(p)'
  <2>1. OpenedAt(p)'
    BY <1>1, <1>4, SameBlocks DEF LastOpened
  <2>2. ASSUME NEW q \in (p + 1)..Len(out'), OpenedAt(q)' PROVE FALSE
    <3>1. q \in DOMAIN out'
      BY <1>2, <2>2
    <3>2. q \in DOMAIN out /\ OpenedAt(q)
      BY <1>3, <2>2, <3>1
    <3>3. q \in (p + 1)..Len(out)
      BY <1>2, <2>2, <3>2
    <3> QED BY <1>4, <3>2, <3>3 DEF LastOpened
  <2> QED BY <2>1, <2>2 DEF LastOpened
<1> QED BY <1>3, <1>4

LEMMA QuietKeepsNumbers ==
  ASSUME TypeOK, Contiguous, NEW frames, NEW k \in Nat, Adds(frames, k),
         phase # "done", upstream'.orderly = upstream.orderly,
         findings \subseteq findings',
         upstream.orderly /\ "oversized-sse" \notin findings' =>
           /\ \A j \in 1..k : ~Opens(frames[j])
           /\ upstream'.open = "text_start" <=> upstream.open = "text_start"
           /\ upstream'.next = upstream.next
  PROVE  Contiguous'
<1>1. out \in Seq(OutFrame) /\ failed \in BOOLEAN
  BY DEF TypeOK, OutFrame
<1> SUFFICES ASSUME Live', "oversized-sse" \notin findings' PROVE Numbered'
  BY DEF Contiguous
<1>2. Live /\ upstream.orderly
  BY <1>1 DEF Live, Adds
<1>3. Numbered
  BY <1>2 DEF Contiguous
<1>4. /\ \A p \in DOMAIN out : LastOpened(p) => LastOpened(p)' /\ p \in DOMAIN out'
      /\ (\A p \in DOMAIN out : ~OpenedAt(p)) => \A p \in DOMAIN out' : ~OpenedAt(p)'
      /\ \A p \in DOMAIN out : out'[p] = out[p]
  BY <1>1, <1>2, StillLast, Prefix
<1>5. \A p \in DOMAIN out : ClosedBy(p, Len(out)) => ClosedBy(p, Len(out))'
  BY <1>1, StillClosed
<1>6. \A p \in DOMAIN out : p \in DOMAIN out'
  BY <1>1, Prefix
<1> QED BY <1>2, <1>3, <1>4, <1>5, <1>6 DEF Numbered

\* A block with the next number.
OpensNext(frames) ==
  /\ upstream.open # "text_start"
  /\ Opens(frames[1]) /\ frames[1].index = upstream.next
  /\ \A j \in 2..Len(frames) : ~Opens(frames[j])

LEMMA OpenerIsLast ==
  ASSUME TypeOK, NEW frames, NEW k \in Nat, Adds(frames, k), k > 0, Len(frames) \in Nat,
         OpensNext(frames), NEW c, c = Len(out) + 1
  PROVE  LastOpened(c)' /\ out'[c].index = upstream.next
<1>1. out \in Seq(OutFrame)
  BY DEF TypeOK, OutFrame
<1>2. /\ Len(out) \in Nat /\ DOMAIN out = 1..Len(out)
      /\ Len(out') = Len(out) + k /\ DOMAIN out' = 1..(Len(out) + k)
      /\ k <= Len(frames)
  BY <1>1, Prefix DEF Adds
<1>3. c \in DOMAIN out' /\ out'[c] = frames[1]
  BY <1>1, <1>2, Prefix
<1>4. OpenedAt(c)' /\ out'[c].index = upstream.next
  BY <1>3 DEF OpenedAt, OpensNext, Opens
<1>5. ASSUME NEW q \in (c + 1)..Len(out'), OpenedAt(q)' PROVE FALSE
  <2>1. q \in DOMAIN out' /\ q \notin DOMAIN out
    BY <1>2, <1>5
  <2>0. \A r \in DOMAIN out' :
          r \in DOMAIN out \/ \E j \in 1..k : r = Len(out) + j /\ out'[r] = frames[j]
    BY <1>1, Prefix
  <2>2. PICK j \in 1..k : q = Len(out) + j /\ out'[q] = frames[j]
    BY <2>1, <2>0, Zenon
  <2>3. j \in 2..Len(frames)
    BY <1>2, <1>5, <2>2
  <2> QED BY <1>5, <2>2, <2>3 DEF OpensNext, OpenedAt, Opens
<1>6. \A q \in (c + 1)..Len(out') : ~OpenedAt(q)'
  BY <1>5
<1>7. LastOpened(c)'
  BY <1>4, <1>6 DEF LastOpened
<1> QED BY <1>4, <1>7

LEMMA OpenerKeepsContiguity ==
  ASSUME TypeOK, NoteKeepsContiguity, Contiguous, phase # "done",
         NEW frames, NEW k \in Nat, Adds(frames, k), Len(frames) \in Nat,
         upstream'.orderly = upstream.orderly, findings \subseteq findings',
         upstream.orderly => OpensNext(frames)
  PROVE  NoteKeepsContiguity'
<1> PICK c : c = Len(out) + 1
  OBVIOUS
<1>1. out \in Seq(OutFrame) /\ failed \in BOOLEAN
  BY DEF TypeOK, OutFrame
<1>2. CASE k = 0
  BY <1>2, QuietKeepsContiguity
<1>3. CASE k # 0
  <2> SUFFICES ASSUME upstream.orderly, "oversized-sse" \notin findings',
                      NEW q \in DOMAIN out', OpenedAt(q)'
               PROVE  Follows(q)'
    BY DEF NoteKeepsContiguity, Follows
  <2>1. Len(out) \in Nat /\ DOMAIN out = 1..Len(out) /\ c \in DOMAIN out'
    BY <1>1, <1>3, Prefix
  <2>2. CASE q \in DOMAIN out
    <3>1. Follows(q)
      BY <1>1, <2>2, SameBlocks DEF NoteKeepsContiguity, Follows
    <3> QED BY <2>2, <3>1, StillFollows
  <2>3. CASE q \notin DOMAIN out
    <3>1. LastOpened(c)' /\ out'[c].index = upstream.next
      BY <1>3, OpenerIsLast
    <3>2. q = c
      <4>1. q \in c..Len(out')
        BY <1>1, <2>1, <2>3, Prefix
      <4>2. \A i \in (c + 1)..Len(out') : ~OpenedAt(i)'
        BY <3>1 DEF LastOpened
      <4> QED BY <2>1, <4>1, <4>2
    <3>3. Numbered
      BY <1>1, <1>3 DEF Contiguous, Live, Adds
    <3>4. \A p \in DOMAIN out : out'[p] = out[p] /\ (OpenedAt(p)' <=> OpenedAt(p))
      BY <1>1, Prefix, SameBlocks
    <3>5. CASE upstream.next = 0 /\ \A p \in DOMAIN out : ~OpenedAt(p)
      BY <2>1, <3>1, <3>2, <3>4, <3>5 DEF Follows
    <3>6. CASE \E p \in DOMAIN out : /\ LastOpened(p) /\ out[p].index + 1 = upstream.next
                                     /\ ClosedBy(p, Len(out))
      <4>1. PICK p \in DOMAIN out : /\ LastOpened(p) /\ out[p].index + 1 = upstream.next
                                    /\ ClosedBy(p, Len(out))
        BY <3>6
      <4>2. p \in 1..(c - 1) /\ OpenedAt(p)' /\ out'[c].index = out'[p].index + 1
        BY <2>1, <3>1, <3>4, <4>1 DEF LastOpened
      <4>3. \A i \in (p + 1)..(c - 1) : ~OpenedAt(i)'
        BY <2>1, <3>4, <4>1 DEF LastOpened
      <4>4. ClosedBy(p, c)'
        <5>1. PICK s \in p..Len(out) : out[s] = BlockStop(out[p].index)
          BY <4>1 DEF ClosedBy
        <5>2. s \in p..c /\ out'[s] = BlockStop(out'[p].index)
          BY <2>1, <3>4, <5>1
        <5> QED BY <5>2 DEF ClosedBy
      <4> QED BY <3>2, <4>2, <4>3, <4>4 DEF Follows
    <3> QED BY <3>3, <3>5, <3>6 DEF Numbered, OpensNext
  <2> QED BY <2>2, <2>3
<1> QED BY <1>2, <1>3

\* After a whole block, or after the start of a text, the number is that of the next.
LEMMA OpenerKeepsNumbers ==
  ASSUME TypeOK, NEW frames, NEW k \in Nat, Adds(frames, k), Len(frames) \in Nat \ {0},
         upstream.orderly => OpensNext(frames), upstream'.orderly = upstream.orderly,
         phase' # "done" /\ upstream.orderly =>
           IF upstream'.open = "text_start" THEN upstream'.next = upstream.next
           ELSE /\ upstream'.next = upstream.next + 1
                /\ frames[Len(frames)] = BlockStop(upstream.next)
  PROVE  Contiguous'
<1> PICK c : c = Len(out) + 1
  OBVIOUS
<1>1. out \in Seq(OutFrame)
  BY DEF TypeOK, OutFrame
<1> SUFFICES ASSUME Live' PROVE Numbered'
  BY DEF Contiguous
<1>2. ~(k < Len(frames)) /\ upstream.orderly /\ phase' # "done"
  BY DEF Live, Adds
<1>3. k = Len(frames) /\ k > 0
  BY <1>2 DEF Adds
<1>4. /\ Len(out) \in Nat /\ Len(out') = Len(out) + k
      /\ c \in DOMAIN out' /\ out'[Len(out')] = frames[k] /\ Len(out') \in c..Len(out')
  BY <1>1, <1>3, Prefix
<1>5. LastOpened(c)' /\ out'[c].index = upstream.next
  BY <1>2, <1>3, OpenerIsLast
<1>6. CASE upstream'.open = "text_start"
  BY <1>2, <1>4, <1>5, <1>6 DEF Numbered
<1>7. CASE upstream'.open # "text_start"
  <2>1. ClosedBy(c, Len(out))'
    BY <1>2, <1>3, <1>4, <1>5, <1>7 DEF ClosedBy
  <2> QED BY <1>2, <1>4, <1>5, <1>7, <2>1 DEF Numbered
<1> QED BY <1>6, <1>7

-----------------------------------------------------------------------------
(* The steps *)

OutInv ==
  /\ Noted /\ NoToolUseAfterNote
  /\ CallsClosed /\ SentCallsVerified
  /\ Contiguous /\ NoteKeepsContiguity

LEMMA Silent ==
  ASSUME TypeOK, UNCHANGED <<out, failed>>
  PROVE  Adds(<<>>, 0)
<1>1. out' = out /\ out \in Seq(OutFrame) /\ failed' = failed /\ failed \in BOOLEAN
  BY DEF TypeOK, OutFrame
<1>2. Len(<<>>) = 0 /\ 1..0 = {}
  OBVIOUS
<1>3. failed' = (failed \/ 0 < 0)
  BY <1>1
<1>4. out' \in Seq(OutFrame) /\ Len(out') = Len(out) + 0 /\ 0 \in 0..Len(<<>>)
  BY <1>1, <1>2
<1>5. /\ \A p \in 1..Len(out) : out'[p] = out[p]
      /\ \A j \in 1..0 : out'[Len(out) + j] = <<>>[j]
  BY <1>1, <1>2
<1>6. failed => 0 = 0
  OBVIOUS
<1>7. failed' = (failed \/ 0 < Len(<<>>))
  BY <1>2, <1>3
<1> QED BY <1>4, <1>5, <1>6, <1>7 DEF Adds

\* A step that writes nothing.
LEMMA SilentKeepsOut ==
  ASSUME TypeOK, OutInv, UNCHANGED <<out, failed, declaredTools>>, phase # "done",
         upstream'.orderly = upstream.orderly, findings \subseteq findings',
         upstream.orderly =>
           /\ upstream'.open = "text_start" <=> upstream.open = "text_start"
           /\ upstream'.next = upstream.next,
         Noted'
  PROVE  OutInv'
<1>1. Adds(<<>>, 0)
  BY Silent
<1>2. \A j \in 1..0 : FALSE
  OBVIOUS
<1>3. NoToolUseAfterNote'
  BY <1>1, <1>2, QuietKeepsNotes DEF OutInv
<1>4. SentCallsVerified' /\ CallsClosed'
  BY <1>1, <1>2, QuietKeepsCalls, QuietKeepsClosed DEF OutInv
<1>5. NoteKeepsContiguity' /\ Contiguous'
  BY <1>1, <1>2, QuietKeepsContiguity, QuietKeepsNumbers DEF OutInv
<1> QED BY <1>3, <1>4, <1>5 DEF OutInv

LEMMA HoldKeepsOut ==
  ASSUME IInv, NEW f \in Frame, NEW n \in Sizes, NEW d \in DeltaSizes(f),
         HoldFrame(f, n, d)
  PROVE  OutInv'
<1>1. TypeOK /\ HoldInv /\ OutInv
  BY DEF IInv, CallInv, OutInv
<1>2. /\ UNCHANGED <<out, failed, declaredTools, findings, droppedTool, buffering, phase>>
      /\ phase = "reading" /\ Receive(f) /\ buffering /\ ~ClosesHeld(f)
  BY DEF HoldFrame, stateVars, Receive
<1>3. upstream \in Upstreams
  BY <1>1 DEF TypeOK, Upstreams
<1>4. upstream.orderly => upstream'.open = upstream.open /\ upstream'.next = upstream.next
  <2> SUFFICES ASSUME upstream.orderly
               PROVE  upstream'.open = upstream.open /\ upstream'.next = upstream.next
    OBVIOUS
  <2>1. ~Opens(f) /\ f.kind # "block_stop"
    BY <1>1, <1>2, OrderlyInCall DEF PartOfCall, InCall, Opens
  <2> QED BY <1>2, <1>3, <2>1, Received
<1>5. Noted'
  BY <1>1, <1>2 DEF OutInv, Noted, Kind
<1> QED BY <1>1, <1>2, <1>3, <1>4, <1>5, Received, SilentKeepsOut

LEMMA StartKeepsOut ==
  ASSUME IInv, NEW f \in Frame, NEW n \in Sizes, StartTool(f, n)
  PROVE  OutInv'
<1>1. TypeOK /\ HoldInv /\ OutInv
  BY DEF IInv, CallInv, OutInv
<1>2. /\ UNCHANGED <<out, failed, declaredTools, droppedTool>>
      /\ phase = "reading" /\ Receive(f) /\ findings \subseteq findings'
      /\ f.kind = "tool_start"
  BY DEF StartTool, Receive
<1>3. upstream \in Upstreams
  BY <1>1 DEF TypeOK, Upstreams
<1>4. upstream.orderly => /\ upstream.open = "none" /\ upstream'.open = "tool_start"
                          /\ upstream'.next = upstream.next
  BY <1>2, <1>3, Received DEF Conforming, Opens, Within
<1>5. Noted'
  BY <1>1, <1>2 DEF OutInv, Noted, Kind
<1> QED BY <1>1, <1>2, <1>3, <1>4, <1>5, Received, SilentKeepsOut

LEMMA EndKeepsOut ==
  ASSUME IInv, UpstreamEnds
  PROVE  OutInv'
<1>1. TypeOK /\ OutInv
  BY DEF IInv, CallInv, OutInv
<1>2. /\ UNCHANGED <<out, failed, declaredTools, findings, droppedTool, upstream>>
      /\ phase = "reading"
  BY DEF UpstreamEnds, stateVars
<1>3. Noted'
  BY <1>1, <1>2 DEF OutInv, Noted, Kind
<1> QED BY <1>1, <1>2, <1>3, SilentKeepsOut

LEMMA ForwardKeepsOut ==
  ASSUME IInv, NEW f, NEW g, Forwards(f, g)
  PROVE  OutInv'
<1>1. TypeOK /\ HoldInv /\ OutInv /\ out \in Seq(OutFrame)
  BY DEF IInv, CallInv, OutInv, TypeOK, OutFrame
<1>2. PICK k \in Nat : Adds(<<g>>, k)
  BY <1>1, ForwardAdds
<1>3. /\ f \in Frame /\ g \in Frame /\ g.kind = f.kind /\ f.kind # "tool_start"
      /\ f.kind # "message_delta" => g = f
      /\ droppedTool => g # MessageDelta("tool_use")
      /\ UNCHANGED <<declaredTools, droppedTool, buffering>> /\ findings \subseteq findings'
      /\ phase = "reading" /\ Receive(f) /\ (buffering => f.kind = "unparsed")
  BY DEF Forwards, callVars, Receive
<1>4. k \in 0..1 /\ Len(<<g>>) = 1 /\ <<g>>[1] = g
  BY <1>2 DEF Adds
<1>5. \A j \in 1..k : <<g>>[j] = g
  BY <1>4
<1>6. upstream'.orderly = upstream.orderly
  BY <1>1, <1>3, Received DEF TypeOK, Upstreams
<1>7. \A p \in DOMAIN out' : Kind(p, "note")' => p \in DOMAIN out /\ Kind(p, "note")
  <2> SUFFICES ASSUME NEW p \in DOMAIN out', Kind(p, "note")'
               PROVE  p \in DOMAIN out /\ Kind(p, "note")
    OBVIOUS
  <2>1. p \in DOMAIN out
    <3> SUFFICES ASSUME p \notin DOMAIN out PROVE FALSE
      OBVIOUS
    <3>1. PICK j \in 1..k : out'[p] = <<g>>[j]
      BY <1>1, <1>2, Prefix
    <3> QED BY <1>3, <1>5, <3>1, FrameIs DEF Kind
  <2> QED BY <1>1, <1>2, <2>1, SameBlocks
<1>8. failed => failed' /\ k = 0
  BY <1>2 DEF Adds
<1>9. (\E p \in DOMAIN out : Kind(p, "note")) => droppedTool \/ failed
  BY <1>1, <1>3 DEF OutInv, Noted
<1>10. Noted'
  BY <1>3, <1>7, <1>8, <1>9 DEF Noted
<1>11. NoToolUseAfterNote'
  <2>1. CASE \E p \in DOMAIN out : Kind(p, "note")
    <3>1. \A j \in 1..k : <<g>>[j] # MessageDelta("tool_use")
      BY <1>3, <1>5, <1>8, <1>9, <2>1
    <3> QED BY <1>1, <1>2, <1>6, <3>1, QuietKeepsNotes DEF OutInv
  <2>2. CASE ~\E p \in DOMAIN out : Kind(p, "note")
    BY <1>7, <2>2 DEF NoToolUseAfterNote
  <2> QED BY <2>1, <2>2
<1>12. ASSUME upstream.orderly
       PROVE  /\ Conforming(f) /\ f.kind # "arg_delta"
              /\ upstream'.open = IF Opens(f) THEN f.kind
                                  ELSE IF f.kind = "block_stop" THEN "none"
                                  ELSE upstream.open
              /\ upstream'.next = IF f.kind = "block_stop" THEN upstream.next + 1
                                  ELSE upstream.next
              /\ buffering <=> upstream.open = "tool_start"
  <2>1. /\ Conforming(f)
        /\ upstream'.open = IF Opens(f) THEN f.kind
                            ELSE IF f.kind = "block_stop" THEN "none" ELSE upstream.open
        /\ upstream'.next = IF f.kind = "block_stop" THEN upstream.next + 1
                            ELSE upstream.next
    BY <1>1, <1>3, <1>12, Received DEF TypeOK, Upstreams
  <2>2. buffering <=> upstream.open = "tool_start"
    BY <1>1, <1>3, <1>12 DEF HoldInv, InStep
  <2>3. f.kind # "arg_delta"
    BY <1>3, <2>1, <2>2 DEF Conforming, Opens, Within
  <2> QED BY <2>1, <2>2, <2>3
<1>13. SentCallsVerified' /\ CallsClosed'
  <2>1. upstream.orderly =>
          \A j \in 1..k : <<g>>[j].kind \notin {"tool_start", "arg_delta"}
    BY <1>3, <1>5, <1>12
  <2> QED BY <1>1, <1>2, <1>3, <1>6, <2>1, QuietKeepsCalls, QuietKeepsClosed DEF OutInv
<1>14. NoteKeepsContiguity' /\ Contiguous'
  <2>1. CASE ~upstream.orderly
    BY <1>6, <2>1 DEF NoteKeepsContiguity, Contiguous, Live
  <2>2. CASE upstream.orderly /\ f.kind = "text_start"
    <3>1. OpensNext(<<g>>)
      <4>1. g = f /\ f.index = upstream.next /\ upstream.open = "none" /\ Opens(g)
        BY <1>3, <1>12, <2>2 DEF Conforming, Opens, Within
      <4> QED BY <1>4, <4>1 DEF OpensNext
    <3>2. upstream'.open = "text_start" /\ upstream'.next = upstream.next
      BY <1>12, <2>2 DEF Opens
    <3>3. NoteKeepsContiguity'
      BY <1>1, <1>2, <1>3, <1>4, <1>6, <3>1, OpenerKeepsContiguity DEF OutInv
    <3>4. Contiguous'
      BY <1>1, <1>2, <1>4, <1>6, <3>1, <3>2, OpenerKeepsNumbers
    <3> QED BY <3>3, <3>4
  <2>3. CASE upstream.orderly /\ f.kind # "text_start"
    <3>1. ~Opens(g) /\ ~Opens(f) /\ \A j \in 1..k : ~Opens(<<g>>[j])
      BY <1>3, <1>5, <2>3 DEF Opens
    <3>2. NoteKeepsContiguity'
      BY <1>1, <1>2, <1>3, <1>6, <3>1, QuietKeepsContiguity DEF OutInv
    <3>3. CASE f.kind # "block_stop"
      <4>1. upstream'.open = upstream.open /\ upstream'.next = upstream.next
        BY <1>12, <2>3, <3>1, <3>3
      <4> QED BY <1>1, <1>2, <1>3, <1>6, <3>1, <3>2, <4>1, QuietKeepsNumbers DEF OutInv
    <3>4. CASE f.kind = "block_stop"
      <4>1. /\ g = f /\ f.index = upstream.next /\ upstream.open = "text_start"
            /\ upstream'.open = "none" /\ upstream'.next = upstream.next + 1
            /\ f = BlockStop(upstream.next)
        BY <1>3, <1>12, <2>3, <3>1, <3>4, FrameIs DEF Conforming, Opens, Within
      <4>2. ASSUME Live', "oversized-sse" \notin findings' PROVE Numbered'
        <5>1. ~(k < 1) /\ ~failed
          BY <1>2, <1>4, <4>2 DEF Live, Adds
        <5>2. Numbered
          BY <1>1, <1>3, <2>3, <4>2, <5>1 DEF OutInv, Contiguous, Live
        <5>3. PICK p \in DOMAIN out : LastOpened(p) /\ out[p].index = upstream.next
          BY <4>1, <5>2 DEF Numbered
        <5>4. LastOpened(p)' /\ p \in DOMAIN out' /\ out'[p] = out[p]
          BY <1>1, <1>2, <3>1, <5>3, StillLast, Prefix
        <5>5. k = 1 /\ Len(out') = Len(out) + 1 /\ Len(out) \in Nat /\ p \in 1..Len(out)
              /\ out'[Len(out')] = g
          BY <1>1, <1>2, <1>4, <5>1, Prefix
        <5>6. ClosedBy(p, Len(out))'
          BY <4>1, <5>3, <5>4, <5>5 DEF ClosedBy
        <5> QED BY <4>1, <5>3, <5>4, <5>6 DEF Numbered
      <4> QED BY <3>2, <4>2 DEF Contiguous
    <3> QED BY <3>2, <3>3, <3>4
  <2> QED BY <2>1, <2>2, <2>3
<1> QED BY <1>10, <1>11, <1>13, <1>14 DEF OutInv

LEMMA NoteKinds ==
  ASSUME NEW i \in Index
  PROVE  \A j \in 1..3 : /\ Note(i)[j].kind \in {"text_start", "note", "block_stop"}
                         /\ j \in 2..3 => ~Opens(Note(i)[j])
BY NoteIs, FramesDiffer DEF Opens

\* A call that is resolved, at its end or at the end of the stream.
LEMMA ResolvedKeepsOut ==
  ASSUME IInv, buffering, phase # "done",
         NEW r, NEW insp, NEW over, NEW ok \in BOOLEAN,
         ok = Clean(bufName, insp, over), Resolves(r, ok), ok => Replay(r, insp),
         UNCHANGED declaredTools, upstream'.orderly = upstream.orderly,
         findings \subseteq findings',
         phase' # "done" =>
           /\ ok => r[Len(r)] = BlockStop(bufIndex)
           /\ upstream.orderly => /\ upstream'.open = "none"
                                  /\ upstream'.next = upstream.next + 1
  PROVE  OutInv'
<1>1. TypeOK /\ HoldInv /\ OutInv /\ out \in Seq(OutFrame) /\ bufIndex \in Index
  BY DEF IInv, CallInv, OutInv, TypeOK, OutFrame
<1>2. PICK k \in Nat : Adds(IF ok THEN r ELSE Note(bufIndex), k)
  BY DEF Resolves
<1>3. failed => failed'
  BY <1>2 DEF Adds
<1>4. (\E p \in DOMAIN out : Kind(p, "note")) => droppedTool \/ failed
  BY <1>1 DEF OutInv, Noted
<1>5. droppedTool' = (droppedTool \/ ~ok)
  BY DEF Resolves
<1>6. upstream.orderly => bufIndex = upstream.next /\ upstream.open = "tool_start"
  BY <1>1 DEF HoldInv, InStep
<1>7. CASE ok
  <2>1. Replay(r, insp) /\ Clean(bufName, insp, over) /\ Adds(r, k)
    BY <1>2, <1>7
  <2>2. Len(r) \in Nat \ {0} /\ r[1] = ToolStart(bufIndex, bufName)
    BY <2>1 DEF Replay
  <2>3. /\ NoToolUseAfterNote'
        /\ \A p \in DOMAIN out' : Kind(p, "note")' => p \in DOMAIN out /\ Kind(p, "note")
    BY <1>1, <2>1, ReplayKeepsNotes DEF OutInv
  <2>4. Noted'
    BY <1>3, <1>4, <1>5, <2>3 DEF Noted
  <2>5. SentCallsVerified' /\ CallsClosed'
    BY <1>1, <1>7, <2>1, ReplayKeepsCalls DEF OutInv
  <2>6. upstream.orderly => OpensNext(r)
    <3> SUFFICES ASSUME upstream.orderly PROVE OpensNext(r)
      OBVIOUS
    <3>1. Opens(r[1]) /\ r[1].index = upstream.next
      BY <1>6, <2>2, FramesDiffer DEF Opens
    <3>2. \A j \in 2..Len(r) : ~Opens(r[j])
      BY <2>1 DEF Replay, PartOfCall, InCall, Opens
    <3> QED BY <1>6, <3>1, <3>2 DEF OpensNext
  <2>7. NoteKeepsContiguity'
    BY <1>1, <2>1, <2>2, <2>6, OpenerKeepsContiguity DEF OutInv
  <2>8. Contiguous'
    BY <1>1, <1>6, <1>7, <2>1, <2>2, <2>6, OpenerKeepsNumbers
  <2> QED BY <2>3, <2>4, <2>5, <2>7, <2>8 DEF OutInv
<1>8. CASE ~ok
  <2>1. PICK t : t = Note(bufIndex)
    OBVIOUS
  <2>2. /\ Adds(t, k) /\ Len(t) = 3 /\ k \in 0..3
        /\ t[1] = TextStart(bufIndex) /\ t[3] = BlockStop(bufIndex)
    BY <1>1, <1>2, <1>8, <2>1, NoteIs DEF Adds
  <2>3. \A j \in 1..3 : /\ t[j].kind \in {"text_start", "note", "block_stop"}
                        /\ j \in 2..3 => ~Opens(t[j])
    BY <1>1, <2>1, NoteKinds
  <2>4. \A j \in 1..k : /\ t[j] # MessageDelta("tool_use")
                        /\ t[j].kind \notin {"tool_start", "arg_delta"}
    BY <2>2, <2>3, FramesDiffer
  <2>5. Noted'
    BY <1>5, <1>8 DEF Noted
  <2>6. NoToolUseAfterNote'
    BY <1>1, <2>2, <2>4, QuietKeepsNotes DEF OutInv
  <2>7. SentCallsVerified' /\ CallsClosed'
    BY <1>1, <2>2, <2>4, QuietKeepsCalls, QuietKeepsClosed DEF OutInv
  <2>8. upstream.orderly => OpensNext(t)
    BY <1>6, <2>2, <2>3, FramesDiffer DEF OpensNext, Opens
  <2>9. Len(t) \in Nat \ {0} /\ t[Len(t)] = BlockStop(bufIndex)
    BY <2>2
  <2>10. NoteKeepsContiguity'
    BY <1>1, <2>2, <2>8, <2>9, OpenerKeepsContiguity DEF OutInv
  <2>11. Contiguous'
    BY <1>1, <1>6, <2>2, <2>8, <2>9, OpenerKeepsNumbers
  <2> QED BY <2>5, <2>6, <2>7, <2>10, <2>11 DEF OutInv
<1> QED BY <1>7, <1>8

LEMMA ResolveKeepsOut ==
  ASSUME IInv, NEW f \in Frame, NEW n \in Sizes, ResolveHeld(f, n)
  PROVE  OutInv'
<1>1. TypeOK /\ HoldInv /\ Settled
  BY DEF IInv, CallInv
<1>2. PICK h : h = Held(f, n, 0)
  OBVIOUS
<1>3. /\ buffering /\ ClosesHeld(f) /\ Receive(f) /\ phase = "reading"
      /\ FinalizeTool(h.raw, h.insp, h.over) /\ findings \subseteq findings'
      /\ UNCHANGED declaredTools
  BY <1>2 DEF ResolveHeld, Receive
<1>4. h.raw \in Seq(Frame)
  <2>1. 0 \in DeltaSizes(f)
    BY <1>3 DEF DeltaSizes, ClosesHeld
  <2> QED BY <1>1, <1>2, <2>1, HeldIs
<1>5. PICK ok \in BOOLEAN : ok = Clean(bufName, h.insp, h.over) /\ Resolves(h.raw, ok)
  BY <1>1, <1>3, <1>4, Finalized DEF Settled
<1>6. ok => ~h.over
  BY <1>5 DEF Clean
<1>7. ok => Replay(h.raw, h.insp) /\ h.raw[Len(h.raw)] = BlockStop(bufIndex)
  BY <1>1, <1>2, <1>6, ReplayAtStop
<1>8. /\ upstream'.orderly = upstream.orderly
      /\ upstream.orderly => upstream'.open = "none" /\ upstream'.next = upstream.next + 1
  BY <1>1, <1>3, Received DEF ClosesHeld, TypeOK, Upstreams, Opens
<1> QED BY <1>3, <1>5, <1>7, <1>8, ResolvedKeepsOut

LEMMA CloseKeepsOut ==
  ASSUME IInv, Close
  PROVE  OutInv'
<1>1. TypeOK /\ HoldInv /\ Settled /\ OutInv
  BY DEF IInv, CallInv, OutInv
<1>2. /\ phase = "closing" /\ phase' = "done" /\ findings \subseteq findings'
      /\ UNCHANGED <<declaredTools, upstream>>
  BY DEF Close
<1>3. CASE buffering
  <2>1. PICK ok \in BOOLEAN :
          ok = Clean(bufName, bufInspect, oversized) /\ Resolves(bufRaw, ok)
    BY <1>1, <1>3, Finalized DEF Close, Settled, TypeOK
  <2>2. ok => Replay(bufRaw, bufInspect)
    BY <1>1, <1>3, <2>1, ReplayAtClose DEF Clean
  <2> QED BY <1>2, <1>3, <2>1, <2>2, ResolvedKeepsOut
<1>4. CASE ~buffering
  <2>1. UNCHANGED <<out, failed, buffering, droppedTool>>
    BY <1>4 DEF Close
  <2>2. Noted'
    BY <1>1, <1>2, <1>4, <2>1 DEF OutInv, Noted, Kind
  <2> QED BY <1>1, <1>2, <2>1, <2>2, SilentKeepsOut
<1> QED BY <1>3, <1>4

LEMMA OversizedKeepsOut ==
  ASSUME IInv, OnOversized
  PROVE  OutInv'
<1>1. TypeOK /\ Settled /\ OutInv /\ OverflowIndex \in Index
  BY IndexAssumption DEF IInv, CallInv, OutInv, OverflowIndex, TypeOK
<1>2. PICK t : t = Note(OverflowIndex) \o <<Plain("message_stop")>>
  OBVIOUS
<1>3. PICK k \in Nat : Adds(t, k)
  BY <1>1, <1>2, OversizedKeepsTypes
<1>4. Len(t) = 4 /\ \A j \in 1..4 : t[j] = IF j = 4 THEN Plain("message_stop")
                                           ELSE Note(OverflowIndex)[j]
  BY <1>1, <1>2, NoteIs
<1>5. \A j \in 1..k : t[j].kind \in {"text_start", "note", "block_stop", "message_stop"}
  <2>1. \A j \in 1..4 :
          t[j].kind \in {"text_start", "note", "block_stop", "message_stop"}
    <3> SUFFICES ASSUME NEW j \in 1..4
                 PROVE  t[j].kind \in {"text_start", "note", "block_stop", "message_stop"}
      OBVIOUS
    <3>1. CASE j = 4
      BY <1>4, <3>1, FramesDiffer
    <3>2. CASE j # 4
      BY <1>1, <1>4, <3>2, NoteKinds
    <3> QED BY <3>1, <3>2
  <2> QED BY <1>3, <1>4, <2>1 DEF Adds
<1>6. \A j \in 1..k : /\ t[j] # MessageDelta("tool_use")
                      /\ t[j].kind \notin {"tool_start", "arg_delta"}
  BY <1>5, FramesDiffer
<1>7. /\ UNCHANGED <<declaredTools, upstream>> /\ phase = "reading" /\ phase' = "closing"
      /\ buffering' = FALSE /\ "oversized-sse" \in findings'
  BY DEF OnOversized, LetGo
<1>8. Noted' /\ NoteKeepsContiguity' /\ Contiguous'
  BY <1>7 DEF Noted, NoteKeepsContiguity, Contiguous
<1>9. NoToolUseAfterNote'
  BY <1>1, <1>3, <1>6, <1>7, QuietKeepsNotes DEF OutInv
<1>10. SentCallsVerified' /\ CallsClosed'
  BY <1>1, <1>3, <1>6, <1>7, QuietKeepsCalls, QuietKeepsClosed DEF OutInv
<1> QED BY <1>8, <1>9, <1>10 DEF OutInv

LEMMA NextKeeps ==
  ASSUME IInv, Next
  PROVE  IInv'
<1>1. TypeOK /\ Settled /\ HoldInv
  BY DEF IInv, CallInv
<1>2. TypeOK' /\ Settled' /\ HoldInv' /\ OutInv' => IInv'
  BY DEF IInv, CallInv, OutInv
<1>3. CASE OnEvent
  <2>1. PICK f \in Arriving :
          \/ PassUnparsed(f) \/ ForwardText(f) \/ ForwardMessageDelta(f)
          \/ ForwardError(f) \/ ForwardOther(f)
          \/ \E n \in Sizes : \/ \E d \in DeltaSizes(f) : HoldFrame(f, n, d)
                              \/ ResolveHeld(f, n)
                              \/ StartTool(f, n)
    BY <1>3 DEF OnEvent
  <2>2. f \in Frame
    BY DEF Arriving
  <2>3. CASE \/ PassUnparsed(f) \/ ForwardText(f) \/ ForwardMessageDelta(f)
             \/ ForwardError(f) \/ ForwardOther(f)
    <3>1. PICK g \in Frame : Forwards(f, g)
      BY <1>1, <2>2, <2>3, WhatForwards
    <3> QED BY <1>1, <1>2, <3>1, ForwardKeepsTypes, ForwardKeepsHold, ForwardKeepsOut
  <2>4. ASSUME NEW n \in Sizes, NEW d \in DeltaSizes(f), HoldFrame(f, n, d) PROVE IInv'
    BY <1>1, <1>2, <2>2, <2>4, HoldKeepsTypes, HoldKeepsHold, HoldKeepsOut
  <2>5. ASSUME NEW n \in Sizes, ResolveHeld(f, n) PROVE IInv'
    BY <1>1, <1>2, <2>2, <2>5, ResolveKeepsTypes, ResolveKeepsHold, ResolveKeepsOut
  <2>6. ASSUME NEW n \in Sizes, StartTool(f, n) PROVE IInv'
    BY <1>1, <1>2, <2>2, <2>6, StartKeepsTypes, StartKeepsHold, StartKeepsOut
  <2> QED BY <2>1, <2>3, <2>4, <2>5, <2>6
<1>4. CASE OnOversized
  BY <1>1, <1>2, <1>4, OversizedKeepsTypes, EndsKeepHold, OversizedKeepsOut
<1>5. CASE UpstreamEnds
  BY <1>1, <1>2, <1>5, EndKeepsTypes, EndsKeepHold, EndKeepsOut
<1>6. CASE Close
  BY <1>1, <1>2, <1>6, CloseKeepsTypes, EndsKeepHold, CloseKeepsOut
<1> QED BY <1>3, <1>4, <1>5, <1>6 DEF Next

LEMMA Stutter ==
  ASSUME IInv, UNCHANGED vars
  PROVE  IInv'
<1>1. /\ UNCHANGED <<declaredTools, findings, sawTool, blocked, out, failed>>
      /\ UNCHANGED <<buffering, bufIndex, bufName, bufRaw, bufBytes, bufInspect>>
      /\ UNCHANGED <<nameFindings, oversized, phase, droppedTool, text, upstream, ledger>>
  BY DEF vars, stateVars, callVars
<1>2. CallInv'
  BY <1>1 DEF IInv, CallInv, TypeOK, Settled, CheckToolCall
<1>3. HoldInv'
  BY <1>1 DEF IInv, HoldInv, Holding, OrderlyHolding, InStep, PartOfCall,
              Given, NextIn, LastIn, ArgIn, Signature
<1>4. OutInv'
  BY <1>1 DEF IInv, OutInv, Noted, NoToolUseAfterNote, CallsClosed, SentCallsVerified,
              Contiguous, NoteKeepsContiguity, Live, Numbered, LastOpened, Kind,
              NextArg, IsArg, InBlock, OpenedAt, ClosedBy, Opens
<1> QED BY <1>2, <1>3, <1>4 DEF IInv, OutInv

LEMMA InitHolds ==
  ASSUME Init
  PROVE  IInv
<1>1. /\ out = <<>> /\ ledger = <<>> /\ bufRaw = <<>> /\ bufInspect = <<>> /\ text = <<>>
      /\ ~failed /\ ~buffering /\ phase = "reading" /\ ~droppedTool /\ ~blocked
  BY DEF Init, StateInit
<1>2. PICK o \in BOOLEAN : upstream = UpstreamInit(o)
  BY DEF Init
<1>3. upstream \in Upstreams /\ upstream.open = "none" /\ upstream.next = 0
  BY <1>2, BoundAssumption DEF UpstreamInit, Upstreams
<1>4. DOMAIN out = {} /\ DOMAIN ledger = {}
  BY <1>1
<1>5. TypeOK
  <2>1. /\ bufRaw \in Seq(Frame) /\ bufInspect \in Seq(Frag) /\ text \in Seq(Frag)
        /\ out \in Seq(OutFrame) /\ ledger \in Seq(Entry)
    BY <1>1
  <2>2. /\ declaredTools \subseteq ToolName /\ findings = {} /\ nameFindings = {}
        /\ sawTool = FALSE /\ bufIndex = 0 /\ bufName = NoName /\ bufBytes = 0
        /\ oversized = FALSE /\ blocked = FALSE /\ failed = FALSE
        /\ buffering = FALSE /\ droppedTool = FALSE
    BY DEF Init, StateInit
  <2>3. bufIndex \in Index /\ bufName \in Name /\ bufBytes \in 0..MaxToolCallBytes
    BY <2>2, IndexAssumption, SizeAssumption DEF Name
  <2>4. findings \subseteq Rules /\ nameFindings \subseteq HighRules
    BY <2>2
  <2>5. /\ sawTool \in BOOLEAN /\ blocked \in BOOLEAN /\ failed \in BOOLEAN
        /\ buffering \in BOOLEAN /\ oversized \in BOOLEAN /\ droppedTool \in BOOLEAN
    BY <2>2
  <2> QED BY <1>1, <1>3, <2>1, <2>2, <2>3, <2>4, <2>5 DEF TypeOK, OutFrame, Entry, Upstreams
<1>6. Settled /\ HoldInv
  BY <1>1, <1>3, <1>4 DEF Settled, HoldInv, Holding, OrderlyHolding, InStep
<1>7. OutInv
  BY <1>1, <1>3, <1>4 DEF OutInv, Noted, NoToolUseAfterNote, CallsClosed,
     SentCallsVerified, Contiguous, NoteKeepsContiguity, Numbered
<1> QED BY <1>5, <1>6, <1>7 DEF IInv, CallInv, OutInv

LEMMA Inductive == Spec => []IInv
<1>1. Init => IInv
  BY InitHolds
<1>2. IInv /\ [Next]_vars => IInv'
  BY NextKeeps, Stutter
<1> QED BY <1>1, <1>2, PTL DEF Spec

\* What is held back for one call stays within the cap, whatever the upstream sends
\* (proxy.go:205-208, anthropic.go:140-157).
THEOREM TypesHold == Spec => []TypeOK
<1>1. IInv => TypeOK
  BY DEF IInv, CallInv
<1> QED BY <1>1, Inductive, PTL

\* Every call that a client of an orderly upstream can see is declared and carries
\* no high-severity signature, however its arguments were split, whatever was held,
\* dropped or written before and wherever the stream broke off
\* (streamAnthropicBlock, anthropic.go:85-223).
THEOREM CallsAreVerified == Spec => []SentCallsVerified
<1>1. IInv => SentCallsVerified
  BY DEF IInv
<1> QED BY <1>1, Inductive, PTL

\* After a note no frame tells the client to run tools, unless the upstream sent
\* it inside a later call (anthropic.go:181-184).
THEOREM StopReasonFollowsNote == Spec => []NoToolUseAfterNote
<1>1. IInv => NoToolUseAfterNote
  BY DEF IInv
<1> QED BY <1>1, Inductive, PTL

\* No call is dropped that was clean (anthropic.go:104-132).
THEOREM OnlyUncleanDropped == Spec => []NoCleanCallDropped
<1>1. IInv => NoCleanCallDropped
  BY DEF IInv, CallInv, Settled, NoCleanCallDropped
<1> QED BY <1>1, Inductive, PTL

\* The blocks of an orderly stream reach the client numbered in their order, each
\* opened after the one before was closed, whichever of them were replaced
\* (anthropic.go:236-259).
THEOREM BlocksStayContiguous == Spec => []NoteKeepsContiguity
<1>1. IInv => NoteKeepsContiguity
  BY DEF IInv
<1> QED BY <1>1, Inductive, PTL

-----------------------------------------------------------------------------
(* What the code promises of a call *)

CallClean == Clean(bufName, bufInspect, oversized)

Fate(x) == {i \in DOMAIN ledger : ledger[i].fate = x}
Unclean == {i \in DOMAIN ledger : ~ledger[i].clean}
            \cup {i \in Current : ~CallClean}

\* No call is resolved; the one held, if any, stays held.
SameCalls ==
  ledger' = ledger /\ (buffering => buffering' /\ (CallClean' => CallClean))

\* The call that was held is resolved.
CallResolved ==
  \E ok \in BOOLEAN :
    Entered(ok) /\ buffering /\ ~buffering' /\ (ok => CallClean)

LEMMA LedgerIs ==
  ASSUME TypeOK
  PROVE  /\ Len(ledger) \in Nat /\ DOMAIN ledger = 1..Len(ledger)
         /\ \A i \in 1..Len(ledger) : ledger[i].fate \in {"sent", "dropped"}
<1>1. ledger \in Seq(Entry)
  BY DEF TypeOK, Entry
<1>2. \A e \in Entry : e.fate \in {"sent", "dropped"}
  BY DEF Entry
<1> QED BY <1>1, <1>2

LEMMA SameCallsKept ==
  ASSUME CallInv, SameCalls
  PROVE  Guard!Settle /\ Guard!Taint
<1> PICK n : n = Len(ledger)
  OBVIOUS
<1>1. /\ n \in Nat /\ DOMAIN ledger = 1..n
      /\ \A i \in 1..n : ledger[i].fate \in {"sent", "dropped"}
  BY LedgerIs DEF CallInv
<1>2. Fate("sent")' = Fate("sent") /\ Fate("dropped")' = Fate("dropped")
  BY DEF SameCalls, Fate
<1>3. /\ Current = IF buffering THEN {n + 1} ELSE {}
      /\ Current' = IF buffering' THEN {n + 1} ELSE {}
  BY DEF Current, SameCalls
<1>4. /\ Fate("sent") \cup Fate("dropped") = 1..n
      /\ Fate("sent") \cap Fate("dropped") = {}
      /\ Fate("sent") \subseteq Nat /\ Fate("dropped") \subseteq Nat
      /\ n + 1 \notin 1..n /\ n + 1 \in Nat
  BY <1>1 DEF Fate
<1>5. /\ Unclean \subseteq Unclean' /\ Unclean' \subseteq 1..n \cup Current'
      /\ Unclean' \ Unclean \subseteq {n + 1}
  <2>1. {i \in DOMAIN ledger : ~ledger[i].clean}' = {i \in DOMAIN ledger : ~ledger[i].clean}
    BY DEF SameCalls
  <2>2. {i \in Current : ~CallClean} \subseteq {i \in Current : ~CallClean}'
    BY <1>3 DEF SameCalls
  <2>3. {i \in Current : ~CallClean}' \subseteq Current'
    OBVIOUS
  <2> QED BY <1>1, <1>3, <2>1, <2>2, <2>3 DEF Unclean
<1>6. Current \subseteq Current'
  BY <1>3 DEF SameCalls
<1>7. Guard!Settle
  BY <1>2, <1>3, <1>4, <1>6 DEF Guard!Settle, Guard!Disjoint, Guard!Known, Fate
<1>8. Guard!Taint
  BY <1>2, <1>4, <1>5 DEF Guard!Taint, Guard!Known, Fate, Unclean, CallClean
<1> QED BY <1>7, <1>8

LEMMA ResolvedCallKept ==
  ASSUME CallInv, CallInv', CallResolved
  PROVE  Guard!Settle /\ Guard!Taint
<1> PICK n : n = Len(ledger)
  OBVIOUS
<1>0. PICK ok \in BOOLEAN : Entered(ok) /\ buffering /\ ~buffering' /\ (ok => CallClean)
  BY DEF CallResolved
<1>1. /\ n \in Nat /\ DOMAIN ledger = 1..n /\ DOMAIN ledger' = 1..(n + 1)
      /\ \A i \in 1..n : ledger[i].fate \in {"sent", "dropped"} /\ ledger'[i] = ledger[i]
      /\ ledger'[n + 1].clean = ok
      /\ ledger'[n + 1].fate = IF ok THEN "sent" ELSE "dropped"
  <2>1. /\ n \in Nat /\ DOMAIN ledger = 1..n
        /\ \A i \in 1..n : ledger[i].fate \in {"sent", "dropped"}
    BY LedgerIs DEF CallInv
  <2>2. /\ Len(ledger') = n + 1 /\ ledger' \in Seq(Entry)
        /\ \A i \in 1..n : ledger'[i] = ledger[i]
        /\ ledger'[n + 1] = [clean |-> ok, fate |-> IF ok THEN "sent" ELSE "dropped"]
    BY <1>0 DEF Entered
  <2>3. DOMAIN ledger' = 1..(n + 1)
    BY <2>2
  <2> QED BY <2>1, <2>2, <2>3
<1>2. /\ Fate("sent")' = Fate("sent") \cup {i \in {n + 1} : ok}
      /\ Fate("dropped")' = Fate("dropped") \cup {i \in {n + 1} : ~ok}
  BY <1>1 DEF Fate
<1>3. Current = {n + 1} /\ Current' = {}
  BY <1>0 DEF Current
<1>4. /\ Fate("sent") \cup Fate("dropped") = 1..n
      /\ Fate("sent") \cap Fate("dropped") = {}
      /\ Fate("sent") \subseteq Nat /\ Fate("dropped") \subseteq Nat
      /\ n + 1 \notin 1..n /\ n + 1 \in Nat
  BY <1>1 DEF Fate
<1>5. /\ Unclean \subseteq Unclean' /\ Unclean' \subseteq 1..(n + 1)
      /\ Unclean' \ Unclean \subseteq {n + 1} /\ (ok => n + 1 \notin Unclean')
  <2>1. {i \in DOMAIN ledger : ~ledger[i].clean}'
          = {i \in DOMAIN ledger : ~ledger[i].clean} \cup {i \in {n + 1} : ~ok}
    BY <1>1
  <2>2. {i \in Current : ~CallClean} \subseteq {i \in {n + 1} : ~ok}
    BY <1>0, <1>3
  <2>3. {i \in Current : ~CallClean}' = {}
    BY <1>3
  <2> QED BY <1>1, <2>1, <2>2, <2>3 DEF Unclean
<1>6. Guard!Settle
  BY <1>2, <1>3, <1>4 DEF Guard!Settle, Guard!Disjoint, Guard!Known, Fate
<1>7. Guard!Taint
  <2>1. (Unclean' \ Unclean) \cap (Fate("sent") \cup Fate("dropped")) = {}
    BY <1>4, <1>5
  <2>2. (Fate("sent")' \ Fate("sent")) \cap Unclean' = {}
    BY <1>2, <1>5
  <2>3. Unclean' \subseteq Current' \cup Fate("sent")' \cup Fate("dropped")'
    BY <1>1, <1>2, <1>4, <1>5
  <2> QED BY <1>5, <2>1, <2>2, <2>3
          DEF Guard!Taint, Guard!Known, Fate, Unclean, CallClean
<1> QED BY <1>6, <1>7

\* What is found against the call that is held stays found.
LEMMA FoundStays ==
  ASSUME NEW insp, NEW over, oversized => over,
         Signature(bufInspect) => Signature(insp), Clean(bufName, insp, over)
  PROVE  CallClean
BY Zenon DEF CallClean, Clean

LEMMA NeverCleaner ==
  ASSUME TypeOK, NEW f \in Frame, NEW n \in Sizes, NEW d \in DeltaSizes(f),
         NEW h, h = Held(f, n, d), Clean(bufName, h.insp, h.over)
  PROVE  CallClean
<1>1. (oversized => h.over) /\ (Signature(bufInspect) => Signature(h.insp))
  BY HeldIs
<1> QED BY <1>1, FoundStays

\* A step resolves at most the call that is held; a client that is gone stays gone,
\* and the verdict is never taken back.
StepOfCalls ==
  /\ SameCalls \/ CallResolved
  /\ failed => failed'
  /\ IF phase' = "done" THEN blocked' = (blocked \/ droppedTool') /\ ~buffering'
     ELSE blocked => blocked'

LEMMA AddsFails ==
  ASSUME NEW frames, NEW k \in Nat, Adds(frames, k)
  PROVE  failed => failed'
BY DEF Adds

LEMMA ForwardOfCalls ==
  ASSUME CallInv, NEW f, NEW g, Forwards(f, g)
  PROVE  StepOfCalls
<1>1. failed => failed'
  BY ForwardAdds, AddsFails DEF CallInv
<1>2. phase' # "done"
  BY DEF Forwards, Proceed
<1>3. UNCHANGED <<declaredTools, blocked, ledger, buffering, bufName, bufInspect, oversized>>
  BY DEF Forwards, callVars
<1>4. CallClean' = CallClean
  BY <1>3, Zenon DEF CallClean, Clean, Signature
<1> QED BY <1>1, <1>2, <1>3, <1>4 DEF StepOfCalls, SameCalls

LEMMA HoldOfCalls ==
  ASSUME CallInv, NEW f \in Frame, NEW n \in Sizes, NEW d \in DeltaSizes(f),
         HoldFrame(f, n, d)
  PROVE  StepOfCalls
<1> PICK h : h = Held(f, n, d)
  OBVIOUS
<1>1. /\ UNCHANGED <<declaredTools, blocked, failed, ledger, buffering, bufName, phase>>
      /\ bufInspect' = h.insp /\ oversized' = h.over /\ phase = "reading"
  BY DEF HoldFrame, stateVars, Accumulate, Receive
<1>2. CallClean' => Clean(bufName, h.insp, h.over)
  BY <1>1 DEF CallClean, Clean, Signature
<1>3. CallClean' => CallClean
  BY <1>2, NeverCleaner DEF CallInv
<1> QED BY <1>1, <1>3 DEF StepOfCalls, SameCalls

LEMMA ResolveOfCalls ==
  ASSUME CallInv, NEW f \in Frame, NEW n \in Sizes, ResolveHeld(f, n)
  PROVE  StepOfCalls
<1> PICK h : h = Held(f, n, 0)
  OBVIOUS
<1>1. 0 \in DeltaSizes(f)
  BY DEF DeltaSizes, ResolveHeld, ClosesHeld
<1>2. h.raw \in Seq(Frame)
  BY <1>1, HeldIs DEF CallInv
<1>3. FinalizeTool(h.raw, h.insp, h.over) /\ buffering /\ blocked' = blocked
  BY DEF ResolveHeld
<1>4. PICK ok \in BOOLEAN : ok = Clean(bufName, h.insp, h.over) /\ Resolves(h.raw, ok)
  BY <1>2, <1>3, Finalized DEF CallInv, Settled
<1>5. ok => CallClean
  BY <1>1, <1>4, NeverCleaner DEF CallInv
<1>6. failed => failed'
  BY <1>4, AddsFails DEF Resolves
<1>7. phase' # "done"
  BY DEF ResolveHeld, Proceed
<1> QED BY <1>3, <1>4, <1>5, <1>6, <1>7 DEF StepOfCalls, CallResolved, Resolves

LEMMA CloseOfCalls ==
  ASSUME CallInv, Close
  PROVE  StepOfCalls
<1>1. phase' = "done" /\ blocked' = (blocked \/ droppedTool')
  BY DEF Close
<1>2. CASE buffering
  <2>1. bufRaw \in Seq(Frame) /\ FinalizeTool(bufRaw, bufInspect, oversized)
    BY <1>2 DEF Close, CallInv, TypeOK
  <2>2. PICK ok \in BOOLEAN : ok = CallClean /\ Resolves(bufRaw, ok)
    BY <1>2, <2>1, Finalized DEF CallInv, Settled, CallClean
  <2>3. failed => failed'
    BY <2>2, AddsFails DEF Resolves
  <2> QED BY <1>1, <1>2, <2>2, <2>3 DEF StepOfCalls, CallResolved, Resolves
<1>3. CASE ~buffering
  BY <1>1, <1>3 DEF Close, StepOfCalls, SameCalls
<1> QED BY <1>2, <1>3

LEMMA OversizedOfCalls ==
  ASSUME CallInv, OnOversized
  PROVE  StepOfCalls
<1>1. failed => failed'
  BY OversizedKeepsTypes, AddsFails DEF CallInv
<1>2. phase' = "closing" /\ blocked' = TRUE /\ buffering' = FALSE
  BY DEF OnOversized, LetGo
<1>3. CASE buffering
  <2>1. Entered(FALSE)
    BY <1>3, AppendEnters DEF OnOversized, CallInv, TypeOK, Entry
  <2> QED BY <1>1, <1>2, <1>3, <2>1 DEF StepOfCalls, CallResolved
<1>4. CASE ~buffering
  BY <1>1, <1>2, <1>4 DEF OnOversized, StepOfCalls, SameCalls
<1> QED BY <1>3, <1>4

LEMMA NextOfCalls ==
  ASSUME CallInv, Next
  PROVE  StepOfCalls /\ phase # "done"
<1>1. CASE OnEvent
  <2>1. PICK f \in Arriving :
          \/ PassUnparsed(f) \/ ForwardText(f) \/ ForwardMessageDelta(f)
          \/ ForwardError(f) \/ ForwardOther(f)
          \/ \E n \in Sizes : \/ \E d \in DeltaSizes(f) : HoldFrame(f, n, d)
                              \/ ResolveHeld(f, n)
                              \/ StartTool(f, n)
    BY <1>1 DEF OnEvent
  <2>2. f \in Frame /\ phase = "reading"
    BY DEF Arriving
  <2>3. CASE \/ PassUnparsed(f) \/ ForwardText(f) \/ ForwardMessageDelta(f)
             \/ ForwardError(f) \/ ForwardOther(f)
    <3>1. PICK g \in Frame : Forwards(f, g)
      BY <2>2, <2>3, WhatForwards DEF CallInv
    <3> QED BY <2>2, <3>1, ForwardOfCalls
  <2>4. ASSUME NEW n \in Sizes, NEW d \in DeltaSizes(f), HoldFrame(f, n, d)
        PROVE  StepOfCalls
    BY <2>2, <2>4, HoldOfCalls
  <2>5. ASSUME NEW n \in Sizes, ResolveHeld(f, n) PROVE StepOfCalls
    BY <2>2, <2>5, ResolveOfCalls
  <2>6. ASSUME NEW n \in Sizes, StartTool(f, n) PROVE StepOfCalls
    BY <2>2, <2>6 DEF StartTool, StepOfCalls, SameCalls
  <2> QED BY <2>1, <2>2, <2>3, <2>4, <2>5, <2>6
<1>2. CASE OnOversized
  BY <1>2, OversizedOfCalls DEF OnOversized
<1>3. CASE UpstreamEnds
  BY <1>3 DEF UpstreamEnds, stateVars, callVars, StepOfCalls, SameCalls, CallClean,
              Clean, Signature
<1>4. CASE Close
  BY <1>4, CloseOfCalls DEF Close
<1> QED BY <1>1, <1>2, <1>3, <1>4 DEF Next

LEMMA GuardInit ==
  ASSUME Init
  PROVE  Guard!Init
<1>1. /\ ledger = <<>> /\ failed = FALSE /\ blocked = FALSE /\ phase = "reading"
      /\ buffering = FALSE
  BY DEF Init, StateInit
<1>2. DOMAIN ledger = {} /\ Current = {}
  BY <1>1 DEF Current
<1> QED BY <1>1, <1>2 DEF Guard!Init

LEMMA GuardNext ==
  ASSUME CallInv, CallInv', Next
  PROVE  Guard!Next
<1>1. StepOfCalls /\ phase # "done"
  BY NextOfCalls
<1>2. Guard!Settle /\ Guard!Taint
  BY <1>1, SameCallsKept, ResolvedCallKept DEF StepOfCalls
<1>3. failed' \in {failed, TRUE}
  BY <1>1 DEF StepOfCalls, CallInv, TypeOK
<1>4. blocked \in BOOLEAN /\ blocked' \in BOOLEAN
  BY DEF CallInv, TypeOK
<1>5. CASE phase' = "done"
  <2>1. Current' = {} /\ (droppedTool' => blocked')
    BY <1>1, <1>5 DEF StepOfCalls, Current
  <2>2. Fate("dropped")' # {} => blocked'
    BY <2>1 DEF CallInv, Settled, Fate
  <2>3. Guard!End
    BY <1>2, <1>3, <1>4, <1>5, <2>1, <2>2 DEF Guard!End, Fate
  <2> QED BY <1>1, <2>3 DEF Guard!Next
<1>6. CASE phase' # "done"
  <2>1. blocked' \in {blocked, TRUE}
    BY <1>1, <1>4, <1>6 DEF StepOfCalls
  <2>2. Guard!Read
    BY <1>2, <1>3, <1>6, <2>1 DEF Guard!Read
  <2> QED BY <1>1, <2>2 DEF Guard!Next
<1> QED BY <1>5, <1>6

\* The handler does what block mode promises: a call is withheld until it is settled,
\* is released only if it is clean, is settled once, and is never left held or
\* unreported at the end (streamAnthropicBlock, anthropic.go:85-223).
THEOREM ImplementsGuard == Spec => GuardSpec
<1>1. Init => Guard!Init
  BY GuardInit
<1>2. IInv /\ IInv' /\ [Next]_vars => [Guard!Next]_Guard!guardVars
  <2>1. ASSUME IInv, IInv', Next PROVE Guard!Next
    BY <2>1, GuardNext DEF IInv
  <2>2. ASSUME UNCHANGED vars PROVE UNCHANGED Guard!guardVars
    <3>1. UNCHANGED <<declaredTools, failed, blocked, ledger, phase, buffering,
                      bufName, bufInspect, oversized>>
      BY <2>2 DEF vars, stateVars, callVars
    <3> QED BY <3>1 DEF Guard!guardVars, Current, Clean, Signature
  <2> QED BY <2>1, <2>2
<1> QED BY <1>1, <1>2, Inductive, PTL DEF Spec, GuardSpec, Guard!Spec

=============================================================================
