-------------------------- MODULE MonitorStreamProofs --------------------------
(***************************************************************************)
(* Proofs about MonitorStream, for streams of any length, any number of    *)
(* calls and any tool names: what the client was sent is inspected         *)
(* (EverythingInspected), and every call it was sent was compared with the *)
(* declared tools (EveryCallChecked).                                      *)
(*                                                                         *)
(* Both speak of the end of the stream.  The invariant (IInv) says where   *)
(* the content of a forwarded frame is until then: inspected, in the       *)
(* inspector of the text, or in that of its call, which nothing has closed *)
(* since (Kept).  For that the handler's table of open calls has to agree  *)
(* with what the client sees as open (InStep), and the handler may pass    *)
(* over the arguments in a closing frame only when the client has seen a   *)
(* delta of that very call (DeltasSeen).                                   *)
(***************************************************************************)
EXTENDS MonitorStream, SequenceTheorems, TLAPS

Label == Key \cup {"none"}
Piece == Nat \X Label
Content == SUBSET Piece
Kind ==
  {"start", "delta", "args", "stop", "listed", "listed_without_id", "chunk",
   "text", "error", "oversized", "ignored"}
AnyFrame == [kind : Kind, key : Label, name : Name, pieces : Content]
OpenCall == [pieces : Content, gotDelta : BOOLEAN]

-----------------------------------------------------------------------------
(* What a stream of frames shows, said of any sequence of frames *)

QuietIn(o, from, to, k) == \A m \in from..to : ~Closes(o[m], k)
OpenIn(o, n, k) ==
  \E s \in 1..(n - 1) : Opens(o[s], k) /\ QuietIn(o, s + 1, n - 1, k)
ReopenedIn(o, n, k) ==
  \E r \in (n + 1)..Len(o) : Opens(o[r], k) /\ QuietIn(o, n + 1, r - 1, k)
StreamedIn(o, n, k) ==
  \E d \in 1..(n - 1) :
    /\ o[d].kind = "delta" /\ o[d].key = k /\ OpenIn(o, d, k)
    /\ \A m \in (d + 1)..(n - 1) : ~Opens(o[m], k) /\ ~Closes(o[m], k)
OwedIn(o, n) ==
  LET f == o[n]
      k == f.key
      kept == OpenIn(o, n, k) /\ ~ReopenedIn(o, n, k)
  IN CASE f.kind \in {"oversized", "ignored"} -> {}
       [] f.kind = "delta"  -> IF kept THEN f.pieces ELSE {}
       [] f.kind = "args"   -> IF kept /\ ~StreamedIn(o, n, k) THEN f.pieces ELSE {}
       [] f.kind = "stop"   -> IF StreamedIn(o, n, k) THEN {} ELSE f.pieces
       [] f.kind = "start"  -> IF ReopenedIn(o, n, k) THEN {} ELSE f.pieces
       [] f.kind = "listed" -> IF OpenIn(o, n, k) THEN {} ELSE f.pieces
       [] OTHER -> f.pieces

-----------------------------------------------------------------------------
(* The invariant *)

ToolsTyped(t) == DOMAIN t \subseteq Key /\ \A k \in DOMAIN t : t[k] \in OpenCall

Types ==
  /\ out \in Seq(AnyFrame) /\ failed \in BOOLEAN
  /\ phase \in {"reading", "closing", "done"}
  /\ ToolsTyped(tools)

\* While frames are read none was lost.
Live == phase = "reading" => ~failed

\* What the handler takes for streamed, the client has seen a delta of.
DeltasSeen ==
  phase = "reading" =>
    \A k \in DOMAIN tools : tools[k].gotDelta => StreamedIn(out, Len(out) + 1, k)

\* The calls with an inspector are those the client sees open.
InStep ==
  phase = "reading" /\ protocol # "openai" =>
    \A k \in Key : k \in DOMAIN tools <=> OpenIn(out, Len(out) + 1, k)

ChunksOfOpenAI == \A n \in DOMAIN out : out[n].kind = "chunk" => protocol = "openai"

\* A piece of frame n waits in the inspector of its call, which is still open.
Held(o, t, n, p) ==
  /\ o[n].kind \in {"start", "delta", "args", "chunk"}
  /\ o[n].key \in DOMAIN t /\ p \in t[o[n].key].pieces
  /\ QuietIn(o, n + 1, Len(o), o[n].key)

Kept ==
  phase # "done" =>
    \A n \in DOMAIN out : \A p \in OwedIn(out, n) :
      p \in inspected \cup text \/ Held(out, tools, n, p)

AllInspected ==
  phase = "done" => \A n \in DOMAIN out : OwedIn(out, n) \subseteq inspected

OversizedTold ==
  \A n \in DOMAIN out : out[n].kind = "oversized" => "oversized-sse" \in findings

\* The call of frame n was compared with the declared tools, or an earlier frame
\* of it was.
CheckedIn(o, fs, n) ==
  \/ o[n].name = NoName /\ o[n].kind # "chunk"
  \/ o[n].kind \in {"stop", "listed"} /\ OpenIn(o, n, o[n].key)
  \/ CheckToolCall(o[n].name) \subseteq fs

AllChecked   == \A n \in DOMAIN out : CheckedIn(out, findings, n)
NamesChecked == \A k \in DOMAIN toolName : CheckToolCall(toolName[k]) \subseteq findings
BegunChecked ==
  protocol = "openai" /\ DOMAIN tools # {} => CheckToolCall(NoName) \subseteq findings

IInv ==
  /\ Types /\ Live /\ DeltasSeen /\ InStep /\ ChunksOfOpenAI
  /\ Kept /\ AllInspected /\ OversizedTold
  /\ AllChecked /\ NamesChecked /\ BegunChecked
-----------------------------------------------------------------------------
(* Frames and inspectors *)

LEMMA WriteIs ==
  ASSUME NEW i \in OpenCall, NEW c \in Content
  PROVE  /\ Write(i, c) \in OpenCall
         /\ Write(i, c).pieces = i.pieces \cup c
         /\ Write(i, c).gotDelta = i.gotDelta
BY DEF Write, OpenCall, Content

LEMMA DeltaIs ==
  ASSUME NEW i \in OpenCall
  PROVE  /\ [i EXCEPT !.gotDelta = TRUE] \in OpenCall
         /\ [i EXCEPT !.gotDelta = TRUE].pieces = i.pieces
         /\ [i EXCEPT !.gotDelta = TRUE].gotDelta = TRUE
BY DEF OpenCall

LEMMA InspectorIs ==
  Inspector \in OpenCall /\ Inspector.pieces = {} /\ Inspector.gotDelta = FALSE
BY DEF Inspector, OpenCall, Content

\* What the upstream may send, by the kind of the frame.
FrameFacts(f) ==
  /\ f \in AnyFrame
  /\ f.kind \in {"start", "delta", "args", "stop", "listed", "chunk"} => f.key \in Key
  /\ f.kind \in {"start", "delta", "args", "stop", "listed", "listed_without_id"} =>
       protocol # "openai"
  /\ f.kind = "chunk" => protocol = "openai"
  /\ f.kind \in {"text", "error", "oversized", "ignored", "delta", "args"} => f.name = NoName
  /\ f.kind = "stop" /\ protocol = "anthropic" => f.name = NoName /\ f.pieces = {}

LEMMA FrameIs ==
  ASSUME NEW k, NEW kind, NEW n, NEW p
  PROVE  /\ Frame(kind, k, n, p).kind = kind /\ Frame(kind, k, n, p).key = k
         /\ Frame(kind, k, n, p).name = n /\ Frame(kind, k, n, p).pieces = p
         /\ kind \in Kind /\ k \in Label /\ n \in Name /\ p \in Content =>
              Frame(kind, k, n, p) \in AnyFrame
BY DEF Frame, AnyFrame

LEMMA PiecesAre ==
  ASSUME Types, NEW k \in Label
  PROVE  New(k) \in Content
<1>1. Len(out) + 1 \in Nat
  BY DEF Types
<1> QED BY <1>1 DEF New, Content, Piece

LEMMA FramesAre ==
  ASSUME Types, NEW f \in FrameOf
  PROVE  FrameFacts(f)
<1> DEFINE PlainFrame == {Plain(kind) : kind \in {"text", "error", "oversized", "ignored"}}
<1> USE DEF Kind, Label, Name
<1>0. {} \in Content /\ NoName \in Name /\ "none" \in Label
  BY DEF Content
<1>1. CASE f \in PlainFrame
  <2>1. New("none") \in Content
    BY <1>0, PiecesAre
  <2>2. ASSUME NEW kind \in {"text", "error", "oversized", "ignored"}, f = Plain(kind) PROVE FrameFacts(f)
    <3>1. f = Frame(kind, "none", NoName, New("none"))
      BY <2>2 DEF Plain
    <3> QED BY <1>0, <2>1, <2>2, <3>1, FrameIs DEF FrameFacts
  <2> QED BY <1>1, <2>2
<1>2. CASE protocol = "anthropic" /\ f \notin PlainFrame
  <2>1. \/ \E k \in Key, n \in ToolName : f = Frame("start", k, n, {})
        \/ \E k \in Key : f = Frame("delta", k, NoName, New(k))
        \/ \E k \in Key : f = Frame("stop", k, NoName, {})
    BY <1>2 DEF FrameOf
  <2>2. ASSUME NEW k \in Key, NEW n \in ToolName, f = Frame("start", k, n, {}) PROVE FrameFacts(f)
    BY <1>0, <1>2, <2>2, FrameIs DEF FrameFacts
  <2>3. ASSUME NEW k \in Key, f = Frame("delta", k, NoName, New(k)) PROVE FrameFacts(f)
    BY <1>0, <1>2, <2>3, FrameIs, PiecesAre DEF FrameFacts
  <2>4. ASSUME NEW k \in Key, f = Frame("stop", k, NoName, {}) PROVE FrameFacts(f)
    BY <1>0, <1>2, <2>4, FrameIs DEF FrameFacts
  <2> QED BY <2>1, <2>2, <2>3, <2>4
<1>3. CASE protocol = "openai" /\ f \notin PlainFrame
  <2>1. PICK k \in Key, n \in Name : f = Frame("chunk", k, n, New(k))
    BY <1>3 DEF FrameOf
  <2> QED BY <1>0, <1>3, <2>1, FrameIs, PiecesAre DEF FrameFacts
<1>4. CASE protocol = "responses" /\ f \notin PlainFrame
  <2>1. \/ \E k \in Key, n \in ToolName : f = Frame("start", k, n, {}) \/ f = Frame("start", k, n, New(k))
        \/ \E k \in Key : f = Frame("delta", k, NoName, New(k))
        \/ \E k \in Key : f = Frame("args", k, NoName, New(k))
        \/ \E k \in Key, n \in ToolName : f = Frame("stop", k, n, New(k))
        \/ \E k \in Key, n \in ToolName : f = Frame("listed", k, n, New(k))
        \/ \E k \in Key, n \in ToolName : f = Frame("listed_without_id", k, n, New(k))
    BY <1>4 DEF FrameOf
  <2>2. ASSUME NEW k \in Key, NEW n \in ToolName,
               f = Frame("start", k, n, {}) \/ f = Frame("start", k, n, New(k))
        PROVE  FrameFacts(f)
    BY <1>0, <1>4, <2>2, FrameIs, PiecesAre DEF FrameFacts
  <2>3. ASSUME NEW k \in Key, f = Frame("delta", k, NoName, New(k)) PROVE FrameFacts(f)
    BY <1>0, <1>4, <2>3, FrameIs, PiecesAre DEF FrameFacts
  <2>4. ASSUME NEW k \in Key, f = Frame("args", k, NoName, New(k)) PROVE FrameFacts(f)
    BY <1>0, <1>4, <2>4, FrameIs, PiecesAre DEF FrameFacts
  <2>5. ASSUME NEW k \in Key, NEW n \in ToolName, NEW kind \in {"stop", "listed", "listed_without_id"},
               f = Frame(kind, k, n, New(k))
        PROVE  FrameFacts(f)
    BY <1>0, <1>4, <2>5, FrameIs, PiecesAre DEF FrameFacts
  <2> QED BY <2>1, <2>2, <2>3, <2>4, <2>5
<1>5. CASE /\ protocol \notin {"anthropic", "openai", "responses"}
           /\ f \notin PlainFrame
  BY <1>5 DEF FrameOf
<1> QED BY <1>1, <1>2, <1>3, <1>4, <1>5
-----------------------------------------------------------------------------
(* A stream and the same stream with one frame more *)

Adds(o, q, f) ==
  /\ o \in Seq(AnyFrame) /\ q \in Seq(AnyFrame) /\ f \in AnyFrame
  /\ Len(q) = Len(o) + 1
  /\ \A i \in 1..Len(o) : q[i] = o[i]
  /\ q[Len(o) + 1] = f

LEMMA EmitAdds ==
  ASSUME Types, NEW f \in AnyFrame, Emit(<<f>>), ~failed
  PROVE  (failed' /\ out' = out) \/ (~failed' /\ Adds(out, out', f))
<1>1. PICK g : g = <<f>>
  OBVIOUS
<1>2. g \in Seq(AnyFrame) /\ Len(g) = 1 /\ g[1] = f
  BY <1>1
<1>3. PICK k \in 0..Len(g) : out' = out \o SubSeq(g, 1, k) /\ failed' = (failed \/ k < Len(g))
  BY <1>1 DEF Emit
<1>4. PICK s : s = SubSeq(g, 1, k)
  OBVIOUS
<1>5. k \in 0..1 /\ s \in Seq(AnyFrame) /\ Len(s) = k /\ \A j \in 1..k : s[j] = g[j]
  BY <1>2, <1>3, <1>4
<1>6. out \in Seq(AnyFrame) /\ out' = out \o s
  BY <1>3, <1>4 DEF Types
<1>7. CASE k = 0
  <2>1. k < Len(g)
    BY <1>2, <1>7
  <2>2. failed'
    BY <1>3, <2>1, Zenon
  <2>3. s = <<>>
    BY <1>5, <1>7
  <2>4. out' = out
    BY <1>6, <2>3
  <2> QED BY <2>2, <2>4
<1>8. CASE k = 1
  <2>1. ~(k < Len(g))
    BY <1>2, <1>8
  <2>2. ~failed'
    BY <1>3, <2>1, Zenon
  <2>3. s[1] = f
    BY <1>2, <1>5, <1>8
  <2>4. out' \in Seq(AnyFrame) /\ Len(out') = Len(out) + 1
    <3>1. out \o s \in Seq(AnyFrame) /\ Len(out \o s) = Len(out) + Len(s)
      BY <1>5, <1>6, ConcatProperties
    <3> QED BY <1>5, <1>6, <1>8, <3>1
  <2>5. \A i \in 1..Len(out) : out'[i] = out[i]
    <3>1. \A i \in 1..Len(out) : (out \o s)[i] = out[i]
      BY <1>5, <1>6
    <3> QED BY <1>6, <3>1
  <2>6. out'[Len(out) + 1] = s[1]
    <3>1. \A j \in 1..Len(s) : (out \o s)[Len(out) + j] = s[j]
      BY <1>5, <1>6
    <3>2. Len(s) = 1 /\ 1 \in 1..Len(s)
      BY <1>5, <1>8
    <3>3. (\A j \in 1..Len(s) : out'[Len(out) + j] = s[j])
      BY <1>6, <3>1
    <3> QED BY <3>2, <3>3
  <2> QED BY <1>6, <2>2, <2>3, <2>4, <2>5, <2>6 DEF Adds
<1> QED BY <1>5, <1>7, <1>8

LEMMA OpenBefore ==
  ASSUME NEW o, NEW q, NEW f, Adds(o, q, f), NEW n \in 1..(Len(o) + 1), NEW k
  PROVE  OpenIn(q, n, k) <=> OpenIn(o, n, k)
<1>1. Len(o) \in Nat /\ \A i \in 1..(n - 1) : q[i] = o[i]
  BY DEF Adds
<1> QED BY <1>1 DEF OpenIn, QuietIn

LEMMA OpenAfter ==
  ASSUME NEW o, NEW q, NEW f, Adds(o, q, f), NEW k
  PROVE  OpenIn(q, Len(q) + 1, k) <=>
           Opens(f, k) \/ (OpenIn(o, Len(o) + 1, k) /\ ~Closes(f, k))
<1>1. PICK l \in Nat : l = Len(o)
  BY DEF Adds
<1>2. Len(q) = l + 1 /\ q[l + 1] = f /\ \A i \in 1..l : q[i] = o[i]
  BY <1>1 DEF Adds
<1>3. ~(Opens(f, k) /\ Closes(f, k))
  BY DEF Opens, Closes
<1>4. ASSUME Opens(f, k) PROVE OpenIn(q, l + 2, k)
  BY <1>2, <1>4 DEF OpenIn, QuietIn
<1>5. ASSUME OpenIn(o, l + 1, k), ~Closes(f, k) PROVE OpenIn(q, l + 2, k)
  <2>1. PICK s \in 1..l : Opens(o[s], k) /\ QuietIn(o, s + 1, l, k)
    BY <1>5 DEF OpenIn
  <2>2. \A m \in (s + 1)..(l + 1) : ~Closes(q[m], k)
    BY <1>2, <1>5, <2>1 DEF QuietIn
  <2> QED BY <1>2, <2>1, <2>2 DEF OpenIn, QuietIn
<1>6. ASSUME OpenIn(q, l + 2, k), ~Opens(f, k) PROVE OpenIn(o, l + 1, k) /\ ~Closes(f, k)
  <2>1. PICK s \in 1..(l + 1) : Opens(q[s], k) /\ QuietIn(q, s + 1, l + 1, k)
    BY <1>6 DEF OpenIn
  <2>2. s \in 1..l
    BY <1>2, <1>6, <2>1
  <2>3. ~Closes(f, k) /\ \A m \in (s + 1)..l : ~Closes(o[m], k)
    BY <1>2, <2>1, <2>2 DEF QuietIn
  <2>4. Opens(o[s], k)
    BY <1>2, <2>1, <2>2
  <2> QED BY <2>2, <2>3, <2>4 DEF OpenIn, QuietIn
<1>7. Len(q) + 1 = l + 2 /\ Len(o) + 1 = l + 1
  BY <1>1, <1>2
<1> QED BY <1>3, <1>4, <1>5, <1>6, <1>7

\* Frame n is reopened by the new frame, or was before.
LEMMA ReopenedAfter ==
  ASSUME NEW o, NEW q, NEW f, Adds(o, q, f), NEW n \in 1..Len(o), NEW k
  PROVE  /\ ReopenedIn(o, n, k) => ReopenedIn(q, n, k)
         /\ Opens(f, k) /\ QuietIn(o, n + 1, Len(o), k) => ReopenedIn(q, n, k)
<1>1. PICK l \in Nat : l = Len(o)
  BY DEF Adds
<1>2. Len(q) = l + 1 /\ q[l + 1] = f /\ \A i \in 1..l : q[i] = o[i]
  BY <1>1 DEF Adds
<1>3. ASSUME ReopenedIn(o, n, k) PROVE ReopenedIn(q, n, k)
  <2>1. PICK r \in (n + 1)..l : Opens(o[r], k) /\ QuietIn(o, n + 1, r - 1, k)
    BY <1>1, <1>3 DEF ReopenedIn
  <2>2. r \in (n + 1)..(l + 1) /\ Opens(q[r], k) /\ \A m \in (n + 1)..(r - 1) : q[m] = o[m]
    BY <1>1, <1>2, <2>1
  <2> QED BY <1>2, <2>1, <2>2 DEF ReopenedIn, QuietIn
<1>4. ASSUME Opens(f, k), QuietIn(o, n + 1, l, k) PROVE ReopenedIn(q, n, k)
  <2>1. l + 1 \in (n + 1)..(l + 1) /\ Opens(q[l + 1], k)
    BY <1>1, <1>2, <1>4
  <2>2. \A m \in (n + 1)..l : ~Closes(q[m], k)
    BY <1>1, <1>2, <1>4 DEF QuietIn
  <2> QED BY <1>2, <2>1, <2>2 DEF ReopenedIn, QuietIn
<1> QED BY <1>1, <1>3, <1>4

LEMMA StreamedBefore ==
  ASSUME NEW o, NEW q, NEW f, Adds(o, q, f), NEW n \in 1..(Len(o) + 1), NEW k
  PROVE  StreamedIn(q, n, k) <=> StreamedIn(o, n, k)
<1>1. Len(o) \in Nat /\ \A i \in 1..(n - 1) : q[i] = o[i] /\ i \in 1..(Len(o) + 1)
  BY DEF Adds
<1>2. \A i \in 1..(n - 1) : OpenIn(q, i, k) <=> OpenIn(o, i, k)
  BY <1>1, OpenBefore
<1> QED BY <1>1, <1>2 DEF StreamedIn

\* A call has streamed when the new frame is a delta of it, or does not end it.
LEMMA StreamedAfter ==
  ASSUME NEW o, NEW q, NEW f, Adds(o, q, f), NEW k,
         \/ f.kind = "delta" /\ f.key = k /\ OpenIn(o, Len(o) + 1, k)
         \/ StreamedIn(o, Len(o) + 1, k) /\ ~Opens(f, k) /\ ~Closes(f, k)
  PROVE  StreamedIn(q, Len(q) + 1, k)
<1>1. PICK l \in Nat : l = Len(o)
  BY DEF Adds
<1>2. Len(q) = l + 1 /\ q[l + 1] = f /\ \A i \in 1..l : q[i] = o[i]
  BY <1>1 DEF Adds
<1>3. \A i \in 1..(l + 1) : OpenIn(q, i, k) <=> OpenIn(o, i, k)
  BY <1>1, OpenBefore
<1>4. CASE f.kind = "delta" /\ f.key = k /\ OpenIn(o, l + 1, k)
  <2>1. l + 1 \in 1..(l + 1) /\ OpenIn(q, l + 1, k)
    BY <1>3, <1>4
  <2>2. \A m \in (l + 2)..(l + 1) : FALSE
    BY <1>1
  <2> QED BY <1>2, <1>4, <2>1, <2>2 DEF StreamedIn
<1>5. CASE StreamedIn(o, l + 1, k) /\ ~Opens(f, k) /\ ~Closes(f, k)
  <2>1. PICK d \in 1..l :
          /\ o[d].kind = "delta" /\ o[d].key = k /\ OpenIn(o, d, k)
          /\ \A m \in (d + 1)..l : ~Opens(o[m], k) /\ ~Closes(o[m], k)
    BY <1>1, <1>5 DEF StreamedIn
  <2>2. d \in 1..(l + 1) /\ q[d] = o[d] /\ OpenIn(q, d, k)
    BY <1>1, <1>2, <1>3, <2>1
  <2>3. \A m \in (d + 1)..(l + 1) : ~Opens(q[m], k) /\ ~Closes(q[m], k)
    BY <1>2, <1>5, <2>1
  <2> QED BY <1>2, <2>1, <2>2, <2>3 DEF StreamedIn
<1> QED BY <1>1, <1>4, <1>5

\* The losses that a new frame adds are of the open call that it starts again.
LEMMA OwedBefore ==
  ASSUME NEW o, NEW q, NEW f, Adds(o, q, f), NEW n \in 1..Len(o), NEW p \in OwedIn(q, n)
  PROVE  /\ p \in OwedIn(o, n)
         /\ o[n].kind \in {"start", "delta", "args"} /\ Opens(f, o[n].key) =>
              ~QuietIn(o, n + 1, Len(o), o[n].key)
<1>1. q[n] = o[n]
  BY DEF Adds
<1>2. PICK k : k = o[n].key
  OBVIOUS
<1>3. n \in 1..(Len(o) + 1)
  BY DEF Adds
<1>4. (OpenIn(q, n, k) <=> OpenIn(o, n, k)) /\ (StreamedIn(q, n, k) <=> StreamedIn(o, n, k))
  BY <1>3, OpenBefore, StreamedBefore
<1>5. ReopenedIn(o, n, k) => ReopenedIn(q, n, k)
  BY ReopenedAfter
<1>6. Opens(f, k) /\ QuietIn(o, n + 1, Len(o), k) => ReopenedIn(q, n, k)
  BY ReopenedAfter
<1>7. PICK kind : kind = o[n].kind
  OBVIOUS
<1>8. p \in OwedIn(o, n)
  BY <1>1, <1>2, <1>4, <1>5, <1>7 DEF OwedIn
<1>9. kind \in {"start", "delta", "args"} => ~ReopenedIn(q, n, k)
  BY <1>1, <1>2, <1>7 DEF OwedIn
<1> QED BY <1>2, <1>6, <1>7, <1>8, <1>9

\* What is owed of the new frame.
LEMMA OwedLast ==
  ASSUME NEW o, NEW q, NEW f, Adds(o, q, f), NEW p \in OwedIn(q, Len(q))
  PROVE  /\ p \in f.pieces
         /\ f.kind \notin {"oversized", "ignored"}
         /\ f.kind \in {"delta", "args"} => OpenIn(o, Len(o) + 1, f.key)
         /\ f.kind = "listed" => ~OpenIn(o, Len(o) + 1, f.key)
         /\ f.kind \in {"args", "stop"} => ~StreamedIn(o, Len(o) + 1, f.key)
<1>1. Len(o) \in Nat /\ Len(q) = Len(o) + 1 /\ q[Len(q)] = f
  BY DEF Adds
<1>2. PICK k : k = f.key
  OBVIOUS
<1>3. /\ OpenIn(q, Len(q), k) <=> OpenIn(o, Len(o) + 1, k)
      /\ StreamedIn(q, Len(q), k) <=> StreamedIn(o, Len(o) + 1, k)
  <2>1. Len(o) + 1 \in 1..(Len(o) + 1)
    BY <1>1
  <2> QED BY <1>1, <2>1, OpenBefore, StreamedBefore
<1>4. p \in f.pieces /\ f.kind \notin {"oversized", "ignored"}
  BY <1>1 DEF OwedIn
<1>5. f.kind \in {"delta", "args"} => OpenIn(q, Len(q), k)
  BY <1>1, <1>2 DEF OwedIn
<1>6. f.kind = "listed" => ~OpenIn(q, Len(q), k)
  BY <1>1, <1>2 DEF OwedIn
<1>7. f.kind \in {"args", "stop"} => ~StreamedIn(q, Len(q), k)
  BY <1>1, <1>2 DEF OwedIn
<1> QED BY <1>2, <1>3, <1>4, <1>5, <1>6, <1>7
-----------------------------------------------------------------------------
(* What the handling of one frame has to do *)

Ready(f) ==
  /\ IInv /\ phase = "reading"
  /\ FrameFacts(f)
  /\ UNCHANGED <<declaredTools, protocol>>

\* What was held stays held or is inspected, unless the frame starts its call again.
Carries(f) ==
  /\ inspected \cup text \subseteq inspected' \cup text'
  /\ \A k \in DOMAIN tools :
       \/ /\ k \in DOMAIN tools' /\ tools[k].pieces \subseteq tools'[k].pieces
          /\ ~Closes(f, k)
       \/ tools[k].pieces \subseteq inspected'
       \/ Opens(f, k)

\* The pieces of the frame are held or inspected, unless the handler may lose them.
TakesIn(f) ==
  \A p \in f.pieces :
    /\ f.kind \notin {"oversized", "ignored"}
    /\ f.kind \in {"delta", "args"} => f.key \in DOMAIN tools
    /\ f.kind = "listed" => f.key \notin DOMAIN tools
    /\ f.kind \in {"args", "stop"} => ~StreamedIn(out, Len(out) + 1, f.key)
    => \/ p \in inspected' \cup text'
       \/ /\ f.kind \in {"start", "delta", "args", "chunk"}
          /\ f.key \in DOMAIN tools' /\ p \in tools'[f.key].pieces

Tracks(f) ==
  protocol # "openai" =>
    \A k \in Key : k \in DOMAIN tools' <=>
                     Opens(f, k) \/ (k \in DOMAIN tools /\ ~Closes(f, k))

\* A call has streamed when this frame is a delta of it, or it had before.
Counts(f) ==
  \A k \in DOMAIN tools' :
    tools'[k].gotDelta =>
      /\ k \in DOMAIN tools
      /\ \/ f.kind = "delta" /\ f.key = k
         \/ tools[k].gotDelta /\ ~Opens(f, k) /\ ~Closes(f, k)

\* The call of the frame is compared with the declared tools, or was.
Checks(f) ==
  \/ f.name = NoName /\ f.kind # "chunk"
  \/ f.kind \in {"stop", "listed"} /\ f.key \in DOMAIN tools
  \/ CheckToolCall(f.name) \subseteq findings'

Remembers ==
  /\ \A k \in DOMAIN toolName' : CheckToolCall(toolName'[k]) \subseteq findings'
  /\ protocol = "openai" /\ DOMAIN tools' # {} => CheckToolCall(NoName) \subseteq findings'

HoldsContent(f) == ToolsTyped(tools') /\ Carries(f) /\ TakesIn(f) /\ Tracks(f) /\ Counts(f)
ReportsFrame(f) ==
  /\ findings \subseteq findings'
  /\ f.kind = "oversized" => "oversized-sse" \in findings'
  /\ Checks(f) /\ Remembers

LEMMA PutIs ==
  ASSUME NEW k \in Key, NEW v \in OpenCall, ToolsTyped(tools)
  PROVE  /\ ToolsTyped(Put(tools, k, v))
         /\ DOMAIN Put(tools, k, v) = DOMAIN tools \cup {k}
         /\ Put(tools, k, v)[k] = v
         /\ \A x \in DOMAIN tools : x # k => Put(tools, k, v)[x] = tools[x]
BY DEF Put, ToolsTyped

LEMMA DropIs ==
  ASSUME NEW k, ToolsTyped(tools)
  PROVE  /\ ToolsTyped(Drop(tools, k))
         /\ DOMAIN Drop(tools, k) = DOMAIN tools \ {k}
         /\ \A x \in DOMAIN tools \ {k} : Drop(tools, k)[x] = tools[x]
BY DEF Drop, ToolsTyped

LEMMA CheckNoName == ASSUME NEW n PROVE CheckToolCall(NoName) \subseteq CheckToolCall(n)
BY DEF CheckToolCall

\* A step that leaves the names alone and gives up no finding.
LEMMA NamesKept ==
  ASSUME NEW f, Ready(f), toolName' = toolName, findings \subseteq findings',
         protocol = "openai" => tools' = tools
  PROVE  Remembers
BY DEF Remembers, Ready, IInv, NamesChecked, BegunChecked

\* The pieces i were inspected, and checkToolCall was called with the names given.
LEMMA KeepReports ==
  ASSUME NEW f, Ready(f), NEW t, NEW i, NEW checked, Keep(t, i, checked),
         f.kind # "oversized", protocol = "openai" => t = tools,
         \/ f.name = NoName /\ f.kind # "chunk"
         \/ f.kind \in {"stop", "listed"} /\ f.key \in DOMAIN tools
         \/ f.name \in checked
  PROVE  ReportsFrame(f)
<1>1. /\ findings' = findings \cup UNION {CheckToolCall(n) : n \in checked}
      /\ toolName' = toolName /\ tools' = t
  BY DEF Keep
<1>2. findings \subseteq findings' /\ \A n \in checked : CheckToolCall(n) \subseteq findings'
  BY <1>1
<1>3. Remembers
  BY <1>1, <1>2, NamesKept
<1>4. Checks(f)
  BY <1>2 DEF Checks
<1> QED BY <1>2, <1>3, <1>4 DEF ReportsFrame
-----------------------------------------------------------------------------
(* The handlers *)

\* The facts of the invariant about the inspectors, while frames are read.
LEMMA ToolsFacts ==
  ASSUME NEW f, Ready(f)
  PROVE  /\ ToolsTyped(tools) /\ DOMAIN tools \subseteq Key
         /\ \A k \in DOMAIN tools : tools[k] \in OpenCall /\ tools[k].pieces \in Content
         /\ \A k \in DOMAIN tools : tools[k].gotDelta => StreamedIn(out, Len(out) + 1, k)
         /\ f.pieces \in Content
BY DEF Ready, IInv, Types, ToolsTyped, DeltasSeen, OpenCall, FrameFacts, AnyFrame

\* content_block_start, response.output_item.added (anthropic.go:49-53,
\* responses.go:109-115).
LEMMA StartHandled ==
  ASSUME NEW f, Ready(f), f.kind = "start", StartTool(f)
  PROVE  HoldsContent(f) /\ ReportsFrame(f)
<1>1. PICK v : v = Write(Inspector, f.pieces)
  OBVIOUS
<1>2. v \in OpenCall /\ v.pieces = f.pieces /\ v.gotDelta = FALSE
  <2>1. f.pieces \in Content
    BY ToolsFacts
  <2>2. /\ v \in OpenCall /\ v.pieces = Inspector.pieces \cup f.pieces
        /\ v.gotDelta = Inspector.gotDelta
    BY <1>1, <2>1, WriteIs, InspectorIs
  <2> QED BY <2>2, InspectorIs
<1>3. Keep(Put(tools, f.key, v), {}, {f.name})
  BY <1>1 DEF StartTool
<1>4. f.key \in Key /\ protocol # "openai"
  BY DEF Ready, FrameFacts
<1>5. /\ tools' = Put(tools, f.key, v) /\ inspected' = inspected /\ text' = text
  BY <1>3 DEF Keep
<1>6. /\ ToolsTyped(tools') /\ DOMAIN tools' = DOMAIN tools \cup {f.key} /\ tools'[f.key] = v
      /\ \A x \in DOMAIN tools : x # f.key => tools'[x] = tools[x]
  <2>1. ToolsTyped(tools) /\ f.key \in Key /\ v \in OpenCall
    BY <1>2, <1>4, ToolsFacts
  <2>2. PICK t : t = Put(tools, f.key, v)
    OBVIOUS
  <2>3. /\ ToolsTyped(t) /\ DOMAIN t = DOMAIN tools \cup {f.key} /\ t[f.key] = v
        /\ \A x \in DOMAIN tools : x # f.key => t[x] = tools[x]
    BY ONLY <2>1, <2>2, PutIs
  <2> QED BY <1>5, <2>2, <2>3
<1>7. Carries(f)
  BY <1>5, <1>6 DEF Carries, Opens, Closes
<1>8. TakesIn(f)
  BY <1>2, <1>6 DEF TakesIn
<1>9. Tracks(f)
  BY <1>6 DEF Tracks, Opens, Closes
<1>10. Counts(f)
  BY <1>2, <1>6 DEF Counts, Opens, Closes
<1>11. ReportsFrame(f)
  BY <1>3, <1>4, KeepReports
<1> QED BY <1>6, <1>7, <1>8, <1>9, <1>10, <1>11 DEF HoldsContent

\* A call that is open gets an inspector that holds more, and stays open.
LEMMA Refilled ==
  ASSUME NEW f, Ready(f), f.kind \in {"delta", "args"}, f.key \in DOMAIN tools,
         NEW v \in OpenCall, tools' = Put(tools, f.key, v),
         inspected' = inspected, text' = text,
         tools[f.key].pieces \subseteq v.pieces,
         f.pieces \subseteq v.pieces,
         v.gotDelta => f.kind = "delta" \/ tools[f.key].gotDelta
  PROVE  HoldsContent(f)
<1>1. f.key \in Key /\ ToolsTyped(tools)
  BY ToolsFacts
<1>2. /\ ToolsTyped(tools') /\ DOMAIN tools' = DOMAIN tools \cup {f.key} /\ tools'[f.key] = v
      /\ \A x \in DOMAIN tools : x # f.key => tools'[x] = tools[x]
  <2>1. PICK t : t = Put(tools, f.key, v)
    OBVIOUS
  <2>2. /\ ToolsTyped(t) /\ DOMAIN t = DOMAIN tools \cup {f.key} /\ t[f.key] = v
        /\ \A x \in DOMAIN tools : x # f.key => t[x] = tools[x]
    BY ONLY <1>1, <2>1, v \in OpenCall, PutIs
  <2> QED BY <2>1, <2>2
<1>3. Carries(f)
  <2>1. \A k \in DOMAIN tools : k \in DOMAIN tools' /\ ~Closes(f, k)
    BY <1>2 DEF Closes
  <2>2. ASSUME NEW k \in DOMAIN tools PROVE tools[k].pieces \subseteq tools'[k].pieces
    <3>1. CASE k = f.key
      BY <1>2, <3>1
    <3>2. CASE k # f.key
      BY <1>2, <3>2
    <3> QED BY <3>1, <3>2
  <2> QED BY <2>1, <2>2 DEF Carries
<1>4. TakesIn(f)
  BY <1>2 DEF TakesIn
<1>5. Tracks(f)
  BY <1>2 DEF Tracks, Opens, Closes
<1>6. Counts(f)
  BY <1>2 DEF Counts, Opens, Closes
<1> QED BY <1>2, <1>3, <1>4, <1>5, <1>6 DEF HoldsContent

\* Nothing is opened, closed or written.
LEMMA Untouched ==
  ASSUME NEW f, Ready(f), f.kind \notin {"start", "chunk"}, tools' = tools,
         inspected \cup text \subseteq inspected' \cup text',
         \A k \in DOMAIN tools : ~Closes(f, k),
         \/ f.kind \in {"delta", "args"} /\ f.key \notin DOMAIN tools
         \/ f.kind = "args" /\ StreamedIn(out, Len(out) + 1, f.key)
         \/ f.kind \in {"oversized", "ignored"}
         \/ f.pieces \subseteq inspected' \cup text'
  PROVE  HoldsContent(f)
<1>1. Carries(f)
  BY DEF Carries
<1>2. TakesIn(f)
  BY DEF TakesIn
<1>3. Tracks(f)
  BY DEF Tracks, Opens
<1>4. Counts(f)
  BY DEF Counts, Opens
<1> QED BY <1>1, <1>2, <1>3, <1>4, ToolsFacts DEF HoldsContent

\* input_json_delta, response.function_call_arguments.delta (anthropic.go:56-59,
\* responses.go:116-120).
LEMMA DeltaHandled ==
  ASSUME NEW f, Ready(f), f.kind = "delta", ToolDelta(f)
  PROVE  HoldsContent(f) /\ ReportsFrame(f)
<1>1. f.name = NoName /\ f.key \in Key /\ protocol # "openai"
  BY DEF Ready, FrameFacts
<1>2. inspected' = inspected /\ text' = text
  BY DEF ToolDelta, Keep
<1>3. ReportsFrame(f)
  BY <1>1, KeepReports DEF ToolDelta
<1>4. CASE f.key \in DOMAIN tools
  <2>1. PICK w : w = Write(tools[f.key], f.pieces)
    OBVIOUS
  <2>2. w \in OpenCall /\ w.pieces = tools[f.key].pieces \cup f.pieces
    BY <1>4, <2>1, WriteIs, ToolsFacts
  <2>3. PICK v : v = [w EXCEPT !.gotDelta = TRUE]
    OBVIOUS
  <2>4. v \in OpenCall /\ v.pieces = w.pieces
    BY <2>2, <2>3, DeltaIs
  <2>5. tools' = Put(tools, f.key, v)
    BY <1>4, <2>1, <2>3 DEF ToolDelta, Keep
  <2> QED BY <1>2, <1>3, <1>4, <2>2, <2>4, <2>5, Refilled
<1>5. CASE f.key \notin DOMAIN tools
  <2>1. tools' = tools
    BY <1>5 DEF ToolDelta, Keep
  <2>2. \A k \in DOMAIN tools : ~Closes(f, k)
    BY DEF Closes
  <2> QED BY <1>2, <1>3, <1>5, <2>1, <2>2, Untouched
<1> QED BY <1>4, <1>5
\* response.function_call_arguments.done (responses.go:121-124).
LEMMA ArgsHandled ==
  ASSUME NEW f, Ready(f), f.kind = "args", ArgumentsDone(f)
  PROVE  HoldsContent(f) /\ ReportsFrame(f)
<1>1. f.name = NoName /\ f.key \in Key /\ protocol # "openai"
  BY DEF Ready, FrameFacts
<1>2. inspected' = inspected /\ text' = text
  BY DEF ArgumentsDone, Keep
<1>3. ReportsFrame(f)
  BY <1>1, KeepReports DEF ArgumentsDone
<1>4. CASE f.key \in DOMAIN tools /\ ~tools[f.key].gotDelta
  <2>1. PICK v : v = Write(tools[f.key], f.pieces)
    OBVIOUS
  <2>2. tools[f.key] \in OpenCall /\ f.pieces \in Content
    BY <1>4, ToolsFacts
  <2>3. v \in OpenCall /\ v.pieces = tools[f.key].pieces \cup f.pieces /\ ~v.gotDelta
    BY <1>4, <2>1, <2>2, WriteIs
  <2>4. tools' = Put(tools, f.key, v)
    BY <1>4, <2>1 DEF ArgumentsDone, Keep
  <2> QED BY <1>2, <1>3, <1>4, <2>3, <2>4, Refilled
<1>5. CASE ~(f.key \in DOMAIN tools /\ ~tools[f.key].gotDelta)
  <2>1. tools' = tools
    BY <1>5 DEF ArgumentsDone, Keep
  <2>2. \A k \in DOMAIN tools : ~Closes(f, k)
    BY DEF Closes
  <2>3. f.key \in DOMAIN tools => StreamedIn(out, Len(out) + 1, f.key)
    BY <1>5, ToolsFacts
  <2> QED BY <1>2, <1>3, <2>1, <2>2, <2>3, Untouched
<1> QED BY <1>4, <1>5

\* A call is closed: what its inspector holds is inspected.
LEMMA Closed ==
  ASSUME NEW f, Ready(f), f.kind \in {"stop", "listed"}, tools' = Drop(tools, f.key),
         inspected \cup text \subseteq inspected' \cup text',
         f.key \in DOMAIN tools => tools[f.key].pieces \subseteq inspected',
         f.kind = "listed" => f.key \in DOMAIN tools,
         f.kind = "stop" /\ ~StreamedIn(out, Len(out) + 1, f.key) => f.pieces \subseteq inspected'
  PROVE  HoldsContent(f)
<1>1. ToolsTyped(tools)
  BY ToolsFacts
<1>2. /\ ToolsTyped(tools') /\ DOMAIN tools' = DOMAIN tools \ {f.key}
      /\ \A x \in DOMAIN tools \ {f.key} : tools'[x] = tools[x]
  BY <1>1, DropIs
<1>3. Carries(f)
  <2>1. ASSUME NEW k \in DOMAIN tools, k # f.key
        PROVE  k \in DOMAIN tools' /\ tools[k].pieces \subseteq tools'[k].pieces /\ ~Closes(f, k)
    BY <1>2, <2>1 DEF Closes
  <2> QED BY <2>1 DEF Carries
<1>4. TakesIn(f)
  BY DEF TakesIn
<1>5. Tracks(f)
  BY <1>2 DEF Tracks, Opens, Closes
<1>6. Counts(f)
  BY <1>2 DEF Counts, Opens, Closes
<1> QED BY <1>2, <1>3, <1>4, <1>5, <1>6 DEF HoldsContent

\* content_block_stop (anthropic.go:63-67).
LEMMA StopHandled ==
  ASSUME NEW f, Ready(f), f.kind = "stop", protocol = "anthropic", StopTool(f)
  PROVE  HoldsContent(f) /\ ReportsFrame(f)
<1>1. f.name = NoName /\ f.pieces = {} /\ protocol # "openai"
  BY DEF Ready, FrameFacts
<1>2. ReportsFrame(f)
  BY <1>1, KeepReports DEF StopTool
<1>3. /\ tools' = Drop(tools, f.key) /\ text' = text
      /\ inspected' = inspected \cup IF f.key \in DOMAIN tools THEN tools[f.key].pieces ELSE {}
  BY DEF StopTool, Keep
<1> QED BY <1>1, <1>2, <1>3, Closed

\* response.output_item.done (responses.go:125-139).
LEMMA ItemDoneHandled ==
  ASSUME NEW f, Ready(f), f.kind = "stop", ItemDone(f)
  PROVE  HoldsContent(f) /\ ReportsFrame(f)
<1>1. f.key \in Key /\ protocol # "openai"
  BY DEF Ready, FrameFacts
<1>2. PICK c : c = IF f.key \in DOMAIN tools THEN tools[f.key] ELSE Inspector
  OBVIOUS
<1>3. PICK checked : checked = IF f.key \in DOMAIN tools THEN {} ELSE {f.name}
  OBVIOUS
<1>4. PICK i : i = c.pieces \cup (IF c.gotDelta THEN {} ELSE f.pieces)
  OBVIOUS
<1>5. Keep(Drop(tools, f.key), i, checked)
  BY <1>2, <1>3, <1>4 DEF ItemDone
<1>6. ReportsFrame(f)
  BY <1>1, <1>3, <1>5, KeepReports
<1>7. tools' = Drop(tools, f.key) /\ text' = text /\ inspected' = inspected \cup i
  BY <1>5 DEF Keep
<1>8. f.key \in DOMAIN tools => tools[f.key].pieces \subseteq i
  BY <1>2, <1>4
<1>9. ~StreamedIn(out, Len(out) + 1, f.key) => f.pieces \subseteq i
  BY <1>2, <1>4, ToolsFacts, InspectorIs
<1> QED BY <1>6, <1>7, <1>8, <1>9, Closed

\* An item of response.completed (responses.go:140-154).
LEMMA ListedHandled ==
  ASSUME NEW f, Ready(f), f.kind \in {"listed", "listed_without_id"},
         protocol # "openai", Listed(f)
  PROVE  HoldsContent(f) /\ ReportsFrame(f)
<1>1. CASE f.kind = "listed" /\ f.key \in DOMAIN tools
  <2>1. Keep(Drop(tools, f.key), tools[f.key].pieces, {})
    BY <1>1 DEF Listed
  <2>2. ReportsFrame(f)
    BY <1>1, <2>1, KeepReports
  <2>3. /\ tools' = Drop(tools, f.key) /\ text' = text
        /\ inspected' = inspected \cup tools[f.key].pieces
    BY <2>1 DEF Keep
  <2> QED BY <1>1, <2>2, <2>3, Closed
<1>2. CASE ~(f.kind = "listed" /\ f.key \in DOMAIN tools)
  <2>1. Keep(tools, f.pieces, {f.name})
    BY <1>2 DEF Listed
  <2>2. ReportsFrame(f)
    BY <2>1, KeepReports
  <2>3. tools' = tools /\ text' = text /\ inspected' = inspected \cup f.pieces
    BY <2>1 DEF Keep
  <2>4. \A k \in DOMAIN tools : ~Closes(f, k)
    BY <1>2 DEF Closes
  <2> QED BY <2>2, <2>3, <2>4, Untouched
<1> QED BY <1>1, <1>2
\* A chunk with a tool delta (openai.go:40-67).
LEMMA ChunkHandled ==
  ASSUME NEW f, Ready(f), f.kind = "chunk", Accumulate(f)
  PROVE  HoldsContent(f) /\ ReportsFrame(f)
<1>1. f.key \in Key /\ protocol = "openai" /\ f.pieces \in Content /\ ToolsTyped(tools)
  BY ToolsFacts DEF Ready, FrameFacts
<1>2. PICK i : i = IF f.key \in DOMAIN tools THEN tools[f.key] ELSE Inspector
  OBVIOUS
<1>3. PICK v : v = Write(i, f.pieces)
  OBVIOUS
<1>4. i \in OpenCall /\ (f.key \notin DOMAIN tools => ~i.gotDelta)
  BY <1>1, <1>2, InspectorIs DEF ToolsTyped
<1>5. v \in OpenCall /\ v.pieces = i.pieces \cup f.pieces /\ v.gotDelta = i.gotDelta
  BY <1>1, <1>3, <1>4, WriteIs
<1>6. tools' = Put(tools, f.key, v) /\ text' = text /\ inspected' = inspected
  BY <1>2, <1>3 DEF Accumulate
<1>7. /\ ToolsTyped(tools') /\ DOMAIN tools' = DOMAIN tools \cup {f.key} /\ tools'[f.key] = v
      /\ \A x \in DOMAIN tools : x # f.key => tools'[x] = tools[x]
  <2>1. ToolsTyped(tools) /\ f.key \in Key /\ v \in OpenCall
    BY <1>1, <1>5
  <2>2. PICK t : t = Put(tools, f.key, v)
    OBVIOUS
  <2>3. /\ ToolsTyped(t) /\ DOMAIN t = DOMAIN tools \cup {f.key} /\ t[f.key] = v
        /\ \A x \in DOMAIN tools : x # f.key => t[x] = tools[x]
    BY ONLY <2>1, <2>2, PutIs
  <2> QED BY <1>6, <2>2, <2>3
<1>8. Carries(f)
  <2>1. \A k \in DOMAIN tools : k \in DOMAIN tools' /\ ~Closes(f, k)
    BY <1>7 DEF Closes
  <2>2. ASSUME NEW k \in DOMAIN tools PROVE tools[k].pieces \subseteq tools'[k].pieces
    <3>1. CASE k = f.key
      BY <1>2, <1>5, <1>7, <3>1
    <3>2. CASE k # f.key
      BY <1>7, <3>2
    <3> QED BY <3>1, <3>2
  <2> QED BY <1>6, <2>1, <2>2 DEF Carries
<1>9. TakesIn(f)
  BY <1>5, <1>7 DEF TakesIn
<1>10. Tracks(f)
  BY <1>1 DEF Tracks
<1>11. Counts(f)
  <2>1. \A k \in DOMAIN tools' : tools'[k].gotDelta => k \in DOMAIN tools /\ tools[k].gotDelta
    BY <1>2, <1>4, <1>5, <1>7
  <2> QED BY <2>1 DEF Counts, Opens, Closes
<1>12. findings' = findings \cup IF NewName(f) THEN CheckToolCall(f.name) ELSE {}
  BY DEF Accumulate
<1>13. NamesChecked /\ BegunChecked
  BY DEF Ready, IInv
<1>14. CheckToolCall(f.name) \subseteq findings'
  <2>1. CASE NewName(f)
    BY <1>12, <2>1
  <2>2. CASE ~NewName(f) /\ f.name # NoName
    <3>1. f.key \in DOMAIN toolName /\ toolName[f.key] = f.name
      BY <2>2 DEF NewName
    <3> QED BY <1>12, <1>13, <3>1 DEF NamesChecked
  <2>3. CASE ~NewName(f) /\ f.name = NoName
    <3>1. DOMAIN tools # {}
      BY <2>3 DEF NewName
    <3> QED BY <1>1, <1>12, <1>13, <2>3, <3>1 DEF BegunChecked
  <2> QED BY <2>1, <2>2, <2>3
<1>15. Remembers
  <2>1. toolName' = IF f.name # NoName THEN Put(toolName, f.key, f.name) ELSE toolName
    BY DEF Accumulate
  <2>2. \A k \in DOMAIN toolName' :
          toolName'[k] = f.name \/ (k \in DOMAIN toolName /\ toolName'[k] = toolName[k])
    BY <2>1 DEF Put
  <2>3. \A k \in DOMAIN toolName' : CheckToolCall(toolName'[k]) \subseteq findings'
    BY <1>12, <1>13, <1>14, <2>2 DEF NamesChecked
  <2>4. CheckToolCall(NoName) \subseteq findings'
    BY <1>14, CheckNoName
  <2> QED BY <2>3, <2>4 DEF Remembers
<1>16. ReportsFrame(f)
  BY <1>12, <1>14, <1>15 DEF ReportsFrame, Checks
<1> QED BY <1>7, <1>8, <1>9, <1>10, <1>11, <1>16 DEF HoldsContent

\* Text, or any data of a generic stream (anthropic.go:60-61, generic.go:15-20).
LEMMA TextHandled ==
  ASSUME NEW f, Ready(f), f.kind \in {"text", "error"}, Text(f)
  PROVE  HoldsContent(f) /\ ReportsFrame(f)
<1>1. /\ tools' = tools /\ toolName' = toolName /\ findings' = findings
      /\ inspected' = inspected /\ text' = text \cup f.pieces
  BY DEF Text
<1>2. f.name = NoName
  BY DEF Ready, FrameFacts
<1>3. HoldsContent(f)
  <2>1. \A k \in DOMAIN tools : ~Closes(f, k)
    BY DEF Closes
  <2> QED BY <1>1, <2>1, Untouched
<1>4. Remembers
  BY <1>1, NamesKept
<1> QED BY <1>1, <1>2, <1>3, <1>4 DEF ReportsFrame, Checks

\* An error frame of the three protocols (anthropic.go:68-69, openai.go:86-89,
\* responses.go:157-158).
LEMMA ErrorHandled ==
  ASSUME NEW f, Ready(f), f.kind = "error", Error(f)
  PROVE  HoldsContent(f) /\ ReportsFrame(f)
<1>1. CASE protocol = "generic"
  BY <1>1, TextHandled DEF Error
<1>2. CASE protocol # "generic"
  <2>1. Keep(tools, f.pieces, {})
    BY <1>2 DEF Error
  <2>2. f.name = NoName
    BY DEF Ready, FrameFacts
  <2>3. ReportsFrame(f)
    BY <2>1, <2>2, KeepReports
  <2>4. tools' = tools /\ text' = text /\ inspected' = inspected \cup f.pieces
    BY <2>1 DEF Keep
  <2>5. \A k \in DOMAIN tools : ~Closes(f, k)
    BY DEF Closes
  <2> QED BY <2>3, <2>4, <2>5, Untouched
<1> QED BY <1>1, <1>2

\* A frame over the cap (sse.go:48-55).
LEMMA OversizedHandled ==
  ASSUME NEW f, Ready(f), f.kind = "oversized", Oversized(f)
  PROVE  HoldsContent(f) /\ ReportsFrame(f)
<1>1. /\ tools' = tools /\ toolName' = toolName /\ text' = text /\ inspected' = inspected
      /\ findings' = findings \cup {"oversized-sse"}
  BY DEF Oversized
<1>2. f.name = NoName
  BY DEF Ready, FrameFacts
<1>3. HoldsContent(f)
  <2>1. \A k \in DOMAIN tools : ~Closes(f, k)
    BY DEF Closes
  <2> QED BY <1>1, <2>1, Untouched
<1>4. Remembers
  BY <1>1, NamesKept
<1> QED BY <1>1, <1>2, <1>3, <1>4 DEF ReportsFrame, Checks

\* Content that the handler does not read (anthropic.go:44-47, openai.go:42-44,
\* responses.go:104-107).
LEMMA IgnoredHandled ==
  ASSUME NEW f, Ready(f), f.kind = "ignored", Ignored(f)
  PROVE  HoldsContent(f) /\ ReportsFrame(f)
<1>1. Keep(tools, {}, {}) /\ f.name = NoName
  BY DEF Ignored, Ready, FrameFacts
<1>2. ReportsFrame(f)
  BY <1>1, KeepReports
<1>3. tools' = tools /\ text' = text /\ inspected' = inspected
  BY <1>1 DEF Keep
<1>4. \A k \in DOMAIN tools : ~Closes(f, k)
  BY DEF Closes
<1> QED BY <1>2, <1>3, <1>4, Untouched

LEMMA FrameHandled ==
  ASSUME NEW f, Ready(f), Handle(f)
  PROVE  HoldsContent(f) /\ ReportsFrame(f)
<1>1. f.kind \in Kind
  BY DEF Ready, FrameFacts, AnyFrame
<1>2. CASE f.kind = "start"
  <2>1. StartTool(f)
    BY <1>2 DEF Handle
  <2> QED BY <1>2, <2>1, StartHandled
<1>3. CASE f.kind = "delta"
  <2>1. ToolDelta(f)
    BY <1>3 DEF Handle
  <2> QED BY <1>3, <2>1, DeltaHandled
<1>4. CASE f.kind = "stop" /\ protocol = "anthropic"
  <2>1. StopTool(f)
    BY <1>4 DEF Handle
  <2> QED BY <1>4, <2>1, StopHandled
<1>5. CASE f.kind = "stop" /\ protocol # "anthropic"
  <2>1. ItemDone(f)
    BY <1>5 DEF Handle
  <2> QED BY <1>5, <2>1, ItemDoneHandled
<1>6. CASE f.kind = "args"
  <2>1. ArgumentsDone(f)
    BY <1>6 DEF Handle
  <2> QED BY <1>6, <2>1, ArgsHandled
<1>7. CASE f.kind = "chunk"
  <2>1. Accumulate(f)
    BY <1>7 DEF Handle
  <2> QED BY <1>7, <2>1, ChunkHandled
<1>8. CASE f.kind = "text"
  <2>1. Text(f)
    BY <1>8 DEF Handle
  <2> QED BY <1>8, <2>1, TextHandled
<1>9. CASE f.kind = "error"
  <2>1. Error(f)
    BY <1>9 DEF Handle
  <2> QED BY <1>9, <2>1, ErrorHandled
<1>10. CASE f.kind = "oversized"
  <2>1. Oversized(f)
    BY <1>10 DEF Handle
  <2> QED BY <1>10, <2>1, OversizedHandled
<1>11. CASE f.kind \in {"listed", "listed_without_id"}
  <2>1. Listed(f)
    BY <1>11 DEF Handle
  <2>2. protocol # "openai"
    BY <1>11 DEF Ready, FrameFacts
  <2> QED BY <1>11, <2>1, <2>2, ListedHandled
<1>12. CASE f.kind = "ignored"
  <2>1. Ignored(f)
    BY <1>12 DEF Handle
  <2> QED BY <1>12, <2>1, IgnoredHandled
<1> QED BY <1>1, <1>2, <1>3, <1>4, <1>5, <1>6, <1>7, <1>8, <1>9, <1>10, <1>11, <1>12 DEF Kind
-----------------------------------------------------------------------------
(* The invariant is kept *)

LEMMA InitHolds ==
  ASSUME Init
  PROVE  IInv
<1>1. /\ out = <<>> /\ failed = FALSE /\ phase = "reading" /\ tools = <<>> /\ toolName = <<>>
  BY DEF Init, StateInit
<1>2. DOMAIN tools = {} /\ DOMAIN toolName = {} /\ Len(out) = 0 /\ DOMAIN out = {}
  BY <1>1
<1>3. Types
  <2>1. out \in Seq(AnyFrame)
    BY <1>1
  <2>2. ToolsTyped(tools)
    BY <1>2 DEF ToolsTyped
  <2> QED BY <1>1, <2>1, <2>2 DEF Types
<1>4. InStep
  BY <1>1, <1>2 DEF InStep, OpenIn
<1> QED BY <1>1, <1>2, <1>3, <1>4 DEF IInv, Live, DeltasSeen, ChunksOfOpenAI, Kept,
     AllInspected, OversizedTold, AllChecked, NamesChecked, BegunChecked

\* A frame was forwarded and handled: the content of the earlier ones and its own.
LEMMA KeptThen ==
  ASSUME NEW f, Ready(f), HoldsContent(f), Adds(out, out', f), phase' = "reading"
  PROVE  Kept'
<1>1. /\ Kept /\ InStep /\ ChunksOfOpenAI /\ phase = "reading"
      /\ out \in Seq(AnyFrame) /\ ToolsTyped(tools)
  BY DEF Ready, IInv, Types
<1>2. Len(out) \in Nat /\ DOMAIN out = 1..Len(out) /\ DOMAIN out' = 1..(Len(out) + 1)
      /\ Len(out') = Len(out) + 1
  BY DEF Adds
<1>3. Opens(f, f.key) <=> f.kind = "start"
  BY DEF Opens
<1>4. ASSUME NEW n \in 1..Len(out), NEW p \in OwedIn(out', n)
      PROVE  p \in inspected' \cup text' \/ Held(out', tools', n, p)
  <2>1. /\ p \in OwedIn(out, n)
        /\ out[n].kind \in {"start", "delta", "args"} /\ Opens(f, out[n].key) =>
             ~QuietIn(out, n + 1, Len(out), out[n].key)
    BY <1>4, OwedBefore
  <2>2. CASE p \in inspected \cup text
    BY <2>2 DEF HoldsContent, Carries
  <2>3. CASE Held(out, tools, n, p)
    <3>1. PICK k : k = out[n].key
      OBVIOUS
    <3>2. /\ out[n].kind \in {"start", "delta", "args", "chunk"} /\ k \in DOMAIN tools
          /\ p \in tools[k].pieces /\ QuietIn(out, n + 1, Len(out), k)
      BY <2>3, <3>1 DEF Held
    <3>3. ~Opens(f, k)
      <4>1. CASE out[n].kind = "chunk"
        <5>1. protocol = "openai"
          BY <1>1, <1>2, <4>1 DEF ChunksOfOpenAI
        <5> QED BY <5>1 DEF Opens, Ready, FrameFacts
      <4>2. CASE out[n].kind # "chunk"
        BY <2>1, <3>1, <3>2, <4>2
      <4> QED BY <4>1, <4>2
    <3>4. \/ k \in DOMAIN tools' /\ tools[k].pieces \subseteq tools'[k].pieces /\ ~Closes(f, k)
          \/ tools[k].pieces \subseteq inspected'
      BY <3>2, <3>3 DEF HoldsContent, Carries
    <3>5. CASE tools[k].pieces \subseteq inspected'
      BY <3>2, <3>5
    <3>6. CASE k \in DOMAIN tools' /\ tools[k].pieces \subseteq tools'[k].pieces /\ ~Closes(f, k)
      <4>1. out'[n] = out[n]
        BY DEF Adds
      <4>2. \A m \in (n + 1)..(Len(out) + 1) : ~Closes(out'[m], k)
        BY <1>2, <3>2, <3>6 DEF QuietIn, Adds
      <4>3. QuietIn(out', n + 1, Len(out'), k)
        BY <1>2, <4>2 DEF QuietIn
      <4>4. p \in tools'[k].pieces
        BY <3>2, <3>6
      <4> QED BY <3>1, <3>2, <3>6, <4>1, <4>3, <4>4 DEF Held
    <3> QED BY <3>4, <3>5, <3>6
  <2> QED BY <1>1, <2>1, <2>2, <2>3 DEF Kept
<1>5. ASSUME NEW p \in OwedIn(out', Len(out'))
      PROVE  p \in inspected' \cup text' \/ Held(out', tools', Len(out'), p)
  <2>1. /\ p \in f.pieces /\ f.kind \notin {"oversized", "ignored"}
        /\ f.kind \in {"delta", "args"} => OpenIn(out, Len(out) + 1, f.key)
        /\ f.kind = "listed" => ~OpenIn(out, Len(out) + 1, f.key)
        /\ f.kind \in {"args", "stop"} => ~StreamedIn(out, Len(out) + 1, f.key)
    BY <1>5, OwedLast
  <2>2. f.kind \in {"delta", "args", "listed"} =>
          (f.key \in DOMAIN tools <=> OpenIn(out, Len(out) + 1, f.key))
    BY <1>1 DEF InStep, Ready, FrameFacts
  <2>3. \/ p \in inspected' \cup text'
        \/ /\ f.kind \in {"start", "delta", "args", "chunk"}
           /\ f.key \in DOMAIN tools' /\ p \in tools'[f.key].pieces
    BY <2>1, <2>2 DEF HoldsContent, TakesIn
  <2>4. out'[Len(out')] = f
    BY <1>2 DEF Adds
  <2>5. QuietIn(out', Len(out') + 1, Len(out'), f.key)
    BY <1>2 DEF QuietIn
  <2> QED BY <2>3, <2>4, <2>5 DEF Held
<1>6. ASSUME NEW n \in DOMAIN out', NEW p \in OwedIn(out', n)
      PROVE  p \in inspected' \cup text' \/ Held(out', tools', n, p)
  <2>1. CASE n \in 1..Len(out)
    BY <1>4, <1>6, <2>1
  <2>2. CASE n = Len(out')
    BY <1>5, <1>6, <2>2
  <2> QED BY <1>2, <2>1, <2>2
<1> QED BY <1>6 DEF Kept
\* The open calls are in step with the stream that has one frame more.
LEMMA InStepThen ==
  ASSUME NEW f, Ready(f), HoldsContent(f), Adds(out, out', f), phase' = "reading"
  PROVE  InStep'
<1>1. ASSUME NEW k \in Key, protocol # "openai"
      PROVE  k \in DOMAIN tools' <=> OpenIn(out', Len(out') + 1, k)
  <2>1. k \in DOMAIN tools' <=> Opens(f, k) \/ (k \in DOMAIN tools /\ ~Closes(f, k))
    BY <1>1 DEF HoldsContent, Tracks
  <2>2. k \in DOMAIN tools <=> OpenIn(out, Len(out) + 1, k)
    BY <1>1 DEF Ready, IInv, InStep
  <2>3. OpenIn(out', Len(out') + 1, k) <=>
          Opens(f, k) \/ (OpenIn(out, Len(out) + 1, k) /\ ~Closes(f, k))
    BY OpenAfter
  <2> QED BY <2>1, <2>2, <2>3
<1>2. protocol' = protocol
  BY DEF Ready
<1> QED BY <1>1, <1>2 DEF InStep

\* What the handler takes for streamed, in the stream that has one frame more.
LEMMA DeltasSeenThen ==
  ASSUME NEW f, Ready(f), HoldsContent(f), Adds(out, out', f), phase' = "reading"
  PROVE  DeltasSeen'
<1>1. InStep /\ DeltasSeen /\ phase = "reading" /\ DOMAIN tools \subseteq Key
  BY ToolsFacts DEF Ready, IInv
<1>2. ASSUME NEW k \in DOMAIN tools', tools'[k].gotDelta
      PROVE  StreamedIn(out', Len(out') + 1, k)
  <2>1. /\ k \in DOMAIN tools
        /\ \/ f.kind = "delta" /\ f.key = k
           \/ tools[k].gotDelta /\ ~Opens(f, k) /\ ~Closes(f, k)
    BY <1>2 DEF HoldsContent, Counts
  <2>2. CASE f.kind = "delta" /\ f.key = k
    <3>1. OpenIn(out, Len(out) + 1, k)
      BY <1>1, <2>1, <2>2 DEF InStep, Ready, FrameFacts
    <3> QED BY <2>2, <3>1, StreamedAfter
  <2>3. CASE tools[k].gotDelta /\ ~Opens(f, k) /\ ~Closes(f, k)
    <3>1. StreamedIn(out, Len(out) + 1, k)
      BY <1>1, <2>1, <2>3 DEF DeltasSeen
    <3> QED BY <2>3, <3>1, StreamedAfter
  <2> QED BY <2>1, <2>2, <2>3
<1> QED BY <1>2 DEF DeltasSeen

LEMMA CheckedThen ==
  ASSUME NEW f, Ready(f), ReportsFrame(f), Adds(out, out', f)
  PROVE  AllChecked'
<1>1. Len(out) \in Nat /\ DOMAIN out = 1..Len(out) /\ DOMAIN out' = 1..(Len(out) + 1)
  BY DEF Adds
<1>2. AllChecked /\ InStep /\ phase = "reading"
  BY DEF Ready, IInv
<1>3. \A n : CheckToolCall(n)' = CheckToolCall(n)
  BY DEF CheckToolCall, Ready
<1>4. ASSUME NEW n \in 1..Len(out)
      PROVE  CheckedIn(out', findings', n)
  <2>1. out'[n] = out[n]
    BY DEF Adds
  <2>2. CheckedIn(out, findings, n)
    BY <1>1, <1>2 DEF AllChecked
  <2>3. n \in 1..(Len(out) + 1)
    BY <1>1
  <2>4. OpenIn(out', n, out[n].key) <=> OpenIn(out, n, out[n].key)
    BY <2>3, OpenBefore
  <2>5. findings \subseteq findings'
    BY DEF ReportsFrame
  <2> QED BY <2>1, <2>2, <2>4, <2>5 DEF CheckedIn
<1>5. CheckedIn(out', findings', Len(out) + 1)
  <2>1. out'[Len(out) + 1] = f /\ Len(out) + 1 \in 1..(Len(out) + 1)
    BY <1>1 DEF Adds
  <2>2. OpenIn(out', Len(out) + 1, f.key) <=> OpenIn(out, Len(out) + 1, f.key)
    BY <2>1, OpenBefore
  <2>3. f.kind \in {"stop", "listed"} /\ f.key \in DOMAIN tools => OpenIn(out, Len(out) + 1, f.key)
    BY <1>2 DEF InStep, Ready, FrameFacts
  <2>4. Checks(f)
    BY DEF ReportsFrame
  <2> QED BY <2>1, <2>2, <2>3, <2>4 DEF CheckedIn, Checks
<1>6. ASSUME NEW n \in DOMAIN out' PROVE CheckedIn(out', findings', n)
  <2>1. n \in 1..Len(out) \/ n = Len(out) + 1
    BY <1>1, <1>6
  <2> QED BY <1>4, <1>5, <2>1
<1> QED BY <1>3, <1>6 DEF AllChecked, CheckedIn

\* A frame was read, and the client has it.
LEMMA ForwardedKeeps ==
  ASSUME NEW f, Ready(f), Handle(f), Adds(out, out', f), ~failed', failed' \in BOOLEAN,
         phase' = phase
  PROVE  IInv'
<1>1. HoldsContent(f) /\ ReportsFrame(f)
  BY FrameHandled
<1>2. phase = "reading" /\ phase' = "reading" /\ declaredTools' = declaredTools /\ protocol' = protocol
  BY DEF Ready
<1>3. Types'
  BY <1>1, <1>2 DEF Types, HoldsContent, Adds
<1>4. Live' /\ AllInspected'
  BY <1>2 DEF Live, AllInspected
<1>5. DeltasSeen'
  BY <1>1, <1>2, DeltasSeenThen
<1>6. ChunksOfOpenAI'
  BY <1>2 DEF ChunksOfOpenAI, Ready, IInv, FrameFacts, Adds
<1>7. OversizedTold'
  BY <1>1 DEF OversizedTold, Ready, IInv, ReportsFrame, Adds
<1>8. NamesChecked'
  BY <1>1, <1>2 DEF NamesChecked, ReportsFrame, Remembers, CheckToolCall
<1>9. BegunChecked'
  BY <1>1, <1>2 DEF BegunChecked, ReportsFrame, Remembers, CheckToolCall
<1> QED BY <1>1, <1>2, <1>3, <1>4, <1>5, <1>6, <1>7, <1>8, <1>9,
           KeptThen, InStepThen, CheckedThen DEF IInv

\* Reading is over, for one reason or another: what was held stays held.
LEMMA ReadingOver ==
  ASSUME IInv, phase = "reading", phase' = "closing", out' = out, failed' \in BOOLEAN,
         UNCHANGED <<declaredTools, protocol, tools, toolName, text, inspected, findings>>
  PROVE  IInv'
<1>1. Types'
  BY DEF IInv, Types
<1>2. Kept'
  BY DEF IInv, Kept
<1>3. Live' /\ DeltasSeen' /\ InStep' /\ AllInspected'
  BY DEF Live, DeltasSeen, InStep, AllInspected
<1>4. ChunksOfOpenAI' /\ OversizedTold'
  BY DEF IInv, ChunksOfOpenAI, OversizedTold
<1>5. AllChecked' /\ NamesChecked' /\ BegunChecked'
  BY DEF IInv, AllChecked, CheckedIn, NamesChecked, BegunChecked, CheckToolCall
<1> QED BY <1>1, <1>2, <1>3, <1>4, <1>5 DEF IInv

LEMMA ForwardKeeps ==
  ASSUME IInv, Forward
  PROVE  IInv'
<1>1. PICK f \in FrameOf :
        /\ Emit(<<f>>)
        /\ IF failed'
           THEN /\ phase' = "closing"
                /\ UNCHANGED <<tools, toolName, text, inspected, findings, sawTool>>
           ELSE phase' = phase /\ Handle(f)
  BY DEF Forward
<1>2. phase = "reading" /\ Types /\ ~failed /\ UNCHANGED <<declaredTools, protocol>>
  BY DEF Forward, IInv, Live
<1>3. Ready(f) /\ f \in AnyFrame
  BY <1>1, <1>2, FramesAre DEF Ready, FrameFacts
<1>4. (failed' /\ out' = out) \/ (~failed' /\ Adds(out, out', f))
  BY <1>1, <1>2, <1>3, EmitAdds
<1>5. failed' \in BOOLEAN
  BY <1>1 DEF Emit
<1>6. CASE failed' /\ out' = out
  BY <1>1, <1>2, <1>5, <1>6, ReadingOver
<1>7. CASE ~failed' /\ Adds(out, out', f)
  BY <1>1, <1>3, <1>5, <1>7, ForwardedKeeps
<1> QED BY <1>4, <1>6, <1>7

LEMMA EndKeeps ==
  ASSUME IInv, UpstreamEnds
  PROVE  IInv'
<1>1. failed' \in BOOLEAN
  BY DEF IInv, Types, UpstreamEnds, stateVars
<1> QED BY <1>1, ReadingOver DEF UpstreamEnds, stateVars

\* All that is still held is inspected.
LEMMA CloseKeeps ==
  ASSUME IInv, Close
  PROVE  IInv'
<1>1. /\ phase = "closing" /\ phase' = "done"
      /\ UNCHANGED <<declaredTools, findings, sawTool, blocked, out, failed, protocol,
                     tools, toolName, text>>
      /\ inspected' = inspected \cup Unfinished
  BY DEF Close, stateVars
<1>2. Types'
  BY <1>1 DEF IInv, Types
<1>3. AllInspected'
  <2>1. ASSUME NEW n \in DOMAIN out, NEW p \in OwedIn(out, n) PROVE p \in inspected'
    <3>1. p \in inspected \cup text \/ Held(out, tools, n, p)
      BY <1>1, <2>1 DEF IInv, Kept
    <3>2. Held(out, tools, n, p) => p \in Unfinished
      BY DEF Held, Unfinished
    <3>3. text \subseteq Unfinished
      BY DEF Unfinished
    <3>4. p \in inspected \cup Unfinished
      BY <3>1, <3>2, <3>3, Zenon
    <3>5. inspected' = inspected \cup Unfinished
      BY <1>1
    <3> QED BY <3>4, <3>5
  <2> QED BY <1>1, <2>1 DEF AllInspected
<1>4. Live' /\ DeltasSeen' /\ InStep' /\ Kept'
  BY <1>1 DEF Live, DeltasSeen, InStep, Kept
<1>5. ChunksOfOpenAI' /\ OversizedTold'
  BY <1>1 DEF IInv, ChunksOfOpenAI, OversizedTold
<1>6. AllChecked' /\ NamesChecked' /\ BegunChecked'
  BY <1>1 DEF IInv, AllChecked, CheckedIn, NamesChecked, BegunChecked, CheckToolCall
<1> QED BY <1>2, <1>3, <1>4, <1>5, <1>6 DEF IInv

LEMMA StutterKeeps ==
  ASSUME IInv, UNCHANGED vars
  PROVE  IInv'
<1>1. UNCHANGED <<declaredTools, findings, sawTool, blocked, out, failed, protocol, phase,
                  tools, toolName, text, inspected>>
  BY DEF vars, stateVars
<1> QED BY <1>1 DEF IInv, Types, Live, DeltasSeen, InStep, ChunksOfOpenAI, Kept,
     AllInspected, OversizedTold, AllChecked, CheckedIn, NamesChecked, BegunChecked, CheckToolCall

\* The inductive invariant holds of every behaviour.
THEOREM Inductive == Spec => []IInv
<1>1. Init => IInv
  BY InitHolds
<1>2. IInv /\ [Next]_vars => IInv'
  BY ForwardKeeps, EndKeeps, CloseKeeps, StutterKeeps DEF Next
<1> QED BY <1>1, <1>2, PTL DEF Spec

-----------------------------------------------------------------------------
(* Theorems *)

\* When a response is over, all content forwarded in it was inspected, split into
\* frames and mixed however it was, but for the losses that Owed names, and a frame
\* over the cap was reported (anthropic.go:42-79, openai.go:40-101,
\* responses.go:102-168, generic.go:12-22).
THEOREM EverythingInspected == Spec => []ForwardedIsInspected
<1>1. IInv => ForwardedIsInspected
  <2> SUFFICES ASSUME IInv, phase = "done", NEW n \in DOMAIN out
               PROVE  /\ Owed(n) \subseteq inspected
                      /\ out[n].kind = "oversized" => "oversized-sse" \in findings
    BY DEF ForwardedIsInspected
  <2>1. Owed(n) = OwedIn(out, n)
    <3>1. \A k : OpenAt(n, k) <=> OpenIn(out, n, k)
      BY DEF OpenAt, OpenIn, Quiet, QuietIn
    <3>2. \A k : ReopenedAt(n, k) <=> ReopenedIn(out, n, k)
      BY DEF ReopenedAt, ReopenedIn, Quiet, QuietIn
    <3>3. \A k : Streamed(n, k) <=> StreamedIn(out, n, k)
      BY DEF Streamed, StreamedIn, OpenAt, OpenIn, Quiet, QuietIn
    <3> QED BY <3>1, <3>2, <3>3, Zenon DEF Owed, OwedIn
  <2> QED BY <2>1 DEF IInv, AllInspected, OversizedTold
<1> QED BY <1>1, Inductive, PTL

\* When a response is over, every call in it was compared with the declared tools,
\* at its start, at its first mention in a closing frame, or at each new name
\* (anthropic.go:49-53, openai.go:45-54, responses.go:109-153).
THEOREM EveryCallChecked == Spec => []CallsAreChecked
<1>1. IInv => CallsAreChecked
  <2> SUFFICES ASSUME IInv, NEW n \in DOMAIN out
               PROVE  \/ out[n].name = NoName /\ out[n].kind # "chunk"
                      \/ out[n].kind \in {"stop", "listed"} /\ OpenAt(n, out[n].key)
                      \/ CheckToolCall(out[n].name) \subseteq findings
    BY DEF CallsAreChecked
  <2>1. OpenAt(n, out[n].key) <=> OpenIn(out, n, out[n].key)
    BY DEF OpenAt, OpenIn, Quiet, QuietIn
  <2>2. CheckedIn(out, findings, n)
    BY DEF IInv, AllChecked
  <2> QED BY <2>1, <2>2 DEF CheckedIn
<1> QED BY <1>1, Inductive, PTL

\* A client that has gone away is not written to again: while frames are read no
\* write has failed, and the inspectors are of calls only (sse.go:78-140).
THEOREM TypesHold == Spec => [](Types /\ Live)
<1>1. IInv => Types /\ Live
  BY DEF IInv
<1> QED BY <1>1, Inductive, PTL
=============================================================================
