-------------------------- MODULE OpenAIBlockProofs --------------------------
(***************************************************************************)
(* Proofs about OpenAIBlock, for any number of calls, chunks, names and    *)
(* fragments, any upstream, and a client that may go at any write: the     *)
(* held data stays within its cap (TypesHold), the calls a client can see  *)
(* are verified (CallsAreVerified), every piece of text reaches it once    *)
(* (TextIsDelivered), the stream it reads ends cleanly (StreamEndsCleanly) *)
(* and the handler implements CallGuard (ImplementsGuard).                 *)
(*                                                                         *)
(* The properties speak of `out` and `settled`, which the handler never    *)
(* reads: what it writes is `bufChunks`, decided upon by `toolArgs`,       *)
(* `toolName` and `findings`.  The invariant IInv ties these together.     *)
(*  - CallInv: a call under way has been seen and its undeclared name is   *)
(*    reported (Seen); it is unclean exactly if the findings or its own    *)
(*    inspector say so (Followed); the held chunks belong to calls under   *)
(*    way, whose inspectors were given the fragments that are in them, in  *)
(*    their order (Kept); beyond the cap nothing is held (Capped).         *)
(*  - Reported: a dropped call is remembered by droppedTool until it is    *)
(*    reported as blocked.                                                 *)
(*  - InOrder: what an orderly upstream has sent is held or written, its   *)
(*    finish chunk is not held, and no call was written before.            *)
(*  - Open: the stream in the client's hands has not ended while the loop  *)
(*    reads, and has ended once after it, up to the second replacement of  *)
(*    a call over the cap.                                                 *)
(*  - Delivered: every piece of text is written or held, and counted.      *)
(* What TextChunks computes for every list of chunks is proved by          *)
(* induction on its length, in the first-order form of Induct.             *)
(***************************************************************************)
EXTENDS OpenAIBlock, SequenceTheorems, FiniteSetTheorems, WellFoundedInduction, TLAPS

-----------------------------------------------------------------------------
(* Frames *)

OutFrame == Frame \cup {NoteChunk}

ToolPart == {<<e>> : e \in ToolDelta} \cup {NoTool}

LEMMA ChunkIs ==
  ASSUME NEW f \in Chunks
  PROVE  /\ f.kind = "chunk" /\ f.text \in Frag \cup {NoFrag}
         /\ f.finish \in {"", "tool_calls", "stop"}
         /\ HasTool(f) => Tool(f) \in ToolDelta
<1>1. /\ f.kind = "chunk" /\ f.text \in Frag \cup {NoFrag}
      /\ f.finish \in {"", "tool_calls", "stop"} /\ f.tools \in ToolPart
  BY DEF Chunks, ToolPart
<1>2. \A d \in ToolPart : d # NoTool => d[1] \in ToolDelta
  BY DEF ToolPart, NoTool
<1>3. HasTool(f) => Tool(f) \in ToolDelta
  BY <1>1, <1>2 DEF HasTool, Tool
<1> QED BY <1>1, <1>3

LEMMA DeltaIs ==
  ASSUME NEW d \in ToolDelta
  PROVE  d.index \in Index /\ d.name \in Name /\ d.frag \in Frag \cup {NoFrag}
BY DEF ToolDelta

\* What tells the frames apart.
LEMMA FramesDiffer ==
  /\ \A t, d, r : /\ Chunk(t, d, r).kind = "chunk" /\ Chunk(t, d, r).text = t
                  /\ Chunk(t, d, r).tools = d /\ Chunk(t, d, r).finish = r
  /\ Done.kind = "done"
  /\ \A c : Other(c).kind = "other" /\ Other(c).content = c
  /\ NoteChunk.kind = "note"
BY DEF Chunk, Done, Other, NoteChunk

LEMMA FrameIs ==
  ASSUME NEW f \in Frame
  PROVE  /\ f.kind \in {"chunk", "done", "other"}
         /\ f.kind = "chunk" => f \in Chunks
         /\ f.kind = "done" => f = Done
         /\ f = Done => f.kind = "done"
<1>1. CASE f \in Chunks
  BY <1>1, FramesDiffer, ChunkIs
<1>2. CASE f = Done
  BY <1>2, FramesDiffer
<1>3. CASE \E c \in OtherContents : f = Other(c)
  BY <1>3, FramesDiffer
<1> QED BY <1>1, <1>2, <1>3, Zenon DEF Frame

LEMMA ProxyChunks ==
  /\ \A t \in Frag : TextChunk(t) \in Chunks
  /\ FinishChunk("stop") \in Chunks
  /\ \A t : ~HasTool(TextChunk(t)) /\ TextChunk(t).text = t /\ TextChunk(t).finish = ""
            /\ TextChunk(t).kind = "chunk"
  /\ /\ ~HasTool(FinishChunk("stop")) /\ FinishChunk("stop").text = NoFrag
     /\ FinishChunk("stop").finish = "stop" /\ FinishChunk("stop").kind = "chunk"
<1>1. \A t \in Frag : Chunk(t, NoTool, "") \in Chunks
  BY DEF Chunks, Chunk
<1>2. Chunk(NoFrag, NoTool, "stop") \in Chunks
  BY DEF Chunks, Chunk
<1>3. /\ \A t \in Frag : TextChunk(t) \in Chunks
      /\ FinishChunk("stop") \in Chunks
  BY <1>1, <1>2 DEF TextChunk, FinishChunk
<1>4. \A t : ~HasTool(TextChunk(t)) /\ TextChunk(t).text = t /\ TextChunk(t).finish = ""
            /\ TextChunk(t).kind = "chunk"
  <2> TAKE t
  <2>1. PICK f : f = TextChunk(t)
    OBVIOUS
  <2>2. f.kind = "chunk" /\ f.text = t /\ f.tools = NoTool /\ f.finish = ""
    BY <2>1 DEF TextChunk, Chunk
  <2> QED BY <2>1, <2>2 DEF HasTool
<1>5. /\ ~HasTool(FinishChunk("stop")) /\ FinishChunk("stop").text = NoFrag
      /\ FinishChunk("stop").finish = "stop" /\ FinishChunk("stop").kind = "chunk"
  BY FramesDiffer DEF FinishChunk, HasTool
<1> QED BY <1>3, <1>4, <1>5

-----------------------------------------------------------------------------
(* Writing, and judging *)

\* The first k of the frames follow what was written before.
Adds(frames, k) ==
  /\ k \in 0..Len(frames) /\ (failed => k = 0)
  /\ failed' = (failed \/ k < Len(frames))
  /\ out' \in Seq(OutFrame) /\ Len(out') = Len(out) + k
  /\ \A p \in 1..Len(out) : out'[p] = out[p]
  /\ \A j \in 1..k : out'[Len(out) + j] = frames[j]

LEMMA EmitAdds ==
  ASSUME out \in Seq(OutFrame), failed \in BOOLEAN, NEW frames \in Seq(OutFrame),
         Emit(frames)
  PROVE  \E k \in Nat : Adds(frames, k)
<1>1. PICK k \in IF failed THEN {0} ELSE 0..Len(frames) :
        /\ out' = out \o SubSeq(frames, 1, k)
        /\ failed' = (failed \/ k < Len(frames))
  BY DEF Emit
<1>2. k \in 0..Len(frames) /\ Len(frames) \in Nat /\ (failed => k = 0)
  BY <1>1
<1>3. PICK s : s = SubSeq(frames, 1, k)
  OBVIOUS
<1>4. s \in Seq(OutFrame) /\ Len(s) = k /\ \A j \in 1..k : s[j] = frames[j]
  BY <1>2, <1>3
<1>5. out' = out \o s
  BY <1>1, <1>3
<1>6. /\ out' \in Seq(OutFrame) /\ Len(out') = Len(out) + k
      /\ \A p \in 1..Len(out) : out'[p] = out[p]
      /\ \A j \in 1..k : out'[Len(out) + j] = s[j]
  <2>1. out \o s \in Seq(OutFrame) /\ Len(out \o s) = Len(out) + Len(s)
    BY <1>4, ConcatProperties
  <2>2. \A p \in 1..Len(out) : (out \o s)[p] = out[p]
    BY <1>4
  <2>3. \A j \in 1..k : (out \o s)[Len(out) + j] = s[j]
    BY <1>2, <1>4
  <2> QED BY <1>4, <1>5, <2>1, <2>2, <2>3
<1> QED BY <1>1, <1>2, <1>4, <1>6 DEF Adds

LEMMA InspectIs ==
  ASSUME NEW c
  PROVE  Inspect(c) \subseteq Rules /\ (IsHigh(Inspect(c)) <=> Signature(c))
         /\ {"oversized-call", "oversized-sse"} \cap Inspect(c) = {}
<1>1. "rule-medium" \notin HighRules /\ "rule-high" \in HighRules
  BY DEF HighRules
<1> QED BY <1>1 DEF Inspect, IsHigh, Rules

LEMMA CheckIs ==
  ASSUME NEW n
  PROVE  /\ CheckToolCall(n) \subseteq Rules
         /\ IsHigh(CheckToolCall(n)) <=>
              declaredTools = {} \/ n \notin declaredTools \cup {NoName}
         /\ {"oversized-call", "oversized-sse"} \cap CheckToolCall(n) = {}
BY DEF CheckToolCall, HighRules, Rules, IsHigh

LEMMA HighStays ==
  ASSUME NEW a, NEW b, a \subseteq b, IsHigh(a)
  PROVE  IsHigh(b)
BY DEF IsHigh

LEMMA Longer ==
  ASSUME NEW c \in Seq(Frag), NEW g \in Frag
  PROVE  /\ Append(c, g) \in Seq(Frag)
         /\ Signature(c) => Signature(Append(c, g))
         /\ c # <<>> /\ c[Len(c)] = "head" /\ g = "tail" => Signature(Append(c, g))
<1>1. PICK d : d = Append(c, g)
  OBVIOUS
<1>2. /\ d \in Seq(Frag) /\ Len(d) = Len(c) + 1 /\ Len(c) \in Nat
      /\ \A i \in 1..Len(c) : d[i] = c[i]
      /\ d[Len(c) + 1] = g
  BY <1>1
<1>3. Signature(c) => Signature(d)
  BY <1>2 DEF Signature
<1>4. ASSUME c # <<>>, c[Len(c)] = "head", g = "tail" PROVE Signature(d)
  <2>1. Len(c) \in 1..(Len(d) - 1)
    BY <1>2, <1>4
  <2>2. d[Len(c)] = "head" /\ d[Len(c) + 1] = "tail"
    BY <1>2, <1>4, <2>1
  <2> QED BY <2>1, <2>2 DEF Signature
<1> QED BY <1>1, <1>2, <1>3, <1>4

-----------------------------------------------------------------------------
(* Induction, and counting *)

LEMMA Least ==
  ASSUME NEW T \in SUBSET Nat, T # {}
  PROVE  \E x \in T : \A y \in T : x <= y
<1> DEFINE R == {ss \in Nat \X Nat : ss[1] < ss[2]}
<1>1. IsWellFoundedOn(R, Nat)
  BY NatLessThanWellFounded DEF OpToRel
<1> HIDE DEF R
<1>2. PICK x \in T : \A y \in T : ~(<<y, x>> \in R)
  BY <1>1, WFMin
<1>3. \A y \in T : ~(y < x)
  BY <1>2 DEF R
<1> QED BY <1>3

\* Induction on the natural numbers, over the set of those that satisfy the claim.
LEMMA Induct ==
  ASSUME NEW S, 0 \in S, \A n \in Nat : n \in S => n + 1 \in S
  PROVE  Nat \subseteq S
<1> SUFFICES ASSUME ~(Nat \subseteq S) PROVE FALSE
  OBVIOUS
<1> DEFINE T == {n \in Nat : n \notin S}
<1>1. PICK x \in T : \A y \in T : x <= y
  BY Least
<1>2. x # 0 /\ x \in Nat
  OBVIOUS
<1>3. x - 1 \in Nat /\ x - 1 \notin T
  BY <1>1, <1>2
<1> QED BY <1>1, <1>2, <1>3

\* How often a fragment is the text of a chunk among the first n frames.
HasText(f, g)  == f.kind = "chunk" /\ f.text = g
Texts(s, g, n) == Cardinality({p \in 1..n : HasText(s[p], g)})

LEMMA TextsStep ==
  ASSUME NEW s, NEW g
  PROVE  /\ Texts(s, g, 0) = 0
         /\ \A n \in Nat : /\ Texts(s, g, n) \in Nat
                           /\ Texts(s, g, n + 1) = IF HasText(s[n + 1], g)
                                                   THEN Texts(s, g, n) + 1 ELSE Texts(s, g, n)
<1> DEFINE Q(n) == {p \in 1..n : HasText(s[p], g)}
<1>1. Q(0) = {}
  OBVIOUS
<1>2. \A n \in Nat : IsFiniteSet(Q(n)) /\ Cardinality(Q(n)) \in Nat
  <2> TAKE n \in Nat
  <2>1. IsFiniteSet(1..n)
    BY FS_Interval
  <2> QED BY <2>1, FS_Subset, FS_CardinalityType
<1>3. ASSUME NEW n \in Nat
      PROVE  Cardinality(Q(n + 1)) = IF HasText(s[n + 1], g)
                                       THEN Cardinality(Q(n)) + 1 ELSE Cardinality(Q(n))
  <2>1. n + 1 \notin Q(n)
    OBVIOUS
  <2>2. CASE HasText(s[n + 1], g)
    <3>1. Q(n + 1) = Q(n) \cup {n + 1}
      BY <2>2
    <3> HIDE DEF Q
    <3>2. Cardinality(Q(n) \cup {n + 1}) = Cardinality(Q(n)) + 1
      BY <1>2, <2>1, FS_AddElement
    <3> QED BY <2>2, <3>1, <3>2
  <2>3. CASE ~HasText(s[n + 1], g)
    <3>1. Q(n + 1) = Q(n)
      BY <2>3
    <3> HIDE DEF Q
    <3> QED BY <1>2, <2>3, <3>1
  <2> QED BY <2>2, <2>3
<1> HIDE DEF Q
<1>4. \A n : Texts(s, g, n) = Cardinality(Q(n))
  BY DEF Texts, Q
<1> QED BY <1>1, <1>2, <1>3, <1>4, FS_EmptySet

\* Frames written after others.
Follows(s, m, t, k, u) ==
  /\ \A p \in 1..m : u[p] = s[p]
  /\ \A j \in 1..k : u[m + j] = t[j]

LEMMA TextsAdded ==
  ASSUME NEW s, NEW t, NEW u, NEW g, NEW m \in Nat, NEW k \in Nat, Follows(s, m, t, k, u)
  PROVE  Texts(u, g, m + k) = Texts(s, g, m) + Texts(t, g, k)
<1> DEFINE S == {j \in Nat : j <= k => Texts(u, g, m + j) = Texts(s, g, m) + Texts(t, g, j)}
<1>1. Texts(u, g, m) = Texts(s, g, m)
  <2>1. {p \in 1..m : HasText(u[p], g)} = {p \in 1..m : HasText(s[p], g)}
    BY DEF Follows
  <2> QED BY <2>1 DEF Texts
<1>2. 0 \in S
  <2>1. m + 0 = m /\ Texts(t, g, 0) = 0 /\ Texts(s, g, m) \in Nat
    <3>1. Texts(t, g, 0) = 0
      BY TextsStep, Zenon
    <3>2. Texts(s, g, m) \in Nat
      BY TextsStep, Zenon
    <3> QED BY <3>1, <3>2
  <2>2. Texts(u, g, m + 0) = Texts(s, g, m) + Texts(t, g, 0)
    BY <1>1, <2>1
  <2> QED BY <2>2
<1>3. ASSUME NEW j \in Nat, j \in S PROVE j + 1 \in S
  <2> SUFFICES ASSUME j + 1 <= k
               PROVE  Texts(u, g, m + (j + 1)) = Texts(s, g, m) + Texts(t, g, j + 1)
    OBVIOUS
  <2>1. u[m + j + 1] = t[j + 1]
    <3>1. j + 1 \in 1..k /\ m + (j + 1) = m + j + 1
      OBVIOUS
    <3> QED BY <3>1 DEF Follows
  <2>2. Texts(u, g, m + j) = Texts(s, g, m) + Texts(t, g, j)
    BY <1>3
  <2>3. Texts(u, g, m + j + 1) = IF HasText(u[m + j + 1], g)
                                 THEN Texts(u, g, m + j) + 1 ELSE Texts(u, g, m + j)
    <3>1. PICK n \in Nat : n = m + j
      OBVIOUS
    <3>2. Texts(u, g, n + 1) = IF HasText(u[n + 1], g)
                               THEN Texts(u, g, n) + 1 ELSE Texts(u, g, n)
      BY TextsStep
    <3> QED BY <3>1, <3>2
  <2>4. Texts(t, g, j + 1) = IF HasText(t[j + 1], g)
                             THEN Texts(t, g, j) + 1 ELSE Texts(t, g, j)
    BY TextsStep
  <2>5. Texts(s, g, m) \in Nat /\ Texts(t, g, j) \in Nat
    BY TextsStep
  <2>6. m + (j + 1) = m + j + 1
    OBVIOUS
  <2> HIDE DEF S
  <2> QED BY <2>1, <2>2, <2>3, <2>4, <2>5, <2>6
<1> HIDE DEF S
<1>4. Nat \subseteq S
  BY <1>2, <1>3, Induct
<1> QED BY <1>4 DEF S

-----------------------------------------------------------------------------
(* The text of the chunks that are replaced *)

TextStep(fs, F, k) ==
  IF k = 0 THEN <<>>
  ELSE IF fs[k].text = NoFrag THEN F[k - 1] ELSE Append(F[k - 1], TextChunk(fs[k].text))

UpTo(fs, F, n) == F = [k \in 0..n |-> TextStep(fs, F, k)]

LEMMA UpToExists ==
  ASSUME NEW fs
  PROVE  \A n \in Nat : \E F : UpTo(fs, F, n)
<1> DEFINE S == {n \in Nat : \E F : UpTo(fs, F, n)}
<1>1. 0 \in S
  <2> DEFINE F == [k \in 0..0 |-> <<>>]
  <2>1. UpTo(fs, F, 0)
    BY DEF UpTo, TextStep
  <2> QED BY <2>1
<1>2. ASSUME NEW n \in Nat, n \in S PROVE n + 1 \in S
  <2>1. PICK F : UpTo(fs, F, n)
    BY <1>2
  <2> DEFINE G == [k \in 0..(n + 1) |-> IF k = n + 1 THEN TextStep(fs, F, n + 1) ELSE F[k]]
  <2>2. \A k \in 0..n : F[k] = TextStep(fs, F, k)
    BY <2>1 DEF UpTo
  <2>3. \A k \in 0..(n + 1) : G[k] = TextStep(fs, G, k)
    BY <2>2 DEF TextStep
  <2>4. UpTo(fs, G, n + 1)
    BY <2>3 DEF UpTo
  <2> QED BY <2>4
<1> HIDE DEF S
<1>3. Nat \subseteq S
  BY <1>1, <1>2, Induct
<1> QED BY <1>3 DEF S

LEMMA TextChunksUpTo ==
  ASSUME NEW fs, Len(fs) \in Nat
  PROVE  \E F : UpTo(fs, F, Len(fs)) /\ TextChunks(fs) = F[Len(fs)]
<1> DEFINE F == CHOOSE f : UpTo(fs, f, Len(fs))
<1>1. UpTo(fs, F, Len(fs))
  BY UpToExists
<1>2. TextChunks(fs) = F[Len(fs)]
  BY Zenon DEF TextChunks, UpTo, TextStep
<1> QED BY <1>1, <1>2

TextFrames == {TextChunk(t) : t \in Frag}

LEMMA TextFrameIs ==
  ASSUME NEW f \in TextFrames
  PROVE  /\ f \in Chunks /\ ~HasTool(f) /\ f.kind = "chunk" /\ f.finish = "" /\ f.text \in Frag
         /\ f = TextChunk(f.text)
BY ProxyChunks DEF TextFrames

\* Every piece of text in the chunks is kept, as a chunk of its own.
LEMMA TextChunksKeep ==
  ASSUME NEW fs \in Seq(Chunks)
  PROVE  /\ TextChunks(fs) \in Seq(TextFrames)
         /\ \A g \in Frag : Texts(TextChunks(fs), g, Len(TextChunks(fs))) = Texts(fs, g, Len(fs))
<1>1. PICK F : UpTo(fs, F, Len(fs)) /\ TextChunks(fs) = F[Len(fs)]
  BY TextChunksUpTo
<1>2. \A k \in 0..Len(fs) : F[k] = TextStep(fs, F, k)
  BY <1>1 DEF UpTo
<1> DEFINE S == {k \in Nat : k <= Len(fs) =>
                   /\ F[k] \in Seq(TextFrames)
                   /\ \A g \in Frag : Texts(F[k], g, Len(F[k])) = Texts(fs, g, k)}
<1>3. 0 \in S
  <2>1. F[0] = <<>>
    BY <1>2 DEF TextStep
  <2>2. ASSUME NEW g \in Frag PROVE Texts(F[0], g, Len(F[0])) = Texts(fs, g, 0)
    <3>1. Texts(F[0], g, 0) = 0 /\ Texts(fs, g, 0) = 0
      BY TextsStep, Zenon
    <3> QED BY <2>1, <3>1
  <2>3. <<>> \in Seq(TextFrames)
    OBVIOUS
  <2> QED BY <2>1, <2>2, <2>3
<1>4. ASSUME NEW k \in Nat, k \in S PROVE k + 1 \in S
  <2> SUFFICES ASSUME k + 1 <= Len(fs)
               PROVE  /\ F[k + 1] \in Seq(TextFrames)
                      /\ \A g \in Frag : Texts(F[k + 1], g, Len(F[k + 1])) = Texts(fs, g, k + 1)
    OBVIOUS
  <2>1. PICK s : s = F[k]
    OBVIOUS
  <2>2. s \in Seq(TextFrames) /\ \A g \in Frag : Texts(s, g, Len(s)) = Texts(fs, g, k)
    BY <1>4, <2>1
  <2> HIDE DEF S
  <2>3. PICK f : f = fs[k + 1]
    OBVIOUS
  <2>4. f \in Chunks
    BY <2>3
  <2>5. F[k + 1] = IF f.text = NoFrag THEN s ELSE Append(s, TextChunk(f.text))
    <3>1. F[k + 1] = TextStep(fs, F, k + 1)
      BY <1>2
    <3>2. (k + 1) - 1 = k /\ k + 1 # 0
      OBVIOUS
    <3> QED BY <2>1, <2>3, <3>1, <3>2 DEF TextStep
  <2>6. ASSUME NEW g \in Frag PROVE Texts(fs, g, k + 1) = IF f.text = g THEN Texts(fs, g, k) + 1
                               ELSE Texts(fs, g, k)
    <3>1. HasText(f, g) <=> f.text = g
      BY <2>4, ChunkIs DEF HasText
    <3>2. Texts(fs, g, k + 1) = IF HasText(fs[k + 1], g)
                              THEN Texts(fs, g, k) + 1 ELSE Texts(fs, g, k)
      BY TextsStep
    <3> QED BY <2>3, <3>1, <3>2
  <2>7. \A g \in Frag : Texts(fs, g, k) \in Nat
    BY TextsStep
  <2>8. CASE f.text = NoFrag
    <3>1. \A g \in Frag : f.text # g
      BY <2>8, FragAssumption
    <3> QED BY <2>2, <2>5, <2>6, <2>7, <2>8, <3>1
  <2>9. CASE f.text # NoFrag
    <3>1. f.text \in Frag
      BY <2>4, <2>9, ChunkIs
    <3>2. PICK e : e = TextChunk(f.text)
      OBVIOUS
    <3>3. e \in TextFrames /\ e.kind = "chunk" /\ e.text = f.text
      BY <3>1, <3>2, ProxyChunks DEF TextFrames
    <3>4. PICK u : u = Append(s, e)
      OBVIOUS
    <3>5. /\ u \in Seq(TextFrames) /\ Len(u) = Len(s) + 1 /\ u[Len(s) + 1] = e
          /\ \A p \in 1..Len(s) : u[p] = s[p]
      BY <2>2, <3>3, <3>4
    <3>6. ASSUME NEW g \in Frag PROVE Texts(u, g, Len(u)) = Texts(fs, g, k + 1)
      <4>1. Texts(u, g, Len(s) + 1) = IF HasText(u[Len(s) + 1], g)
                                      THEN Texts(u, g, Len(s)) + 1 ELSE Texts(u, g, Len(s))
        <5>1. PICK n \in Nat : n = Len(s)
          BY <2>2
        <5>2. Texts(u, g, n + 1) = IF HasText(u[n + 1], g) THEN Texts(u, g, n) + 1
                                   ELSE Texts(u, g, n)
          BY TextsStep
        <5> QED BY <5>1, <5>2
      <4>2. Texts(u, g, Len(s)) = Texts(s, g, Len(s))
        <5>1. {p \in 1..Len(s) : HasText(u[p], g)} = {p \in 1..Len(s) : HasText(s[p], g)}
          BY <3>5
        <5> QED BY <5>1 DEF Texts
      <4>3. HasText(u[Len(s) + 1], g) <=> f.text = g
        BY <3>3, <3>5 DEF HasText
      <4> QED BY <2>2, <2>6, <3>5, <4>1, <4>2, <4>3
    <3>7. F[k + 1] = u
      BY <2>5, <2>9, <3>2, <3>4
    <3> QED BY <3>5, <3>6, <3>7
  <2> QED BY <2>8, <2>9
<1> HIDE DEF S
<1>5. Nat \subseteq S
  BY <1>3, <1>4, Induct
<1>6. Len(fs) \in S
  BY <1>5
<1> QED BY <1>1, <1>6 DEF S

-----------------------------------------------------------------------------
(* The invariant *)

Inspector  == [live : BOOLEAN, pending : Seq(Frag), found : SUBSET Rules]
HeldCall   == [clean : BOOLEAN, args : Seq(Frag)]
Fate       == [clean : BOOLEAN, fate : {"sent", "dropped"}]
Resolution == UNION {[S -> Fate] : S \in SUBSET Index}

CallsTyped(calls) ==
  DOMAIN calls \subseteq Index /\ \A i \in DOMAIN calls : calls[i] \in HeldCall

Upstreams ==
  [stage : {"chunks", "finished", "done"}, opened : SUBSET Index, sent : Nat,
   orderly : BOOLEAN]

TypeOK ==
  /\ declaredTools \subseteq ToolName /\ findings \subseteq Rules
  /\ sawTool \in BOOLEAN /\ blocked \in BOOLEAN /\ failed \in BOOLEAN
  /\ out \in Seq(OutFrame)
  /\ phase \in {"reading", "closing", "done"}
  /\ toolArgs \in [Index -> Inspector] /\ toolName \in [Index -> Name]
  /\ content \in Seq(Frag)
  /\ oversized \in BOOLEAN /\ droppedTool \in BOOLEAN
  /\ bufChunks \in Seq(Chunks) /\ bufBytes \in 0..MaxToolCallBytes
  /\ upstream \in Upstreams
  /\ CallsTyped(heldCalls) /\ settled \in Seq(Resolution)

\* Argument fragments of call i in the chunks r, and two with no other between.
ArgIn(r, i, q) ==
  q \in DOMAIN r /\ HasTool(r[q]) /\ Tool(r[q]).index = i /\ Tool(r[q]).frag # NoFrag
NextIn(r, i, p, q) ==
  /\ ArgIn(r, i, p) /\ ArgIn(r, i, q) /\ p < q
  /\ \A k \in (p + 1)..(q - 1) : ~ArgIn(r, i, k)
LastIn(r, i, q) == ArgIn(r, i, q) /\ \A k \in (q + 1)..Len(r) : ~ArgIn(r, i, k)

\* The inspector of call i was given the fragments in r, in their order.
Given(r, i, c) ==
  /\ \A p, q \in DOMAIN r :
       NextIn(r, i, p, q) /\ Tool(r[p]).frag = "head" /\ Tool(r[q]).frag = "tail"
         => Signature(c)
  /\ \A q \in DOMAIN r : LastIn(r, i, q) => c # <<>> /\ Tool(r[q]).frag = c[Len(c)]

Acceptable(name) == name \in declaredTools \cup {NoName}

\* A call that is under way was seen, and a name that was not declared reported.
Seen(args, names, fs, saw) ==
  \A i \in Index :
    /\ names[i] # NoName \/ args[i].live => saw
    /\ ~args[i].live => args[i].pending = <<>>
    /\ Acceptable(names[i]) \/ IsHigh(fs)

\* What is known of a call is what its inspector holds, or the size is exceeded.
Followed(args, fs, saw, over, calls) ==
  /\ \A i \in DOMAIN calls :
       /\ saw
       /\ ~over => args[i].pending = calls[i].args
       /\ ~calls[i].clean => \/ over \/ declaredTools = {} \/ IsHigh(fs)
                             \/ Signature(calls[i].args)
       /\ over => ~calls[i].clean
  /\ \A i \in Index \ DOMAIN calls : ~over => args[i].pending = <<>>

\* Past the cap nothing is held.
Capped(saw, over, chunks) == over => chunks = <<>> /\ saw

\* What is held belongs to the calls, and all of it was inspected.
Kept(args, fs, over, chunks, calls) ==
  /\ DOMAIN calls # {} /\ ~over => chunks # <<>>
  /\ \A k \in DOMAIN chunks :
       /\ HasTool(chunks[k]) /\ Tool(chunks[k]).index \in DOMAIN calls
       /\ Acceptable(Tool(chunks[k]).name) \/ IsHigh(fs)
  /\ \A i \in Index : Given(chunks, i, args[i].pending)

\* No undeclared name, and no signature, in chunks that are sent.
Sendable(chunks) ==
  /\ \A k \in DOMAIN chunks : declaredTools # {} /\ Acceptable(Tool(chunks[k]).name)
  /\ \A i \in Index : \A p, q \in DOMAIN chunks :
       ~(NextIn(chunks, i, p, q) /\ Tool(chunks[p]).frag = "head"
           /\ Tool(chunks[q]).frag = "tail")

CallInv ==
  /\ TypeOK
  /\ phase = "reading" => ~failed
  /\ Seen(toolArgs, toolName, findings, sawTool)
  /\ Followed(toolArgs, findings, sawTool, oversized, heldCalls)
  /\ Capped(sawTool, oversized, bufChunks)
  /\ ~failed => Kept(toolArgs, findings, oversized, bufChunks, heldCalls)

\* A dropped call is remembered, or the response is blocked already.
IsDropped ==
  \E b \in DOMAIN settled : \E i \in DOMAIN settled[b] : settled[b][i].fate = "dropped"
Reported  == IsDropped => droppedTool \/ blocked

\* Of an orderly upstream: a call comes in chunks of its own before the one finish
\* chunk, after which nothing is held for a client that is still there.
IsTool(p) == IsChunk(p) /\ HasTool(out[p])

Unfinished(chunks) == \A k \in DOMAIN chunks : chunks[k].finish = ""

InOrder ==
  upstream.orderly =>
    /\ Unfinished(bufChunks)
    /\ upstream.stage # "chunks" /\ ~failed => bufChunks = <<>>
    /\ bufChunks # <<>> \/ (upstream.stage = "chunks" /\ phase = "reading") =>
         failed \/ \A p \in DOMAIN out : ~IsTool(p)

NothingOversized == findings \cap {"oversized-call", "oversized-sse"} = {}

\* Frames without an end, frames before [DONE], and frames that end as they should.
Ends(f)    == f.kind = "chunk" /\ f.finish # ""
Endless(s) == \A p \in DOMAIN s : ~Ends(s[p]) /\ s[p] # NoteChunk
Running(s) == \A p \in DOMAIN s : s[p] # Done
Clean(s)   ==
  /\ \A p, q \in DOMAIN s : Ends(s[p]) /\ Ends(s[q]) => p = q
  /\ \A p, q \in DOMAIN s :
       s[p] = NoteChunk /\ s[q].kind = "chunk" => s[q].finish # "tool_calls"
  /\ \A p \in DOMAIN s : s[p] = Done => p = Len(s)

\* No finish chunk asks for tool calls.
Toolless(s) == \A q \in DOMAIN s : s[q].kind = "chunk" => s[q].finish # "tool_calls"

NoLineOver == "oversized-sse" \notin findings

Open ==
  upstream.orderly /\ NoLineOver =>
    /\ upstream.stage = "chunks" /\ ~failed /\ phase # "done" => Endless(out)
    /\ upstream.stage # "done" => Running(out)
    /\ oversized => Toolless(out)
    /\ IF oversized /\ phase = "done"
       THEN Clean(out) \/ \E n \in 0..Len(out) : CleanUpTo(n) /\ ReplacedAgain(n)
       ELSE Clean(out)

\* Every piece of text is written or held.
Count(s, g) == Texts(s, g, Len(s))

Delivered ==
  /\ ~failed /\ ~oversized /\ NothingOversized =>
       \A g \in Frag : Count(out, g) + Count(bufChunks, g) = SentAs(g)
  /\ phase = "done" =>
       /\ oversized => "oversized-call" \in findings
       /\ ~failed => bufChunks = <<>>

IInv ==
  /\ CallInv /\ Reported
  /\ InOrder /\ SentCallsVerified
  /\ Open
  /\ Delivered

-----------------------------------------------------------------------------
(* A chunk is taken in *)

\* What the handler holds after a chunk.
Takes(f, n, args, names, fs, saw, over, chunks, calls) ==
  /\ args = ArgsAfter(f) /\ names = ToolNameAfter(f)
  /\ fs = findings \cup NameFindings(f) /\ saw = SawToolAfter(f)
  /\ over = OverAfter(f, n) /\ chunks = ChunksAfter(f, n)
  /\ calls = Opened(f, over)

LEMMA TextTaken ==
  ASSUME NEW f, NEW n, NEW args, NEW names, NEW fs, NEW saw, NEW over, NEW chunks,
         NEW calls, Takes(f, n, args, names, fs, saw, over, chunks, calls), ~HasTool(f),
         TypeOK
  PROVE  /\ args = toolArgs /\ names = toolName /\ fs = findings /\ saw = sawTool
         /\ over = oversized /\ chunks = bufChunks /\ calls = heldCalls
<1>1. ~Exceeds(f, n) /\ ~Buffers(f, n)
  BY DEF Exceeds, Buffers
<1>2. args = toolArgs /\ names = toolName /\ calls = heldCalls
  BY DEF Takes, ArgsAfter, ToolNameAfter, Opened
<1>3. fs = findings /\ saw = sawTool
  BY DEF Takes, NameFindings, SawToolAfter, TypeOK
<1>4. over = oversized /\ chunks = bufChunks
  BY <1>1 DEF Takes, OverAfter, ChunksAfter, TypeOK
<1> QED BY <1>2, <1>3, <1>4

\* What a chunk with a tool delta adds.
ToolTaken(d, args, names, fs, saw, over) ==
  /\ args = IF oversized THEN toolArgs ELSE WriteArgs(d)
  /\ names = IF d.name # NoName THEN [toolName EXCEPT ![d.index] = d.name] ELSE toolName
  /\ fs = findings \cup IF Checks(d) THEN CheckToolCall(d.name) ELSE {}
  /\ saw = (sawTool \/ Checks(d))
  /\ oversized => over

LEMMA ToolTakenIs ==
  ASSUME NEW f \in Chunks, NEW n \in Sizes, NEW args, NEW names, NEW fs, NEW saw, NEW over,
         NEW chunks, NEW calls, Takes(f, n, args, names, fs, saw, over, chunks, calls),
         HasTool(f), TypeOK
  PROVE  /\ ToolTaken(Tool(f), args, names, fs, saw, over)
         /\ over \in BOOLEAN
         /\ chunks = IF over THEN IF oversized THEN bufChunks ELSE <<>>
                     ELSE Append(bufChunks, f)
         /\ calls = Opened(f, over)
<1>1. args = IF oversized THEN toolArgs ELSE WriteArgs(Tool(f))
  BY DEF Takes, ArgsAfter
<1>2. /\ names = IF Tool(f).name # NoName
                 THEN [toolName EXCEPT ![Tool(f).index] = Tool(f).name] ELSE toolName
      /\ fs = findings \cup IF Checks(Tool(f)) THEN CheckToolCall(Tool(f).name) ELSE {}
  BY DEF Takes, ToolNameAfter, NameFindings
<1>3. saw = (sawTool \/ Checks(Tool(f)))
  BY DEF Takes, SawToolAfter
<1>4. over = (oversized \/ Exceeds(f, n)) /\ over \in BOOLEAN
  BY DEF Takes, OverAfter, Exceeds
<1>5. Exceeds(f, n) => ~oversized
  BY DEF Exceeds
<1>6. chunks = IF Exceeds(f, n) THEN <<>>
               ELSE IF HasTool(f) /\ ~over THEN Append(bufChunks, f) ELSE bufChunks
  BY DEF Takes, ChunksAfter, Buffers
<1>7. chunks = IF over THEN IF oversized THEN bufChunks ELSE <<>> ELSE Append(bufChunks, f)
  <2>1. CASE Exceeds(f, n)
    BY <1>4, <1>5, <1>6, <2>1
  <2>2. CASE ~Exceeds(f, n)
    BY <1>4, <1>6, <2>2
  <2> QED BY <2>1, <2>2
<1>8. calls = Opened(f, over)
  BY DEF Takes
<1> QED BY <1>1, <1>2, <1>3, <1>4, <1>7, <1>8 DEF ToolTaken

\* The inspector of one call after its fragment.
LEMMA Written ==
  ASSUME TypeOK, Seen(toolArgs, toolName, findings, sawTool), NEW d \in ToolDelta
  PROVE  /\ WriteArgs(d) \in [Index -> Inspector]
         /\ WriteArgs(d)[d.index].live
         /\ WriteArgs(d)[d.index].pending =
              IF d.frag = NoFrag THEN toolArgs[d.index].pending
              ELSE Append(toolArgs[d.index].pending, d.frag)
         /\ \A i \in Index \ {d.index} : WriteArgs(d)[i] = toolArgs[i]
<1>1. PICK si : si = IF toolArgs[d.index].live THEN toolArgs[d.index] ELSE NewInspector
  OBVIOUS
<1>2. d.index \in Index /\ toolArgs[d.index] \in Inspector /\ d.frag \in Frag \cup {NoFrag}
  BY DeltaIs DEF TypeOK
<1>3. NewInspector \in Inspector /\ NewInspector.live /\ NewInspector.pending = <<>>
  BY DEF NewInspector, Inspector
<1>4. si \in Inspector /\ si.live
  BY <1>1, <1>2, <1>3
<1>5. si.pending = toolArgs[d.index].pending
  BY <1>1, <1>2, <1>3 DEF Seen
<1>6. PICK sj : sj = IF d.frag = NoFrag THEN si
                     ELSE [si EXCEPT !.pending = Append(si.pending, d.frag)]
  OBVIOUS
<1>7. si.pending \in Seq(Frag)
  BY <1>4 DEF Inspector
<1>8. /\ sj \in Inspector /\ sj.live
      /\ sj.pending = IF d.frag = NoFrag THEN si.pending ELSE Append(si.pending, d.frag)
  <2>1. CASE d.frag = NoFrag
    BY <1>4, <1>6, <2>1
  <2>2. CASE d.frag # NoFrag
    <3>1. Append(si.pending, d.frag) \in Seq(Frag)
      BY <1>2, <1>7, <2>2, Longer
    <3> QED BY <1>4, <1>6, <2>2, <3>1 DEF Inspector
  <2> QED BY <2>1, <2>2
<1>9. WriteArgs(d) = [toolArgs EXCEPT ![d.index] = sj]
  BY <1>1, <1>6, Zenon DEF WriteArgs
<1>10. PICK w : w = WriteArgs(d)
  OBVIOUS
<1>11. /\ w \in [Index -> Inspector] /\ w[d.index] = sj
       /\ \A i \in Index \ {d.index} : w[i] = toolArgs[i]
  BY <1>2, <1>8, <1>9, <1>10 DEF TypeOK
<1> QED BY <1>5, <1>8, <1>10, <1>11

\* A delta that is not checked belongs to a call that is under way.
LEMMA SeenTaken ==
  ASSUME TypeOK, Seen(toolArgs, toolName, findings, sawTool), NEW d \in ToolDelta,
         NEW args, NEW names, NEW fs, NEW saw, NEW over,
         ToolTaken(d, args, names, fs, saw, over), Capped(sawTool, oversized, bufChunks)
  PROVE  /\ args \in [Index -> Inspector] /\ names \in [Index -> Name]
         /\ fs \subseteq Rules /\ findings \subseteq fs /\ saw
         /\ Acceptable(d.name) \/ IsHigh(fs)
         /\ Seen(args, names, fs, saw)
         /\ NothingOversized => fs \cap {"oversized-call", "oversized-sse"} = {}
<1>1. d.index \in Index /\ d.name \in Name
  BY DeltaIs
<1>2. args \in [Index -> Inspector]
  BY Written DEF ToolTaken, TypeOK
<1>3. names \in [Index -> Name]
  BY <1>1 DEF ToolTaken, TypeOK
<1>4. CheckToolCall(d.name) \subseteq Rules
  BY CheckIs
<1>5. fs \subseteq Rules /\ findings \subseteq fs
  BY <1>4 DEF ToolTaken, TypeOK
<1>6. saw
  <2>1. CASE Checks(d)
    BY <2>1 DEF ToolTaken
  <2>2. CASE ~Checks(d)
    <3>1. toolName[d.index] # NoName \/ toolArgs[d.index].live
      BY <2>2 DEF Checks
    <3> QED BY <1>1, <3>1 DEF Seen, ToolTaken
  <2> QED BY <2>1, <2>2
<1>7. Acceptable(d.name) \/ IsHigh(fs)
  <2>1. CASE Checks(d)
    <3>1. CheckToolCall(d.name) \subseteq fs
      BY <2>1 DEF ToolTaken
    <3>2. IsHigh(CheckToolCall(d.name)) \/ Acceptable(d.name)
      BY CheckIs DEF Acceptable
    <3> QED BY <3>1, <3>2, HighStays
  <2>2. CASE ~Checks(d)
    <3>1. d.name = NoName \/ d.name = toolName[d.index]
      BY <2>2 DEF Checks
    <3>2. Acceptable(toolName[d.index]) \/ IsHigh(findings)
      BY <1>1 DEF Seen
    <3>3. Acceptable(NoName)
      BY DEF Acceptable
    <3> QED BY <1>5, <3>1, <3>2, <3>3, HighStays
  <2> QED BY <2>1, <2>2
<1>8. ASSUME NEW i \in Index
      PROVE  /\ ~args[i].live => args[i].pending = <<>>
             /\ Acceptable(names[i]) \/ IsHigh(fs)
  <2>1. /\ ~toolArgs[i].live => toolArgs[i].pending = <<>>
        /\ Acceptable(toolName[i]) \/ IsHigh(fs)
    BY <1>5, HighStays DEF Seen
  <2>2. ~args[i].live => args[i].pending = <<>>
    BY <2>1, Written DEF ToolTaken
  <2>3. names[i] = toolName[i] \/ names[i] = d.name
    BY <1>1 DEF ToolTaken, TypeOK
  <2> QED BY <1>7, <2>1, <2>2, <2>3
<1>9. Seen(args, names, fs, saw)
  BY <1>6, <1>8 DEF Seen
<1>10. NothingOversized => fs \cap {"oversized-call", "oversized-sse"} = {}
  BY CheckIs DEF ToolTaken, NothingOversized
<1> QED BY <1>2, <1>3, <1>5, <1>6, <1>7, <1>9, <1>10

\* What a call has received before the delta, and after it.
CallOf(i)     == IF i \in DOMAIN heldCalls THEN heldCalls[i] ELSE NoCall
ArgsWith(d)   == IF d.frag = NoFrag THEN CallOf(d.index).args
                 ELSE Append(CallOf(d.index).args, d.frag)
CleanWith(d, over) ==
  /\ CallOf(d.index).clean /\ ~over /\ ~Signature(ArgsWith(d))
  /\ declaredTools # {} /\ Acceptable(d.name)

LEMMA OpenedDomain ==
  ASSUME NEW f, HasTool(f), NEW over
  PROVE  DOMAIN Opened(f, over) = DOMAIN heldCalls \cup {Tool(f).index}
BY DEF Opened

LEMMA OpenedIs ==
  ASSUME TypeOK, NEW f \in Chunks, HasTool(f), NEW over \in BOOLEAN,
         NEW calls, calls = Opened(f, over), NEW d, d = Tool(f)
  PROVE  /\ DOMAIN calls = DOMAIN heldCalls \cup {d.index}
         /\ CallsTyped(calls)
         /\ calls[d.index].args = ArgsWith(d)
         /\ calls[d.index].clean <=> CleanWith(d, over)
         /\ \A i \in DOMAIN heldCalls \ {d.index} :
              /\ calls[i].args = heldCalls[i].args
              /\ calls[i].clean <=> heldCalls[i].clean /\ ~over
<1>1. PICK dd : dd = d
  OBVIOUS
<1>2. PICK cc : cc = calls
  OBVIOUS
<1>3. dd \in ToolDelta /\ dd.index \in Index /\ dd.frag \in Frag \cup {NoFrag}
  BY <1>1, ChunkIs, DeltaIs
<1>4. NoCall \in HeldCall
  BY DEF NoCall, HeldCall
<1>5. CallOf(dd.index) \in HeldCall
  BY <1>4 DEF CallOf, TypeOK, CallsTyped
<1>6. ArgsWith(dd) \in Seq(Frag)
  <2>1. CallOf(dd.index).args \in Seq(Frag)
    BY <1>5 DEF HeldCall
  <2> QED BY <1>3, <2>1, Longer DEF ArgsWith
<1>7. PICK b : b = CleanWith(dd, over)
  OBVIOUS
<1>8. b \in BOOLEAN
  BY <1>5, <1>7 DEF CleanWith, HeldCall
<1> DEFINE new == [clean |-> b, args |-> ArgsWith(dd)]
<1>9. cc = [i \in DOMAIN heldCalls \cup {dd.index} |->
              LET e == IF i = dd.index THEN new ELSE heldCalls[i]
              IN [e EXCEPT !.clean = @ /\ ~over]]
  <2>1. b = /\ CallOf(dd.index).clean /\ ~over /\ ~Signature(ArgsWith(dd))
            /\ declaredTools # {}
            /\ dd.name \in declaredTools \cup {NoName}
    BY <1>7 DEF CleanWith, Acceptable
  <2> QED BY <1>1, <1>2, <2>1, Zenon DEF Opened, CallOf, ArgsWith
<1>10. DOMAIN cc = DOMAIN heldCalls \cup {dd.index}
  BY <1>9
<1>11. cc[dd.index].args = ArgsWith(dd) /\ cc[dd.index].clean = (b /\ ~over)
       /\ cc[dd.index] \in HeldCall
  <2>1. PICK e : e = new
    OBVIOUS
  <2>2. e \in HeldCall /\ e.args = ArgsWith(dd) /\ e.clean = b
    BY <1>6, <1>8, <2>1 DEF HeldCall
  <2> HIDE DEF new
  <2>3. cc[dd.index] = [e EXCEPT !.clean = e.clean /\ ~over]
    BY <1>9, <2>1
  <2> QED BY <2>2, <2>3 DEF HeldCall
<1>12. ASSUME NEW i \in DOMAIN heldCalls \ {dd.index}
       PROVE  /\ cc[i].args = heldCalls[i].args
              /\ cc[i].clean = (heldCalls[i].clean /\ ~over)
              /\ cc[i] \in HeldCall
  <2>1. heldCalls[i] \in HeldCall
    BY DEF TypeOK, CallsTyped
  <2> HIDE DEF new
  <2>2. cc[i] = [heldCalls[i] EXCEPT !.clean = heldCalls[i].clean /\ ~over]
    BY <1>9
  <2> QED BY <2>1, <2>2 DEF HeldCall
<1>13. CallsTyped(cc)
  BY <1>3, <1>10, <1>11, <1>12 DEF CallsTyped, TypeOK
<1>14. b => ~over
  BY <1>7 DEF CleanWith
<1>15. cc[dd.index].clean <=> CleanWith(dd, over)
  BY <1>7, <1>11, <1>14
<1> HIDE DEF new
<1> QED BY <1>1, <1>2, <1>10, <1>11, <1>12, <1>13, <1>15

\* What is found against a call stays found.
LEMMA FollowedTaken ==
  ASSUME CallInv, NEW f \in Chunks, HasTool(f), NEW over \in BOOLEAN, NEW args, NEW names,
         NEW fs, NEW saw, NEW calls, ToolTaken(Tool(f), args, names, fs, saw, over),
         calls = Opened(f, over)
  PROVE  Followed(args, fs, saw, over, calls)
<1>1. PICK d : d = Tool(f)
  OBVIOUS
<1>2. PICK cc : cc = calls
  OBVIOUS
<1>3. d \in ToolDelta /\ d.index \in Index /\ d.frag \in Frag \cup {NoFrag}
  BY <1>1, ChunkIs, DeltaIs
<1>4. /\ DOMAIN cc = DOMAIN heldCalls \cup {d.index}
      /\ cc[d.index].args = ArgsWith(d)
      /\ cc[d.index].clean <=> CleanWith(d, over)
      /\ \A i \in DOMAIN heldCalls \ {d.index} :
           /\ cc[i].args = heldCalls[i].args
           /\ cc[i].clean <=> heldCalls[i].clean /\ ~over
  BY <1>1, <1>2, OpenedIs DEF CallInv
<1>5. ToolTaken(d, args, names, fs, saw, over)
  BY <1>1
<1>6. saw /\ findings \subseteq fs /\ (Acceptable(d.name) \/ IsHigh(fs))
  BY <1>3, <1>5, SeenTaken DEF CallInv
<1>7. IsHigh(findings) => IsHigh(fs)
  BY <1>6, HighStays
<1>8. ASSUME ~over
      PROVE  /\ args[d.index].pending = ArgsWith(d)
             /\ \A i \in Index \ {d.index} : args[i] = toolArgs[i]
  <2>1. ~oversized /\ args = WriteArgs(d)
    BY <1>5, <1>8 DEF ToolTaken
  <2>2. toolArgs[d.index].pending = CallOf(d.index).args
    BY <1>3, <2>1 DEF CallInv, Followed, CallOf, NoCall
  <2> QED BY <1>3, <2>1, <2>2, Written DEF CallInv, ArgsWith
<1>9. ~CleanWith(d, over) => \/ over \/ declaredTools = {} \/ IsHigh(fs)
                             \/ Signature(ArgsWith(d))
  <2> SUFFICES ASSUME ~CallOf(d.index).clean, ~over
               PROVE  declaredTools = {} \/ IsHigh(fs) \/ Signature(ArgsWith(d))
    BY <1>6 DEF CleanWith
  <2>1. d.index \in DOMAIN heldCalls /\ CallOf(d.index) = heldCalls[d.index]
    BY DEF CallOf, NoCall
  <2>2. ~oversized
    BY <1>5 DEF ToolTaken
  <2>3. \/ declaredTools = {} \/ IsHigh(findings)
        \/ Signature(heldCalls[d.index].args)
    BY <2>1, <2>2 DEF CallInv, Followed
  <2>4. heldCalls[d.index].args \in Seq(Frag)
    BY <2>1 DEF CallInv, TypeOK, CallsTyped, HeldCall
  <2>5. Signature(heldCalls[d.index].args) => Signature(ArgsWith(d))
    BY <1>3, <2>1, <2>4, Longer DEF ArgsWith
  <2> QED BY <1>7, <2>3, <2>5
<1>10. over => ~CleanWith(d, over)
  BY DEF CleanWith
<1>11. ASSUME NEW i \in DOMAIN heldCalls \ {d.index}
       PROVE  /\ ~over => args[i].pending = cc[i].args
              /\ ~cc[i].clean => \/ over \/ declaredTools = {} \/ IsHigh(fs)
                                 \/ Signature(cc[i].args)
              /\ over => ~cc[i].clean
  <2>1. i \in Index
    BY DEF CallInv, TypeOK, CallsTyped
  <2>2. oversized => over
    BY <1>5 DEF ToolTaken
  <2>3. /\ ~oversized => toolArgs[i].pending = heldCalls[i].args
        /\ ~heldCalls[i].clean => \/ oversized \/ declaredTools = {} \/ IsHigh(findings)
                                  \/ Signature(heldCalls[i].args)
    BY DEF CallInv, Followed
  <2>4. ~over => args[i] = toolArgs[i]
    BY <1>8, <2>1
  <2> QED BY <1>4, <1>7, <2>2, <2>3, <2>4
<1>12. ASSUME NEW i \in Index \ DOMAIN cc, ~over PROVE args[i].pending = <<>>
  <2>1. ~oversized /\ i \notin DOMAIN heldCalls /\ i # d.index
    BY <1>4, <1>5, <1>12 DEF ToolTaken
  <2>2. toolArgs[i].pending = <<>>
    BY <2>1 DEF CallInv, Followed
  <2> QED BY <1>8, <1>12, <2>1, <2>2
<1>13. Followed(args, fs, saw, over, cc)
  BY <1>4, <1>6, <1>8, <1>9, <1>10, <1>11, <1>12 DEF Followed
<1> QED BY <1>2, <1>13

LEMMA GivenAppended ==
  ASSUME NEW r \in Seq(Chunks), NEW f \in Chunks, HasTool(f), NEW i \in Index,
         NEW c \in Seq(Frag), NEW e, Given(r, i, c),
         e = IF Tool(f).index = i /\ Tool(f).frag # NoFrag THEN Append(c, Tool(f).frag) ELSE c
  PROVE  Given(Append(r, f), i, e)
<1>1. PICK s : s = Append(r, f)
  OBVIOUS
<1>2. /\ s \in Seq(Chunks) /\ Len(s) = Len(r) + 1 /\ Len(r) \in Nat /\ s[Len(r) + 1] = f
      /\ \A p \in 1..Len(r) : s[p] = r[p]
      /\ DOMAIN s = 1..(Len(r) + 1) /\ DOMAIN r = 1..Len(r)
  BY <1>1
<1>3. \A p \in 1..Len(r) : ArgIn(s, i, p) <=> ArgIn(r, i, p)
  BY <1>2 DEF ArgIn
<1>4. \A p : ArgIn(s, i, p) => p \in 1..(Len(r) + 1)
  BY <1>2 DEF ArgIn
<1>5. ASSUME NEW p \in DOMAIN s, NEW q \in DOMAIN s, q <= Len(r), NextIn(s, i, p, q)
      PROVE  p \in DOMAIN r /\ q \in DOMAIN r /\ NextIn(r, i, p, q)
  BY <1>2, <1>3, <1>5 DEF NextIn
<1>6. CASE Tool(f).index = i /\ Tool(f).frag # NoFrag
  <2>1. PICK g : g = Tool(f).frag
    OBVIOUS
  <2>2. g \in Frag
    BY <1>6, <2>1, ChunkIs, DeltaIs
  <2>3. e = Append(c, g)
    BY <1>6, <2>1
  <2>4. /\ e \in Seq(Frag) /\ e # <<>> /\ e[Len(e)] = g
        /\ Signature(c) => Signature(e)
        /\ c # <<>> /\ c[Len(c)] = "head" /\ g = "tail" => Signature(e)
    BY <2>2, <2>3, Longer
  <2>5. ArgIn(s, i, Len(r) + 1)
    BY <1>2, <1>6 DEF ArgIn
  <2>6. ASSUME NEW p \in DOMAIN s, NEW q \in DOMAIN s, NextIn(s, i, p, q),
               Tool(s[p]).frag = "head", Tool(s[q]).frag = "tail"
        PROVE  Signature(e)
    <3>1. CASE q <= Len(r)
      <4>1. p \in DOMAIN r /\ q \in DOMAIN r /\ NextIn(r, i, p, q)
        BY <1>5, <2>6, <3>1
      <4>2. s[p] = r[p] /\ s[q] = r[q]
        BY <1>2, <4>1
      <4> QED BY <2>4, <2>6, <4>1, <4>2 DEF Given
    <3>2. CASE q = Len(r) + 1
      <4>1. p \in 1..Len(r) /\ ArgIn(r, i, p) /\ \A k \in (p + 1)..Len(r) : ~ArgIn(r, i, k)
        BY <1>2, <1>3, <2>6, <3>2 DEF NextIn
      <4>2. LastIn(r, i, p) /\ s[p] = r[p] /\ p \in DOMAIN r
        BY <1>2, <4>1 DEF LastIn
      <4>3. c # <<>> /\ Tool(r[p]).frag = c[Len(c)]
        BY <4>2 DEF Given
      <4>4. g = "tail"
        BY <1>2, <2>1, <2>6, <3>2
      <4> QED BY <2>4, <2>6, <4>2, <4>3, <4>4
    <3> QED BY <1>2, <3>1, <3>2
  <2>7. ASSUME NEW q \in DOMAIN s, LastIn(s, i, q)
        PROVE  e # <<>> /\ Tool(s[q]).frag = e[Len(e)]
    <3>1. q = Len(r) + 1
      BY <1>2, <2>5, <2>7 DEF LastIn
    <3> QED BY <1>2, <2>1, <2>4, <3>1
  <2>8. Given(s, i, e)
    BY <2>6, <2>7 DEF Given
  <2> QED BY <1>1, <2>8
<1>7. CASE ~(Tool(f).index = i /\ Tool(f).frag # NoFrag)
  <2>1. e = c
    BY <1>7
  <2>2. ~ArgIn(s, i, Len(r) + 1)
    BY <1>2, <1>7 DEF ArgIn
  <2>3. ASSUME NEW p \in DOMAIN s, NEW q \in DOMAIN s, NextIn(s, i, p, q),
               Tool(s[p]).frag = "head", Tool(s[q]).frag = "tail"
        PROVE  Signature(e)
    <3>1. q <= Len(r)
      BY <1>2, <2>2, <2>3 DEF NextIn
    <3>2. p \in DOMAIN r /\ q \in DOMAIN r /\ NextIn(r, i, p, q)
      BY <1>5, <2>3, <3>1
    <3>3. s[p] = r[p] /\ s[q] = r[q]
      BY <1>2, <3>2
    <3> QED BY <2>1, <2>3, <3>2, <3>3 DEF Given
  <2>4. ASSUME NEW q \in DOMAIN s, LastIn(s, i, q)
        PROVE  e # <<>> /\ Tool(s[q]).frag = e[Len(e)]
    <3>1. q \in 1..Len(r)
      BY <1>2, <2>2, <2>4 DEF LastIn
    <3>2. LastIn(r, i, q) /\ q \in DOMAIN r /\ s[q] = r[q]
      BY <1>2, <1>3, <2>4, <3>1 DEF LastIn
    <3> QED BY <2>1, <3>2 DEF Given
  <2>5. Given(s, i, e)
    BY <2>3, <2>4 DEF Given
  <2> QED BY <1>1, <2>5
<1> QED BY <1>6, <1>7

LEMMA GivenNone ==
  ASSUME NEW i, NEW c
  PROVE  Given(<<>>, i, c)
BY DEF Given

LEMMA KeptTaken ==
  ASSUME CallInv, ~failed, NEW f \in Chunks, HasTool(f), NEW over \in BOOLEAN, NEW args,
         NEW names, NEW fs, NEW saw, NEW chunks, NEW calls,
         ToolTaken(Tool(f), args, names, fs, saw, over),
         chunks = IF over THEN IF oversized THEN bufChunks ELSE <<>> ELSE Append(bufChunks, f),
         calls = Opened(f, over)
  PROVE  /\ chunks \in Seq(Chunks) /\ Capped(saw, over, chunks)
         /\ Kept(args, fs, over, chunks, calls)
<1>1. PICK d : d = Tool(f)
  OBVIOUS
<1>2. PICK cc : cc = calls
  OBVIOUS
<1>3. d \in ToolDelta /\ d.index \in Index /\ d.frag \in Frag \cup {NoFrag}
  BY <1>1, ChunkIs, DeltaIs
<1>4. DOMAIN cc = DOMAIN heldCalls \cup {d.index}
  <2>1. cc = Opened(f, over)
    BY <1>2
  <2> QED BY <1>1, <2>1, OpenedDomain
<1>5. ToolTaken(d, args, names, fs, saw, over)
  BY <1>1
<1>6. saw /\ findings \subseteq fs /\ (Acceptable(d.name) \/ IsHigh(fs))
  BY <1>3, <1>5, SeenTaken DEF CallInv
<1>7. IsHigh(findings) => IsHigh(fs)
  BY <1>6, HighStays
<1>8. PICK ch : ch = chunks
  OBVIOUS
<1>9. bufChunks \in Seq(Chunks)
  BY DEF CallInv, TypeOK
<1>10. CASE over
  <2>1. ch = <<>>
    BY <1>8, <1>10 DEF CallInv, Capped
  <2>2. \A i \in Index : Given(ch, i, args[i].pending)
    BY <2>1, GivenNone
  <2>3. Kept(args, fs, over, ch, cc)
    BY <1>10, <2>1, <2>2 DEF Kept
  <2>4. ch \in Seq(Chunks) /\ Capped(saw, over, ch)
    BY <1>6, <2>1 DEF Capped
  <2> QED BY <1>2, <1>8, <2>3, <2>4
<1>11. CASE ~over
  <2>1. ch = Append(bufChunks, f) /\ ~oversized /\ args = WriteArgs(d)
    BY <1>5, <1>8, <1>11 DEF ToolTaken
  <2>2. /\ ch \in Seq(Chunks) /\ Len(ch) = Len(bufChunks) + 1 /\ ch[Len(bufChunks) + 1] = f
        /\ \A p \in 1..Len(bufChunks) : ch[p] = bufChunks[p]
        /\ DOMAIN ch = 1..(Len(bufChunks) + 1) /\ DOMAIN bufChunks = 1..Len(bufChunks)
    BY <1>9, <2>1
  <2>3. Kept(toolArgs, findings, oversized, bufChunks, heldCalls)
    BY DEF CallInv
  <2>4. ASSUME NEW k \in DOMAIN ch
        PROVE  /\ HasTool(ch[k]) /\ Tool(ch[k]).index \in DOMAIN cc
               /\ Acceptable(Tool(ch[k]).name) \/ IsHigh(fs)
    <3>1. CASE k = Len(bufChunks) + 1
      BY <1>1, <1>4, <1>6, <2>2, <3>1
    <3>2. CASE k \in 1..Len(bufChunks)
      BY <1>4, <1>7, <2>2, <2>3, <3>2 DEF Kept
    <3> QED BY <2>2, <3>1, <3>2
  <2>5. ASSUME NEW i \in Index PROVE Given(ch, i, args[i].pending)
    <3>1. PICK c : c = toolArgs[i].pending
      OBVIOUS
    <3>2. c \in Seq(Frag) /\ Given(bufChunks, i, c)
      BY <2>3, <3>1 DEF Kept, CallInv, TypeOK, Inspector
    <3>3. args[i].pending = IF Tool(f).index = i /\ Tool(f).frag # NoFrag
                            THEN Append(c, Tool(f).frag) ELSE c
      BY <1>1, <1>3, <2>1, <3>1, Written DEF CallInv
    <3>4. Given(Append(bufChunks, f), i, args[i].pending)
      BY <1>9, <3>2, <3>3, GivenAppended
    <3> QED BY <2>1, <3>4
  <2>6. ch # <<>>
    BY <2>2
  <2>7. Kept(args, fs, over, ch, cc)
    BY <2>4, <2>5, <2>6 DEF Kept
  <2>8. Capped(saw, over, ch)
    BY <1>11 DEF Capped
  <2> QED BY <1>2, <1>8, <2>2, <2>7, <2>8
<1> QED BY <1>10, <1>11

\* What a chunk leaves is what the invariant says of the variables.
LEMMA ChunkTaken ==
  ASSUME CallInv, ~failed, NEW f \in Chunks, NEW n \in Sizes, NEW args, NEW names, NEW fs,
         NEW saw, NEW over, NEW chunks, NEW calls,
         Takes(f, n, args, names, fs, saw, over, chunks, calls)
  PROVE  /\ args \in [Index -> Inspector] /\ names \in [Index -> Name]
         /\ fs \subseteq Rules /\ findings \subseteq fs
         /\ NothingOversized => fs \cap {"oversized-call", "oversized-sse"} = {}
         /\ saw \in BOOLEAN /\ over \in BOOLEAN /\ chunks \in Seq(Chunks)
         /\ CallsTyped(calls)
         /\ Seen(args, names, fs, saw) /\ Followed(args, fs, saw, over, calls)
         /\ Capped(saw, over, chunks) /\ Kept(args, fs, over, chunks, calls)
<1>1. CASE ~HasTool(f)
  <2>1. /\ args = toolArgs /\ names = toolName /\ fs = findings /\ saw = sawTool
        /\ over = oversized /\ chunks = bufChunks /\ calls = heldCalls
    BY <1>1, TextTaken DEF CallInv
  <2>2. NothingOversized => fs \cap {"oversized-call", "oversized-sse"} = {}
    BY <2>1 DEF NothingOversized
  <2> QED BY <2>1, <2>2 DEF CallInv, TypeOK
<1>2. CASE HasTool(f)
  <2>1. /\ ToolTaken(Tool(f), args, names, fs, saw, over) /\ over \in BOOLEAN
        /\ chunks = IF over THEN IF oversized THEN bufChunks ELSE <<>>
                    ELSE Append(bufChunks, f)
        /\ calls = Opened(f, over)
    BY <1>2, ToolTakenIs DEF CallInv
  <2>2. Tool(f) \in ToolDelta
    BY <1>2, ChunkIs
  <2>3. /\ args \in [Index -> Inspector] /\ names \in [Index -> Name]
        /\ fs \subseteq Rules /\ findings \subseteq fs /\ saw
        /\ Seen(args, names, fs, saw)
        /\ NothingOversized => fs \cap {"oversized-call", "oversized-sse"} = {}
    BY <2>1, <2>2, SeenTaken DEF CallInv
  <2>4. saw \in BOOLEAN
    BY <2>1 DEF ToolTaken, CallInv, TypeOK, Checks
  <2>5. Followed(args, fs, saw, over, calls)
    BY <1>2, <2>1, FollowedTaken
  <2>6. chunks \in Seq(Chunks) /\ Capped(saw, over, chunks)
        /\ Kept(args, fs, over, chunks, calls)
    BY <1>2, <2>1, KeptTaken
  <2>7. CallsTyped(calls)
    BY <1>2, <2>1, OpenedIs DEF CallInv
  <2> QED BY <2>1, <2>3, <2>4, <2>5, <2>6, <2>7
<1> QED BY <1>1, <1>2


-----------------------------------------------------------------------------
(* What finalize decides and writes *)

LEMMA ToolsIs ==
  ASSUME NEW args \in [Index -> Inspector]
  PROVE  /\ Tools(args) \subseteq Rules
         /\ \A i \in Index : Signature(args[i].pending) => IsHigh(Tools(args))
<1>1. ASSUME NEW i \in Index
      PROVE  /\ Finished(args[i]).found = args[i].found \cup Inspect(args[i].pending)
             /\ Finished(args[i]).found \subseteq Rules
  <2>1. args[i] \in Inspector
    OBVIOUS
  <2>2. Finished(args[i]).found = args[i].found \cup Inspect(args[i].pending)
    BY <2>1 DEF Finished, Inspector
  <2>3. args[i].found \subseteq Rules
    BY <2>1 DEF Inspector
  <2> QED BY <2>2, <2>3, InspectIs
<1>2. Tools(args) \subseteq Rules
  BY <1>1 DEF Tools
<1>3. ASSUME NEW i \in Index, Signature(args[i].pending) PROVE IsHigh(Tools(args))
  <2>1. Inspect(args[i].pending) \subseteq Tools(args)
    BY <1>1 DEF Tools
  <2>2. IsHigh(Inspect(args[i].pending))
    BY <1>3, InspectIs
  <2> QED BY <2>1, <2>2, HighStays
<1> QED BY <1>2, <1>3

\* What is sent was seen, declared, and carries no signature.
LEMMA SentIsClean ==
  ASSUME NEW args \in [Index -> Inspector], NEW fs, NEW saw \in BOOLEAN, NEW over \in BOOLEAN,
         NEW chunks \in Seq(Chunks), NEW calls, CallsTyped(calls),
         Followed(args, fs, saw, over, calls), ~Drops(args, fs, saw, over)
  PROVE  /\ \A i \in DOMAIN calls : calls[i].clean
         /\ Kept(args, fs, over, chunks, calls) => Sendable(chunks)
<1>1. saw => /\ ~IsHigh(Tools(args)) /\ ~IsHigh(fs) /\ declaredTools # {} /\ ~over
  <2>1. saw => /\ ~IsHigh(Tools(args)) /\ ~IsHigh(fs \cup Tools(args))
               /\ declaredTools # {} /\ ~over
    BY DEF Drops
  <2>2. IsHigh(fs) => IsHigh(fs \cup Tools(args))
    BY HighStays
  <2> QED BY <2>1, <2>2
<1>2. ASSUME NEW i \in DOMAIN calls PROVE calls[i].clean
  <2>1. saw /\ ~over /\ ~IsHigh(fs) /\ declaredTools # {}
    BY <1>1 DEF Followed
  <2>2. args[i].pending = calls[i].args /\ i \in Index
    BY <2>1 DEF Followed, CallsTyped
  <2>3. ~Signature(calls[i].args)
    BY <1>1, <2>1, <2>2, ToolsIs
  <2> QED BY <2>1, <2>3 DEF Followed
<1>3. ASSUME Kept(args, fs, over, chunks, calls), NEW k \in DOMAIN chunks
      PROVE  saw /\ declaredTools # {} /\ Acceptable(Tool(chunks[k]).name)
  <2>1. Tool(chunks[k]).index \in DOMAIN calls
        /\ (Acceptable(Tool(chunks[k]).name) \/ IsHigh(fs))
    BY <1>3 DEF Kept
  <2>2. saw
    BY <2>1 DEF Followed
  <2> QED BY <1>1, <2>1, <2>2
<1>4. ASSUME Kept(args, fs, over, chunks, calls), NEW i \in Index, NEW p \in DOMAIN chunks,
             NEW q \in DOMAIN chunks, NextIn(chunks, i, p, q),
             Tool(chunks[p]).frag = "head", Tool(chunks[q]).frag = "tail"
      PROVE  FALSE
  <2>1. Signature(args[i].pending)
    BY <1>4 DEF Kept, Given
  <2> QED BY <1>1, <1>3, <1>4, <2>1, ToolsIs
<1>5. Kept(args, fs, over, chunks, calls) => Sendable(chunks)
  BY <1>3, <1>4 DEF Sendable
<1> QED BY <1>2, <1>5

\* The frames of a resolution.
Resolving(args, fs, saw, over, chunks, finish) ==
  IF Drops(args, fs, saw, over) THEN Replacement(chunks, finish) ELSE chunks \o finish

LEMMA ReplacementIs ==
  ASSUME NEW chunks \in Seq(Chunks), NEW finish \in Seq(Chunks)
  PROVE  LET fs == Replacement(chunks, finish) n == Len(fs)
         IN  /\ fs \in Seq(Chunks \cup {NoteChunk}) /\ n \in Nat /\ n >= 2
             /\ \A p \in 1..(n - 2) : fs[p] \in TextFrames
             /\ fs[n - 1] = NoteChunk /\ fs[n] = FinishChunk("stop")
             /\ \A g \in Frag : Texts(fs, g, n) = Texts(chunks, g, Len(chunks))
                                                    + Texts(finish, g, Len(finish))
<1>1. PICK a : a = TextChunks(chunks)
  OBVIOUS
<1>2. PICK b : b = TextChunks(finish)
  OBVIOUS
<1>3. /\ a \in Seq(TextFrames) /\ b \in Seq(TextFrames)
      /\ \A g \in Frag : /\ Texts(a, g, Len(a)) = Texts(chunks, g, Len(chunks))
                         /\ Texts(b, g, Len(b)) = Texts(finish, g, Len(finish))
  BY <1>1, <1>2, TextChunksKeep
<1>4. PICK ab : ab = a \o b
  OBVIOUS
<1>5. /\ ab \in Seq(TextFrames) /\ Len(ab) = Len(a) + Len(b) /\ Len(a) \in Nat /\ Len(b) \in Nat
      /\ \A p \in 1..Len(a) : ab[p] = a[p]
      /\ \A j \in 1..Len(b) : ab[Len(a) + j] = b[j]
  BY <1>3, <1>4
<1>6. PICK note : note = NoteChunk
  OBVIOUS
<1>7. PICK fin : fin = FinishChunk("stop")
  OBVIOUS
<1>8. PICK r : r = ab \o <<note, fin>>
  OBVIOUS
<1>9. r = Replacement(chunks, finish)
  BY <1>1, <1>2, <1>4, <1>6, <1>7, <1>8 DEF Replacement
<1>10. note \in Chunks \cup {NoteChunk} /\ fin \in Chunks \cup {NoteChunk}
  BY <1>6, <1>7, ProxyChunks
<1>11. TextFrames \subseteq Chunks \cup {NoteChunk}
  BY TextFrameIs
<1>12. ab \in Seq(Chunks \cup {NoteChunk})
  BY <1>5, <1>11
<1>13. /\ r \in Seq(Chunks \cup {NoteChunk}) /\ Len(r) = Len(ab) + 2
       /\ \A p \in 1..Len(ab) : r[p] = ab[p]
       /\ r[Len(ab) + 1] = note /\ r[Len(ab) + 2] = fin
  <2>1. r \in Seq(Chunks \cup {NoteChunk})
    BY <1>8, <1>10, <1>12
  <2>2. PICK w : w = <<note, fin>>
    OBVIOUS
  <2>3. w \in Seq(Chunks \cup {NoteChunk}) /\ Len(w) = 2 /\ w[1] = note /\ w[2] = fin
    BY <1>10, <2>2
  <2>4. r = ab \o w
    BY <1>8, <2>2
  <2>5. /\ Len(r) = Len(ab) + 2
        /\ \A p \in 1..Len(ab) : r[p] = ab[p]
        /\ \A j \in 1..2 : r[Len(ab) + j] = w[j]
    <3>1. Len(ab) \in Nat /\ Len(r) = Len(ab) + 2
      <4>1. Len(ab \o w) = Len(ab) + Len(w)
        BY <1>12, <2>3, ConcatProperties
      <4> QED BY <1>12, <2>3, <2>4, <4>1
    <3>2. \A p \in 1..Len(ab) : r[p] = ab[p]
      BY <1>12, <2>3, <2>4, <3>1
    <3>3. \A j \in 1..2 : r[Len(ab) + j] = w[j]
      BY <1>12, <2>3, <2>4, <3>1
    <3> QED BY <3>1, <3>2, <3>3
  <2> QED BY <2>1, <2>3, <2>5
<1>14. \A p \in 1..Len(ab) : r[p] \in TextFrames
  BY <1>5, <1>13
<1>15. ASSUME NEW g \in Frag
       PROVE  Texts(r, g, Len(r)) = Texts(chunks, g, Len(chunks)) + Texts(finish, g, Len(finish))
  <2>1. Texts(ab, g, Len(a) + Len(b)) = Texts(a, g, Len(a)) + Texts(b, g, Len(b))
    <3>1. PICK m \in Nat, k \in Nat : m = Len(a) /\ k = Len(b)
      BY <1>5
    <3>2. Follows(a, m, b, k, ab)
      BY <1>5, <3>1 DEF Follows
    <3>4. Texts(ab, g, m + k) = Texts(a, g, m) + Texts(b, g, k)
      BY <3>2, TextsAdded
    <3> QED BY <3>1, <3>4
  <2>2. PICK n \in Nat : n = Len(ab)
    BY <1>5
  <2>3. Texts(r, g, n) = Texts(ab, g, n)
    <3>1. {p \in 1..n : HasText(r[p], g)} = {p \in 1..n : HasText(ab[p], g)}
      BY <1>13, <2>2
    <3> QED BY <3>1 DEF Texts
  <2>4. ~HasText(note, g) /\ ~HasText(fin, g)
    BY <1>6, <1>7, FramesDiffer, ProxyChunks, FragAssumption DEF HasText
  <2>5. Texts(r, g, n + 1) = Texts(r, g, n)
    <3>1. Texts(r, g, n + 1) = IF HasText(r[n + 1], g) THEN Texts(r, g, n) + 1
                               ELSE Texts(r, g, n)
      BY TextsStep
    <3> QED BY <1>13, <2>2, <2>4, <3>1
  <2>6. Texts(r, g, n + 2) = Texts(r, g, n)
    <3>1. PICK m \in Nat : m = n + 1
      OBVIOUS
    <3>2. Texts(r, g, m + 1) = IF HasText(r[m + 1], g) THEN Texts(r, g, m) + 1
                               ELSE Texts(r, g, m)
      BY TextsStep
    <3>3. m + 1 = n + 2
      BY <3>1
    <3> QED BY <1>13, <2>2, <2>4, <2>5, <3>1, <3>2, <3>3
  <2> QED BY <1>3, <1>5, <1>13, <2>1, <2>2, <2>3, <2>6
<1>16. PICK n : n = Len(r)
  OBVIOUS
<1>17. /\ n \in Nat /\ n >= 2 /\ \A p \in 1..(n - 2) : r[p] \in TextFrames
       /\ r[n - 1] = NoteChunk /\ r[n] = FinishChunk("stop")
  BY <1>5, <1>6, <1>7, <1>13, <1>14, <1>16
<1> QED BY <1>9, <1>13, <1>15, <1>16, <1>17

\* What a resolution leaves.
Leaves(args, fs, saw, over, chunks, calls) ==
  /\ bufChunks' = <<>> \/ (failed' /\ bufChunks' = chunks)
  /\ droppedTool' = (droppedTool \/ Drops(args, fs, saw, over))
  /\ toolArgs' \in [Index -> Inspector]
  /\ \A i \in Index : /\ toolArgs'[i].live = args[i].live
                      /\ args[i].live \/ args[i].pending = <<>> =>
                           toolArgs'[i].pending = <<>>
  /\ heldCalls' = <<>>
  /\ settled' = Append(settled,
       [i \in DOMAIN calls |->
          [ clean |-> calls[i].clean,
            fate |-> IF Drops(args, fs, saw, over) THEN "dropped" ELSE "sent" ]])

LEMMA FinalizeIs ==
  ASSUME TypeOK, NEW args \in [Index -> Inspector], NEW fs, NEW saw \in BOOLEAN,
         NEW over \in BOOLEAN, NEW chunks \in Seq(Chunks), NEW finish \in Seq(Chunks),
         NEW calls, CallsTyped(calls),
         Finalize(args, fs, saw, over, chunks, finish, calls)
  PROVE  /\ \E k \in Nat : Adds(Resolving(args, fs, saw, over, chunks, finish), k)
         /\ Leaves(args, fs, saw, over, chunks, calls)
<1>1. PICK fr : fr = Resolving(args, fs, saw, over, chunks, finish)
  OBVIOUS
<1>2. Emit(fr)
  BY <1>1, Zenon DEF Finalize, Resolving
<1>3. /\ fr \in Seq(Chunks \cup {NoteChunk})
      /\ Drops(args, fs, saw, over) => Len(fr) >= 2
      /\ ~Drops(args, fs, saw, over) => Len(fr) >= Len(chunks)
  <2>1. CASE Drops(args, fs, saw, over)
    <3>1. fr = Replacement(chunks, finish)
      BY <1>1, <2>1 DEF Resolving
    <3>2. Replacement(chunks, finish) \in Seq(Chunks \cup {NoteChunk})
          /\ Len(Replacement(chunks, finish)) >= 2
      BY ReplacementIs
    <3> QED BY <2>1, <3>1, <3>2
  <2>2. CASE ~Drops(args, fs, saw, over)
    <3>1. fr = chunks \o finish
      BY <1>1, <2>2 DEF Resolving
    <3>2. chunks \in Seq(Chunks \cup {NoteChunk}) /\ finish \in Seq(Chunks \cup {NoteChunk})
      OBVIOUS
    <3>3. chunks \o finish \in Seq(Chunks \cup {NoteChunk})
          /\ Len(chunks \o finish) = Len(chunks) + Len(finish)
      BY <3>2
    <3> QED BY <2>2, <3>1, <3>3
  <2> QED BY <2>1, <2>2
<1>4. fr \in Seq(OutFrame)
  BY <1>3 DEF OutFrame, Frame
<1>5. PICK k \in Nat : Adds(fr, k)
  BY <1>2, <1>4, EmitAdds DEF TypeOK
<1>6. bufChunks' = <<>> \/ (failed' /\ bufChunks' = chunks)
  <2>1. PICK needed : needed = IF Drops(args, fs, saw, over) THEN Len(fr) - 1 ELSE Len(chunks)
    OBVIOUS
  <2>2. bufChunks' = IF Len(out') - Len(out) >= needed THEN <<>> ELSE chunks
    BY <1>1, <2>1, Zenon DEF Finalize, Resolving
  <2>3. Len(fr) \in Nat /\ Len(chunks) \in Nat
    BY <1>3
  <2>4. needed <= Len(fr) /\ needed \in Int
    BY <1>3, <2>1, <2>3
  <2>5. Len(out') - Len(out) = k /\ (k < Len(fr) => failed')
    <3>1. Len(out) \in Nat
      BY DEF TypeOK
    <3>2. Len(out') = Len(out) + k /\ failed' = (failed \/ k < Len(fr))
      BY <1>5 DEF Adds
    <3>3. Len(out') - Len(out) = k
      BY <3>1, <3>2
    <3> QED BY <3>2, <3>3
  <2> QED BY <2>2, <2>3, <2>4, <2>5
<1>7. /\ droppedTool' = (droppedTool \/ Drops(args, fs, saw, over))
      /\ heldCalls' = <<>>
      /\ toolArgs' = [i \in Index |-> IF args[i].live THEN Finished(args[i]) ELSE args[i]]
  BY DEF Finalize, Settle
<1>8. ASSUME NEW i \in Index
      PROVE  /\ toolArgs'[i] \in Inspector
             /\ toolArgs'[i].live = args[i].live
             /\ args[i].live \/ args[i].pending = <<>> => toolArgs'[i].pending = <<>>
  <2>1. PICK a : a = args[i]
    OBVIOUS
  <2>2. a \in Inspector /\ a.live \in BOOLEAN
    BY <2>1 DEF Inspector
  <2>3. Inspect(a.pending) \subseteq Rules
    BY InspectIs
  <2>4. Finished(a) \in Inspector /\ Finished(a).live = a.live /\ Finished(a).pending = <<>>
    <3>1. a.found \cup Inspect(a.pending) \in SUBSET Rules
      BY <2>2, <2>3 DEF Inspector
    <3>2. PICK w : w = a.found \cup Inspect(a.pending)
      OBVIOUS
    <3>3. Finished(a) = [[a EXCEPT !.pending = <<>>] EXCEPT !.found = w]
      BY <2>2, <3>2 DEF Finished, Inspector
    <3>4. <<>> \in Seq(Frag)
      OBVIOUS
    <3> QED BY <2>2, <3>1, <3>2, <3>3, <3>4 DEF Inspector
  <2>5. toolArgs'[i] = IF a.live THEN Finished(a) ELSE a
    BY <1>7, <2>1
  <2> QED BY <2>1, <2>2, <2>4, <2>5
<1>9. settled' = Append(settled,
              [i \in DOMAIN calls |->
                 [ clean |-> calls[i].clean,
                   fate |-> IF Drops(args, fs, saw, over) THEN "dropped" ELSE "sent" ]])
  BY Zenon DEF Finalize, Settle
<1>10. toolArgs' \in [Index -> Inspector]
  BY <1>7, <1>8
<1>11. Leaves(args, fs, saw, over, chunks, calls)
  BY <1>6, <1>7, <1>8, <1>9, <1>10, Zenon DEF Leaves
<1> QED BY <1>1, <1>5, <1>11

-----------------------------------------------------------------------------
(* What a step reads *)

LEMMA ReceiveIs ==
  ASSUME TypeOK, NEW f \in Frame, Receive(f)
  PROVE  /\ phase = "reading" /\ upstream' \in Upstreams
         /\ upstream'.orderly = upstream.orderly
         /\ upstream.orderly =>
              /\ f.kind = "done" => upstream.stage = "finished" /\ upstream'.stage = "done"
              /\ f.kind = "chunk" =>
                   /\ upstream.stage = "chunks" /\ Unmixed(f)
                   /\ upstream'.stage = IF f.finish # "" THEN "finished" ELSE "chunks"
              /\ f.kind = "other" =>
                   upstream.stage # "done" /\ upstream'.stage = upstream.stage
<1>1. upstream \in Upstreams /\ upstream' = AfterSending(f) /\ MaySend(f)
  BY DEF TypeOK, Receive
<1>2. CASE ~upstream.orderly
  <2>1. upstream' = [upstream EXCEPT !.sent = upstream.sent + 1]
    BY <1>1, <1>2 DEF AfterSending
  <2>2. upstream' \in Upstreams /\ upstream'.orderly = upstream.orderly
    BY <1>1, <2>1 DEF Upstreams
  <2> QED BY <1>2, <2>2 DEF Receive
<1>3. CASE upstream.orderly
  <2>1. PICK st : st = CASE f.kind = "done" -> "done"
                         [] f.kind = "chunk" /\ f.finish # "" -> "finished"
                         [] OTHER -> upstream.stage
    OBVIOUS
  <2>2. PICK op : op = IF f.kind = "chunk" /\ HasTool(f)
                       THEN upstream.opened \cup {Tool(f).index} ELSE upstream.opened
    OBVIOUS
  <2>3. upstream' = [upstream EXCEPT !.stage = st, !.opened = op, !.sent = upstream.sent + 1]
    BY <1>1, <1>3, <2>1, <2>2 DEF AfterSending
  <2>4. f.kind \in {"chunk", "done", "other"} /\ (f.kind = "chunk" => f \in Chunks)
    BY FrameIs
  <2>5. /\ f.kind = "done" => st = "done"
        /\ f.kind = "chunk" => st = IF f.finish # "" THEN "finished" ELSE upstream.stage
        /\ f.kind = "other" => st = upstream.stage
    BY <2>1, <2>4
  <2>6. upstream.stage \in {"chunks", "finished", "done"} /\ upstream.opened \subseteq Index
    BY <1>1 DEF Upstreams
  <2>7. st \in {"chunks", "finished", "done"}
    BY <2>4, <2>5, <2>6
  <2>8. op \subseteq Index
    <3>1. f.kind = "chunk" /\ HasTool(f) => Tool(f).index \in Index
      BY <2>4, ChunkIs, DeltaIs
    <3> QED BY <2>2, <2>6, <3>1
  <2>9. /\ upstream' \in Upstreams /\ upstream'.orderly = upstream.orderly
        /\ upstream'.stage = st
    <3>1. PICK u : u = [stage |-> st, opened |-> op, sent |-> upstream.sent + 1,
                        orderly |-> upstream.orderly]
      OBVIOUS
    <3>2. upstream.sent + 1 \in Nat /\ upstream.orderly \in BOOLEAN
      BY <1>1 DEF Upstreams
    <3>3. u \in Upstreams /\ u.orderly = upstream.orderly /\ u.stage = st
      BY <2>7, <2>8, <3>1, <3>2 DEF Upstreams
    <3>4. upstream' = u
      BY <1>1, <2>3, <3>1 DEF Upstreams
    <3> QED BY <3>3, <3>4
  <2>10. Conforming(f)
    BY <1>1, <1>3 DEF MaySend
  <2>11. /\ f.kind = "chunk" => upstream.stage = "chunks" /\ Unmixed(f)
         /\ f.kind = "done" => upstream.stage = "finished"
         /\ f.kind = "other" => upstream.stage # "done"
    <3>1. CASE f.kind = "chunk"
      BY <2>10, <3>1 DEF Conforming
    <3>2. CASE f.kind = "done"
      BY <2>10, <3>2 DEF Conforming
    <3>3. CASE f.kind = "other"
      BY <2>10, <3>3 DEF Conforming
    <3> QED BY <2>4, <3>1, <3>2, <3>3
  <2> QED BY <2>4, <2>5, <2>9, <2>11 DEF Receive
<1> QED BY <1>2, <1>3

\* A frame that is forwarded as it arrives holds nothing and opens nothing.
Passes(f) ==
  /\ f.kind = "chunk" => ~HasTool(f) /\ f.finish = "" /\ ~oversized
  /\ Receive(f) /\ Proceed
  /\ \E k \in Nat : Adds(<<f>>, k)
  /\ findings \subseteq findings' /\ findings' \subseteq Rules
  /\ content' = IF f.kind = "chunk" /\ f.text # NoFrag THEN Append(content, f.text) ELSE content
  /\ UNCHANGED <<declaredTools, sawTool, blocked, toolArgs, toolName, bufVars,
                 droppedTool, history>>

LEMMA PassIs ==
  ASSUME TypeOK, NEW f \in Frame, ForwardDone(f) \/ ForwardOther(f) \/ ForwardChunk(f)
  PROVE  Passes(f)
<1>1. Receive(f) /\ Proceed /\ Emit(<<f>>)
  BY DEF ForwardDone, ForwardOther, ForwardChunk
<1>2. <<f>> \in Seq(OutFrame)
  BY DEF OutFrame
<1>3. \E k \in Nat : Adds(<<f>>, k)
  BY <1>1, <1>2, EmitAdds DEF TypeOK
<1>4. CASE ForwardDone(f)
  <2>1. f.kind = "done" /\ findings' = findings /\ content' = content
    BY <1>4 DEF ForwardDone, callVars
  <2>2. UNCHANGED <<declaredTools, sawTool, blocked, toolArgs, toolName, bufVars,
                    droppedTool, history>>
    BY <1>4 DEF ForwardDone, callVars
  <2> QED BY <1>1, <1>3, <2>1, <2>2 DEF Passes, TypeOK
<1>5. CASE ForwardOther(f)
  <2>1. f.kind = "other" /\ findings' = findings \cup Inspect(f.content) /\ content' = content
    BY <1>5 DEF ForwardOther, callVars
  <2>2. UNCHANGED <<declaredTools, sawTool, blocked, toolArgs, toolName, bufVars,
                    droppedTool, history>>
    BY <1>5 DEF ForwardOther, callVars
  <2>3. findings \subseteq findings' /\ findings' \subseteq Rules
    BY <2>1, InspectIs DEF TypeOK
  <2> QED BY <1>1, <1>3, <2>1, <2>2, <2>3 DEF Passes
<1>6. CASE ForwardChunk(f)
  <2>1. /\ f.kind = "chunk" /\ f.finish = "" /\ ~HasTool(f) /\ ~oversized
        /\ findings' = findings
        /\ content' = IF f.text = NoFrag THEN content ELSE Append(content, f.text)
    BY <1>6 DEF ForwardChunk, Accumulate
  <2>2. toolName' = toolName /\ sawTool' = sawTool
    BY <1>6, <2>1 DEF ForwardChunk, Accumulate, ToolNameAfter, SawToolAfter, TypeOK
  <2>3. UNCHANGED <<declaredTools, blocked, toolArgs, bufVars, droppedTool, history>>
    BY <1>6 DEF ForwardChunk
  <2> QED BY <1>1, <1>3, <2>1, <2>2, <2>3 DEF Passes, TypeOK
<1> QED BY <1>4, <1>5, <1>6

LEMMA ContentTyped ==
  ASSUME TypeOK, NEW f \in Chunks,
         content' = IF f.text = NoFrag THEN content ELSE Append(content, f.text)
  PROVE  content' \in Seq(Frag)
BY ChunkIs, Longer DEF TypeOK

\* More findings change nothing that was found.
LEMMA MoreFound ==
  ASSUME CallInv, NEW fs, findings \subseteq fs
  PROVE  /\ Seen(toolArgs, toolName, fs, sawTool)
         /\ Followed(toolArgs, fs, sawTool, oversized, heldCalls)
         /\ ~failed => Kept(toolArgs, fs, oversized, bufChunks, heldCalls)
<1>1. IsHigh(findings) => IsHigh(fs)
  BY HighStays
<1>2. Seen(toolArgs, toolName, fs, sawTool)
  BY <1>1 DEF CallInv, Seen
<1>3. Followed(toolArgs, fs, sawTool, oversized, heldCalls)
  BY <1>1 DEF CallInv, Followed
<1>4. ~failed => Kept(toolArgs, fs, oversized, bufChunks, heldCalls)
  BY <1>1 DEF CallInv, Kept
<1> QED BY <1>2, <1>3, <1>4

LEMMA PassCalls ==
  ASSUME CallInv, NEW f \in Frame, Passes(f)
  PROVE  CallInv'
<1>1. /\ UNCHANGED <<declaredTools, sawTool, blocked, toolArgs, toolName, oversized, bufChunks,
                     bufBytes, droppedTool, heldCalls, settled>>
      /\ findings \subseteq findings' /\ findings' \subseteq Rules
  BY DEF Passes, bufVars, history
<1>2. PICK k \in Nat : Adds(<<f>>, k)
  BY DEF Passes
<1>3. /\ phase' = IF failed' THEN "closing" ELSE "reading"
      /\ upstream' \in Upstreams /\ (failed => failed')
  BY <1>2, ReceiveIs DEF Passes, Proceed, CallInv, Adds
<1>4. failed' \in BOOLEAN
  <2>1. failed \in BOOLEAN /\ Len(<<f>>) = 1
    BY DEF CallInv, TypeOK
  <2> QED BY <1>2, <2>1 DEF Adds
<1>5. content' \in Seq(Frag)
  <2>1. CASE f.kind = "chunk"
    BY <2>1, FrameIs, ContentTyped DEF Passes, CallInv
  <2>2. CASE f.kind # "chunk"
    BY <2>2 DEF Passes, CallInv, TypeOK
  <2> QED BY <2>1, <2>2
<1>6. TypeOK'
  BY <1>1, <1>2, <1>3, <1>4, <1>5 DEF CallInv, TypeOK, Adds, CallsTyped
<1>7. /\ Seen(toolArgs, toolName, findings', sawTool)
      /\ Followed(toolArgs, findings', sawTool, oversized, heldCalls)
      /\ ~failed => Kept(toolArgs, findings', oversized, bufChunks, heldCalls)
  BY <1>1, MoreFound
<1>8. Seen(toolArgs, toolName, findings, sawTool)'
  BY <1>1, <1>7 DEF Seen, Acceptable
<1>9. Followed(toolArgs, findings, sawTool, oversized, heldCalls)'
  BY <1>1, <1>7 DEF Followed
<1>10. (~failed => Kept(toolArgs, findings, oversized, bufChunks, heldCalls))'
  BY <1>1, <1>3, <1>7 DEF Kept, Acceptable
<1>11. Capped(sawTool, oversized, bufChunks)'
  BY <1>1 DEF CallInv, Capped
<1> QED BY <1>3, <1>6, <1>8, <1>9, <1>10, <1>11 DEF CallInv

LEMMA BufferIs ==
  ASSUME TypeOK, NEW f, NEW n \in Sizes, Buffer(f, n)
  PROVE  bufBytes' \in 0..MaxToolCallBytes /\ oversized' = OverAfter(f, n)
<1>1. n \in Nat /\ bufBytes \in 0..MaxToolCallBytes /\ MaxToolCallBytes \in Nat
  BY SizeAssumption DEF TypeOK
<1>2. Buffers(f, n) => bufBytes + n <= MaxToolCallBytes
  <2>1. Buffers(f, n) => HasTool(f) /\ ~oversized /\ ~Exceeds(f, n)
    BY DEF Buffers, OverAfter
  <2> QED BY <1>1, <2>1 DEF Exceeds
<1>3. bufBytes' \in 0..MaxToolCallBytes
  BY <1>1, <1>2 DEF Buffer
<1> QED BY <1>3 DEF Buffer

\* A held chunk is taken in, and nothing is written.
LEMMA HoldIs ==
  ASSUME TypeOK, NEW f \in Frame, NEW n \in Sizes, HoldChunk(f, n)
  PROVE  /\ f \in Chunks /\ f.kind = "chunk" /\ f.finish = "" /\ (HasTool(f) \/ oversized)
         /\ Receive(f)
         /\ Takes(f, n, toolArgs', toolName', findings', sawTool', oversized', bufChunks',
                  heldCalls')
         /\ content' = IF f.text = NoFrag THEN content ELSE Append(content, f.text)
         /\ bufBytes' \in 0..MaxToolCallBytes
         /\ UNCHANGED <<declaredTools, blocked, out, failed, phase, droppedTool, settled>>
<1>1. /\ f.kind = "chunk" /\ f.finish = "" /\ (HasTool(f) \/ oversized)
      /\ Receive(f) /\ Accumulate(f) /\ Buffer(f, n)
      /\ toolArgs' = ArgsAfter(f) /\ findings' = findings \cup NameFindings(f)
      /\ bufChunks' = ChunksAfter(f, n) /\ heldCalls' = Opened(f, OverAfter(f, n))
      /\ UNCHANGED <<declaredTools, blocked, out, failed, phase, droppedTool, settled>>
  BY DEF HoldChunk
<1>2. /\ content' = IF f.text = NoFrag THEN content ELSE Append(content, f.text)
      /\ toolName' = ToolNameAfter(f) /\ sawTool' = SawToolAfter(f)
  BY <1>1 DEF Accumulate
<1>3. bufBytes' \in 0..MaxToolCallBytes /\ oversized' = OverAfter(f, n)
  BY <1>1, BufferIs
<1>4. f \in Chunks
  BY <1>1, FrameIs
<1> QED BY <1>1, <1>2, <1>3, <1>4 DEF Takes

LEMMA HoldCalls ==
  ASSUME CallInv, NEW f \in Frame, NEW n \in Sizes, HoldChunk(f, n)
  PROVE  CallInv'
<1>1. /\ f \in Chunks /\ Receive(f)
      /\ Takes(f, n, toolArgs', toolName', findings', sawTool', oversized', bufChunks',
               heldCalls')
      /\ content' = IF f.text = NoFrag THEN content ELSE Append(content, f.text)
      /\ bufBytes' \in 0..MaxToolCallBytes
      /\ UNCHANGED <<declaredTools, blocked, out, failed, phase, droppedTool, settled>>
  BY HoldIs DEF CallInv
<1>2. phase = "reading" /\ upstream' \in Upstreams /\ ~failed
  BY <1>1, ReceiveIs DEF CallInv
<1>3. /\ toolArgs' \in [Index -> Inspector] /\ toolName' \in [Index -> Name]
      /\ findings' \subseteq Rules
      /\ sawTool' \in BOOLEAN /\ oversized' \in BOOLEAN /\ bufChunks' \in Seq(Chunks)
      /\ CallsTyped(heldCalls')
      /\ Seen(toolArgs', toolName', findings', sawTool')
      /\ Followed(toolArgs', findings', sawTool', oversized', heldCalls')
      /\ Capped(sawTool', oversized', bufChunks')
      /\ Kept(toolArgs', findings', oversized', bufChunks', heldCalls')
  BY <1>1, <1>2, ChunkTaken
<1>4. content' \in Seq(Frag)
  BY <1>1, ContentTyped DEF CallInv
<1>5. TypeOK'
  BY <1>1, <1>2, <1>3, <1>4 DEF CallInv, TypeOK, CallsTyped
<1>6. Seen(toolArgs, toolName, findings, sawTool)'
  BY <1>1, <1>3 DEF Seen, Acceptable
<1>7. Followed(toolArgs, findings, sawTool, oversized, heldCalls)'
  BY <1>1, <1>3 DEF Followed
<1>8. Capped(sawTool, oversized, bufChunks)'
  BY <1>3 DEF Capped
<1>9. Kept(toolArgs, findings, oversized, bufChunks, heldCalls)'
  BY <1>1, <1>3 DEF Kept, Acceptable
<1> QED BY <1>1, <1>2, <1>5, <1>6, <1>7, <1>8, <1>9 DEF CallInv

\* What a resolution starts from and leaves, whichever handler runs it.
Resolves(args, names, fs, saw, over, chunks, finish, calls) ==
  /\ Finalize(args, fs, saw, over, chunks, finish, calls)
  /\ args \in [Index -> Inspector] /\ names \in [Index -> Name]
  /\ fs \subseteq Rules /\ findings \subseteq fs
  /\ saw \in BOOLEAN /\ over \in BOOLEAN
  /\ chunks \in Seq(Chunks) /\ finish \in Seq(Chunks) /\ CallsTyped(calls)
  /\ Seen(args, names, fs, saw) /\ Followed(args, fs, saw, over, calls)
  /\ Capped(saw, over, chunks)
  /\ ~failed => Kept(args, fs, over, chunks, calls)
  /\ toolName' = names /\ sawTool' = saw /\ oversized' = over
  /\ FinalFindings(args, fs, saw, over) \subseteq findings' /\ findings' \subseteq Rules
  /\ declaredTools' = declaredTools
  /\ phase' \in {"reading", "closing", "done"} /\ (phase' = "reading" => ~failed')
  /\ content' \in Seq(Frag) /\ bufBytes' \in 0..MaxToolCallBytes
  /\ upstream' \in Upstreams /\ upstream'.orderly = upstream.orderly
  /\ blocked' \in BOOLEAN /\ (blocked => blocked')

SettledBy(s, calls, fate) ==
  s = Append(settled, [i \in DOMAIN calls |-> [clean |-> calls[i].clean, fate |-> fate]])

LEMMA SettledTyped ==
  ASSUME settled \in Seq(Resolution), NEW calls, CallsTyped(calls),
         NEW fate \in {"sent", "dropped"}, NEW s,
         SettledBy(s, calls, fate)
  PROVE  /\ s \in Seq(Resolution) /\ Len(s) = Len(settled) + 1 /\ Len(settled) \in Nat
         /\ DOMAIN s = 1..(Len(settled) + 1) /\ DOMAIN settled = 1..Len(settled)
         /\ \A b \in DOMAIN settled : s[b] = settled[b]
         /\ DOMAIN s[Len(settled) + 1] = DOMAIN calls
         /\ \A i \in DOMAIN calls : /\ s[Len(settled) + 1][i].clean = calls[i].clean
                                    /\ s[Len(settled) + 1][i].fate = fate
<1>1. PICK r : r = [i \in DOMAIN calls |-> [clean |-> calls[i].clean, fate |-> fate]]
  OBVIOUS
<1>2. DOMAIN calls \subseteq Index
  BY DEF CallsTyped
<1>3. /\ DOMAIN r = DOMAIN calls
      /\ \A i \in DOMAIN calls : r[i] = [clean |-> calls[i].clean, fate |-> fate]
  BY <1>1
<1>4. ASSUME NEW i \in DOMAIN calls
      PROVE  r[i] \in Fate /\ r[i].clean = calls[i].clean /\ r[i].fate = fate
  <2>1. calls[i].clean \in BOOLEAN
    BY DEF CallsTyped, HeldCall
  <2> QED BY <1>3, <2>1 DEF Fate
<1>5. r \in [DOMAIN calls -> Fate]
  BY <1>1, <1>4
<1>6. r \in Resolution
  BY <1>2, <1>5 DEF Resolution
<1>7. s = Append(settled, r)
  BY <1>1 DEF SettledBy
<1>8. /\ s \in Seq(Resolution) /\ Len(s) = Len(settled) + 1 /\ Len(settled) \in Nat
      /\ DOMAIN s = 1..(Len(settled) + 1) /\ DOMAIN settled = 1..Len(settled)
      /\ \A b \in DOMAIN settled : s[b] = settled[b]
      /\ s[Len(settled) + 1] = r
  BY <1>6, <1>7
<1> QED BY <1>3, <1>4, <1>8

LEMMA ResolvedCalls ==
  ASSUME CallInv, NEW args, NEW names, NEW fs, NEW saw, NEW over, NEW chunks, NEW finish,
         NEW calls, Resolves(args, names, fs, saw, over, chunks, finish, calls)
  PROVE  CallInv'
<1>1. /\ Finalize(args, fs, saw, over, chunks, finish, calls)
      /\ args \in [Index -> Inspector] /\ names \in [Index -> Name]
      /\ fs \subseteq Rules /\ findings \subseteq fs
      /\ saw \in BOOLEAN /\ over \in BOOLEAN
      /\ chunks \in Seq(Chunks) /\ finish \in Seq(Chunks) /\ CallsTyped(calls)
      /\ Seen(args, names, fs, saw) /\ Followed(args, fs, saw, over, calls)
      /\ Capped(saw, over, chunks)
      /\ toolName' = names /\ sawTool' = saw /\ oversized' = over
      /\ declaredTools' = declaredTools
      /\ findings' \subseteq Rules
  BY DEF Resolves
<1>2. fs \subseteq findings'
  BY DEF Resolves, FinalFindings
<1>3. PICK k \in Nat : Adds(Resolving(args, fs, saw, over, chunks, finish), k)
  BY <1>1, FinalizeIs DEF CallInv
<1>3a. Leaves(args, fs, saw, over, chunks, calls)
  BY <1>1, FinalizeIs DEF CallInv
<1>4. /\ bufChunks' = <<>> \/ (failed' /\ bufChunks' = chunks)
      /\ droppedTool' = (droppedTool \/ Drops(args, fs, saw, over))
      /\ toolArgs' \in [Index -> Inspector]
      /\ \A i \in Index : /\ toolArgs'[i].live = args[i].live
                          /\ args[i].live \/ args[i].pending = <<>> =>
                               toolArgs'[i].pending = <<>>
      /\ heldCalls' = <<>>
  BY <1>3a, Zenon DEF Leaves
<1>5. settled' = Append(settled,
              [i \in DOMAIN calls |->
                 [ clean |-> calls[i].clean,
                   fate |-> IF Drops(args, fs, saw, over) THEN "dropped" ELSE "sent" ]])
  BY <1>3a, Zenon DEF Leaves
<1>6. settled' \in Seq(Resolution)
  <2>1. PICK fate : fate = IF Drops(args, fs, saw, over) THEN "dropped" ELSE "sent"
    OBVIOUS
  <2>2. fate \in {"sent", "dropped"}
    BY <2>1
  <2>3. PICK s : s = settled'
    OBVIOUS
  <2>4. SettledBy(s, calls, fate)
    BY <1>5, <2>1, <2>3 DEF SettledBy
  <2>5. s \in Seq(Resolution)
    <3>1. settled \in Seq(Resolution)
      BY DEF CallInv, TypeOK
    <3> QED BY <1>1, <2>2, <2>4, <3>1, SettledTyped
  <2> QED BY <2>3, <2>5
<1>7. failed' \in BOOLEAN /\ out' \in Seq(OutFrame)
  BY <1>3 DEF CallInv, TypeOK, Adds
<1>8. bufChunks' \in Seq(Chunks)
  <2>1. bufChunks' = <<>> \/ bufChunks' = chunks
    BY <1>4
  <2>2. <<>> \in Seq(Chunks)
    OBVIOUS
  <2> QED BY <1>1, <2>1, <2>2
<1>9. droppedTool' \in BOOLEAN
  BY <1>4 DEF CallInv, TypeOK
<1>10. TypeOK'
  <2>1. CallsTyped(<<>>)
    BY DEF CallsTyped
  <2>2. CallsTyped(heldCalls)'
    BY <1>4, <2>1 DEF CallsTyped
  <2>3. /\ phase' \in {"reading", "closing", "done"} /\ content' \in Seq(Frag)
        /\ bufBytes' \in 0..MaxToolCallBytes /\ upstream' \in Upstreams /\ blocked' \in BOOLEAN
    BY DEF Resolves
  <2>4. declaredTools' \subseteq ToolName
    BY <1>1 DEF CallInv, TypeOK
  <2> QED BY <1>1, <1>4, <1>6, <1>7, <1>8, <1>9, <2>2, <2>3, <2>4 DEF TypeOK
<1>11. Seen(toolArgs, toolName, findings, sawTool)'
  <2>1. IsHigh(fs) => IsHigh(findings')
    BY <1>2, HighStays
  <2>2. ASSUME NEW i \in Index
        PROVE  /\ names[i] # NoName \/ toolArgs'[i].live => saw
               /\ ~toolArgs'[i].live => toolArgs'[i].pending = <<>>
               /\ Acceptable(names[i]) \/ IsHigh(findings')
    <3>1. /\ names[i] # NoName \/ args[i].live => saw
          /\ ~args[i].live => args[i].pending = <<>>
          /\ Acceptable(names[i]) \/ IsHigh(fs)
      BY <1>1 DEF Seen
    <3>2. /\ toolArgs'[i].live = args[i].live
          /\ args[i].live \/ args[i].pending = <<>> => toolArgs'[i].pending = <<>>
      BY <1>4
    <3> QED BY <2>1, <3>1, <3>2
  <2> QED BY <1>1, <2>2 DEF Seen, Acceptable
<1>12. \A i \in Index : toolArgs'[i].pending = <<>>
  BY <1>1, <1>4 DEF Seen
<1>13. Followed(toolArgs, findings, sawTool, oversized, heldCalls)'
  BY <1>4, <1>12 DEF Followed
<1>14. Capped(sawTool, oversized, bufChunks)'
  BY <1>1, <1>4 DEF Capped
<1>15. (~failed => Kept(toolArgs, findings, oversized, bufChunks, heldCalls))'
  <2> SUFFICES ASSUME ~failed' PROVE Kept(toolArgs, findings, oversized, bufChunks, heldCalls)'
    OBVIOUS
  <2>1. bufChunks' = <<>> /\ heldCalls' = <<>>
    BY <1>4
  <2>2. \A i \in Index : Given(<<>>, i, toolArgs'[i].pending)
    BY GivenNone
  <2> QED BY <2>1, <2>2 DEF Kept
<1>16. phase' = "reading" => ~failed'
  BY DEF Resolves
<1> QED BY <1>10, <1>11, <1>13, <1>14, <1>15, <1>16 DEF CallInv

\* A finish chunk, and the end of the stream.
FinishOf(f, n) == IF Buffers(f, n) THEN <<>> ELSE <<f>>

LEMMA FindingsTyped ==
  ASSUME NEW args \in [Index -> Inspector], NEW fs, fs \subseteq Rules, NEW saw, NEW over
  PROVE  FinalFindings(args, fs, saw, over) \subseteq Rules
<1>1. "oversized-call" \in Rules
  BY DEF Rules, HighRules
<1> QED BY <1>1, ToolsIs DEF FinalFindings

LEMMA ResolveChunkIs ==
  ASSUME CallInv, NEW f \in Frame, NEW n \in Sizes, ResolveChunk(f, n)
  PROVE  /\ f \in Chunks /\ f.kind = "chunk" /\ f.finish # "" /\ Receive(f) /\ Proceed
         /\ content' = IF f.text = NoFrag THEN content ELSE Append(content, f.text)
         /\ UNCHANGED <<declaredTools, blocked>>
         /\ \E args, names, fs, saw, over, chunks, calls :
              /\ Takes(f, n, args, names, fs, saw, over, chunks, calls)
              /\ Resolves(args, names, fs, saw, over, chunks, FinishOf(f, n), calls)
              /\ findings' = FinalFindings(args, fs, saw, over)
<1>1. PICK args : args = ArgsAfter(f)
  OBVIOUS
<1>2. PICK names : names = ToolNameAfter(f)
  OBVIOUS
<1>3. PICK fs : fs = findings \cup NameFindings(f)
  OBVIOUS
<1>4. PICK saw : saw = SawToolAfter(f)
  OBVIOUS
<1>5. PICK over : over = OverAfter(f, n)
  OBVIOUS
<1>6. PICK chunks : chunks = ChunksAfter(f, n)
  OBVIOUS
<1>7. PICK calls : calls = Opened(f, over)
  OBVIOUS
<1>8. Takes(f, n, args, names, fs, saw, over, chunks, calls)
  BY <1>1, <1>2, <1>3, <1>4, <1>5, <1>6, <1>7 DEF Takes
<1>9. /\ f.kind = "chunk" /\ f.finish # "" /\ Receive(f) /\ Accumulate(f) /\ Buffer(f, n)
      /\ Finalize(args, fs, saw, over, chunks, FinishOf(f, n), calls)
      /\ findings' = FinalFindings(args, fs, saw, over)
      /\ Proceed /\ UNCHANGED <<declaredTools, blocked>>
  BY <1>1, <1>3, <1>4, <1>5, <1>6, <1>7, Zenon DEF ResolveChunk, FinishOf
<1>10. f \in Chunks
  BY <1>9, FrameIs
<1>11. phase = "reading" /\ upstream' \in Upstreams /\ upstream'.orderly = upstream.orderly
       /\ ~failed
  BY <1>9, ReceiveIs DEF CallInv
<1>12. /\ args \in [Index -> Inspector] /\ names \in [Index -> Name]
       /\ fs \subseteq Rules /\ findings \subseteq fs
       /\ saw \in BOOLEAN /\ over \in BOOLEAN /\ chunks \in Seq(Chunks)
       /\ CallsTyped(calls)
       /\ Seen(args, names, fs, saw) /\ Followed(args, fs, saw, over, calls)
       /\ Capped(saw, over, chunks) /\ Kept(args, fs, over, chunks, calls)
  BY <1>8, <1>10, <1>11, ChunkTaken
<1>13. FinishOf(f, n) \in Seq(Chunks)
  BY <1>10 DEF FinishOf
<1>14. /\ content' = IF f.text = NoFrag THEN content ELSE Append(content, f.text)
       /\ toolName' = names /\ sawTool' = saw
  BY <1>2, <1>4, <1>9 DEF Accumulate
<1>15. bufBytes' \in 0..MaxToolCallBytes /\ oversized' = over
  BY <1>5, <1>9, BufferIs DEF CallInv
<1>16. content' \in Seq(Frag)
  BY <1>10, <1>14, ContentTyped DEF CallInv
<1>17. findings' \subseteq Rules
  BY <1>9, <1>12, FindingsTyped
<1>18. phase' \in {"reading", "closing", "done"} /\ (phase' = "reading" => ~failed')
  BY <1>9 DEF Proceed
<1>19. blocked' \in BOOLEAN /\ (blocked => blocked')
  BY <1>9 DEF CallInv, TypeOK
<1>20. Resolves(args, names, fs, saw, over, chunks, FinishOf(f, n), calls)
  BY <1>9, <1>11, <1>12, <1>13, <1>14, <1>15, <1>16, <1>17, <1>18, <1>19 DEF Resolves
<1> QED BY <1>8, <1>9, <1>10, <1>14, <1>20

LEMMA CloseIs ==
  ASSUME CallInv, Close, Unresolved
  PROVE  /\ phase = "closing" /\ phase' = "done"
         /\ UNCHANGED <<declaredTools, content, upstream>>
         /\ blocked' = (blocked \/ droppedTool')
         /\ Resolves(toolArgs, toolName, findings, sawTool, oversized, bufChunks, <<>>,
                     heldCalls)
<1>1. /\ phase = "closing" /\ phase' = "done"
      /\ Finalize(toolArgs, findings, sawTool, oversized, bufChunks, <<>>, heldCalls)
      /\ findings' = FinalFindings(toolArgs, findings, sawTool, oversized) \cup Inspect(content)
      /\ blocked' = (blocked \/ droppedTool')
      /\ UNCHANGED <<declaredTools, sawTool, toolName, content, oversized, bufBytes, upstream>>
  BY Zenon DEF Close
<1>2. droppedTool' \in BOOLEAN
  <2>1. <<>> \in Seq(Chunks)
    OBVIOUS
  <2>2. droppedTool' = (droppedTool \/ Drops(toolArgs, findings, sawTool, oversized))
    BY <1>1, <2>1, FinalizeIs DEF CallInv, TypeOK, Leaves
  <2> QED BY <2>2 DEF CallInv, TypeOK
<1>3. blocked' \in BOOLEAN /\ (blocked => blocked')
  BY <1>1, <1>2 DEF CallInv, TypeOK
<1>4. findings' \subseteq Rules
  BY <1>1, FindingsTyped, InspectIs DEF CallInv, TypeOK
<1>5. /\ FinalFindings(toolArgs, findings, sawTool, oversized) \subseteq findings'
      /\ <<>> \in Seq(Chunks)
  BY <1>1
<1>6. Resolves(toolArgs, toolName, findings, sawTool, oversized, bufChunks, <<>>, heldCalls)
  BY <1>1, <1>3, <1>4, <1>5 DEF Resolves, CallInv, TypeOK
<1> QED BY <1>1, <1>6

LEMMA ResolvesIs ==
  ASSUME TypeOK, NEW args, NEW names, NEW fs, NEW saw, NEW over, NEW chunks, NEW finish,
         NEW calls, Resolves(args, names, fs, saw, over, chunks, finish, calls)
  PROVE  /\ \E k \in Nat : Adds(Resolving(args, fs, saw, over, chunks, finish), k)
         /\ Leaves(args, fs, saw, over, chunks, calls)
         /\ \E fate \in {"sent", "dropped"} :
              /\ fate = IF Drops(args, fs, saw, over) THEN "dropped" ELSE "sent"
              /\ SettledBy(settled', calls, fate)
<1>1. /\ Finalize(args, fs, saw, over, chunks, finish, calls)
      /\ args \in [Index -> Inspector] /\ saw \in BOOLEAN /\ over \in BOOLEAN
      /\ chunks \in Seq(Chunks) /\ finish \in Seq(Chunks) /\ CallsTyped(calls)
  BY DEF Resolves
<1>2. /\ \E k \in Nat : Adds(Resolving(args, fs, saw, over, chunks, finish), k)
      /\ Leaves(args, fs, saw, over, chunks, calls)
  BY <1>1, FinalizeIs
<1>3. PICK fate : fate = IF Drops(args, fs, saw, over) THEN "dropped" ELSE "sent"
  OBVIOUS
<1>4. fate \in {"sent", "dropped"}
  BY <1>3
<1>5. SettledBy(settled', calls, fate)
  BY <1>2, <1>3, Zenon DEF Leaves, SettledBy
<1> QED BY <1>2, <1>3, <1>4, <1>5

\* Oversized input: the held calls are given up, and the stream is closed.
Overflows(calls) ==
  /\ phase = "reading" /\ upstream.stage # "done" /\ phase' = "closing"
  /\ "oversized-sse" \in findings' /\ findings \subseteq findings' /\ findings' \subseteq Rules
  /\ blocked' = TRUE /\ bufChunks' = <<>>
  /\ toolArgs' = [i \in Index |-> NoInspector]
  /\ \E k \in Nat : Adds(<<NoteChunk, FinishChunk("stop"), Done>>, k)
  /\ CallsTyped(calls) /\ DOMAIN calls = DOMAIN heldCalls
  /\ \A i \in DOMAIN calls : calls[i].clean = FALSE
  /\ SettledBy(settled', calls, "dropped") /\ heldCalls' = <<>>
  /\ UNCHANGED <<declaredTools, sawTool, toolName, content, oversized, bufBytes,
                 droppedTool, upstream>>

LEMMA OverflowIs ==
  ASSUME TypeOK, OnOversized
  PROVE  \E calls : Overflows(calls)
<1>1. PICK calls : calls = [i \in DOMAIN heldCalls |-> [heldCalls[i] EXCEPT !.clean = FALSE]]
  OBVIOUS
<1>2. /\ phase = "reading" /\ upstream.stage # "done" /\ phase' = "closing"
      /\ findings' = findings \cup {"oversized-sse"}
      /\ blocked' = TRUE /\ bufChunks' = <<>>
      /\ toolArgs' = [i \in Index |-> NoInspector]
      /\ Emit(<<NoteChunk, FinishChunk("stop"), Done>>)
      /\ Settle(calls, "dropped")
      /\ UNCHANGED <<declaredTools, sawTool, toolName, content, oversized, bufBytes,
                     droppedTool, upstream>>
  BY <1>1, Zenon DEF OnOversized
<1>3. "oversized-sse" \in Rules
  BY DEF Rules, HighRules
<1>4. <<NoteChunk, FinishChunk("stop"), Done>> \in Seq(OutFrame)
  <2>1. NoteChunk \in OutFrame /\ FinishChunk("stop") \in OutFrame /\ Done \in OutFrame
    BY ProxyChunks DEF OutFrame, Frame
  <2> QED BY <2>1
<1>5. \E k \in Nat : Adds(<<NoteChunk, FinishChunk("stop"), Done>>, k)
  BY <1>2, <1>4, EmitAdds DEF TypeOK
<1>6. DOMAIN calls = DOMAIN heldCalls
  BY <1>1
<1>7. ASSUME NEW i \in DOMAIN calls PROVE calls[i] \in HeldCall /\ calls[i].clean = FALSE
  <2>1. PICK c : c = heldCalls[i]
    OBVIOUS
  <2>2. c \in HeldCall
    BY <1>6, <2>1 DEF TypeOK, CallsTyped
  <2>3. calls[i] = [c EXCEPT !.clean = FALSE]
    BY <1>1, <1>6, <2>1
  <2> QED BY <2>2, <2>3 DEF HeldCall
<1>8. CallsTyped(calls)
  BY <1>6, <1>7 DEF CallsTyped, TypeOK
<1>9. SettledBy(settled', calls, "dropped") /\ heldCalls' = <<>>
  BY <1>2, Zenon DEF Settle, SettledBy
<1>10. findings' \subseteq Rules
  BY <1>2, <1>3 DEF TypeOK
<1> QED BY <1>2, <1>5, <1>6, <1>7, <1>8, <1>9, <1>10 DEF Overflows

LEMMA OverflowCalls ==
  ASSUME CallInv, NEW calls, Overflows(calls)
  PROVE  CallInv'
<1>1. /\ phase' = "closing" /\ findings \subseteq findings' /\ findings' \subseteq Rules
      /\ blocked' = TRUE /\ bufChunks' = <<>>
      /\ toolArgs' = [i \in Index |-> NoInspector]
      /\ CallsTyped(calls) /\ heldCalls' = <<>>
      /\ UNCHANGED <<declaredTools, sawTool, toolName, content, oversized, bufBytes,
                     droppedTool, upstream>>
  BY DEF Overflows
<1>2. PICK k \in Nat : Adds(<<NoteChunk, FinishChunk("stop"), Done>>, k)
  BY DEF Overflows
<1>3. settled' \in Seq(Resolution)
  <2>1. SettledBy(settled', calls, "dropped")
    BY DEF Overflows
  <2> QED BY <1>1, <2>1, SettledTyped DEF CallInv, TypeOK
<1>4. NoInspector \in Inspector /\ NoInspector.pending = <<>> /\ ~NoInspector.live
  BY DEF NoInspector, Inspector
<1>5. toolArgs' \in [Index -> Inspector] /\ \A i \in Index : toolArgs'[i] = NoInspector
  BY <1>1, <1>4
<1>6. failed' \in BOOLEAN /\ out' \in Seq(OutFrame)
  BY <1>2 DEF CallInv, TypeOK, Adds
<1>7. TypeOK'
  <2>1. CallsTyped(heldCalls)' /\ bufChunks' \in Seq(Chunks)
    BY <1>1 DEF CallsTyped
  <2> QED BY <1>1, <1>3, <1>5, <1>6, <2>1 DEF CallInv, TypeOK
<1>8. Seen(toolArgs, toolName, findings, sawTool)'
  <2>1. IsHigh(findings) => IsHigh(findings')
    BY <1>1, HighStays
  <2> QED BY <1>1, <1>4, <1>5, <2>1 DEF CallInv, Seen, Acceptable
<1>9. Followed(toolArgs, findings, sawTool, oversized, heldCalls)'
  BY <1>1, <1>4, <1>5 DEF Followed
<1>10. Capped(sawTool, oversized, bufChunks)'
  BY <1>1 DEF CallInv, Capped
<1>11. Kept(toolArgs, findings, oversized, bufChunks, heldCalls)'
  <2>1. \A i \in Index : Given(<<>>, i, toolArgs'[i].pending)
    BY GivenNone
  <2> QED BY <1>1, <2>1 DEF Kept
<1> QED BY <1>1, <1>7, <1>8, <1>9, <1>10, <1>11 DEF CallInv

\* The body ends, or the response does without anything left to resolve.
Rests ==
  /\ phase \in {"reading", "closing"} /\ phase' \in {"closing", "done"}
  /\ (phase' = "done" => ~Unresolved /\ blocked' = (blocked \/ droppedTool))
  /\ (phase' # "done" => blocked' = blocked)
  /\ findings \subseteq findings' /\ findings' \subseteq Rules
  /\ UNCHANGED <<declaredTools, sawTool, out, failed, callVars, bufVars, droppedTool,
                 upstream, history>>

LEMMA RestIs ==
  ASSUME TypeOK, UpstreamEnds \/ (Close /\ ~Unresolved)
  PROVE  Rests
<1>1. CASE UpstreamEnds
  <2>1. /\ phase = "reading" /\ phase' = "closing"
        /\ UNCHANGED <<stateVars, callVars, bufVars, droppedTool, upstream, history>>
    BY <1>1 DEF UpstreamEnds
  <2> QED BY <2>1 DEF Rests, stateVars, TypeOK
<1>2. CASE Close /\ ~Unresolved
  <2>1. /\ phase = "closing" /\ phase' = "done"
        /\ findings' = findings \cup Inspect(content)
        /\ UNCHANGED <<out, failed, bufChunks, droppedTool, toolArgs, history>>
        /\ blocked' = (blocked \/ droppedTool')
        /\ UNCHANGED <<declaredTools, sawTool, toolName, content, oversized, bufBytes, upstream>>
    BY <1>2, Zenon DEF Close
  <2>2. findings \subseteq findings' /\ findings' \subseteq Rules
    BY <2>1, InspectIs DEF TypeOK
  <2> QED BY <1>2, <2>1, <2>2 DEF Rests, callVars, bufVars
<1> QED BY <1>1, <1>2

LEMMA RestCalls ==
  ASSUME CallInv, Rests
  PROVE  CallInv'
<1>1. /\ phase' \in {"closing", "done"} /\ findings \subseteq findings' /\ findings' \subseteq Rules
      /\ UNCHANGED <<declaredTools, sawTool, out, failed, toolArgs, toolName, content, oversized,
                     bufChunks, bufBytes, droppedTool, upstream, heldCalls, settled>>
  BY DEF Rests, callVars, bufVars, history
<1>2. blocked' \in BOOLEAN
  BY DEF Rests, CallInv, TypeOK
<1>3. TypeOK'
  BY <1>1, <1>2 DEF CallInv, TypeOK, CallsTyped
<1>4. /\ Seen(toolArgs, toolName, findings', sawTool)
      /\ Followed(toolArgs, findings', sawTool, oversized, heldCalls)
      /\ ~failed => Kept(toolArgs, findings', oversized, bufChunks, heldCalls)
  BY <1>1, MoreFound
<1>5. Seen(toolArgs, toolName, findings, sawTool)'
  BY <1>1, <1>4 DEF Seen, Acceptable
<1>6. Followed(toolArgs, findings, sawTool, oversized, heldCalls)'
  BY <1>1, <1>4 DEF Followed
<1>7. (~failed => Kept(toolArgs, findings, oversized, bufChunks, heldCalls))'
  BY <1>1, <1>4 DEF Kept, Acceptable
<1>8. Capped(sawTool, oversized, bufChunks)'
  BY <1>1 DEF CallInv, Capped
<1> QED BY <1>1, <1>3, <1>5, <1>6, <1>7, <1>8 DEF CallInv

-----------------------------------------------------------------------------
(* The steps *)

\* Every step reads one frame, or none, and does with it one of five things.
LEMMA StepIs ==
  ASSUME CallInv, Next
  PROVE  \/ \E f \in Frame : Passes(f)
         \/ \E f \in Frame, n \in Sizes : HoldChunk(f, n)
         \/ \E f \in Frame, n \in Sizes : ResolveChunk(f, n)
         \/ \E calls : Overflows(calls)
         \/ Rests
         \/ Close /\ Unresolved
<1>1. CASE OnEvent
  <2>1. PICK f \in Arriving : \/ ForwardDone(f) \/ ForwardOther(f)
                              \/ \E n \in Sizes : HoldChunk(f, n) \/ ResolveChunk(f, n)
                              \/ ForwardChunk(f)
    BY <1>1 DEF OnEvent
  <2>2. f \in Frame
    BY DEF Arriving
  <2>3. ForwardDone(f) \/ ForwardOther(f) \/ ForwardChunk(f) => Passes(f)
    BY <2>2, PassIs DEF CallInv
  <2> QED BY <2>1, <2>2, <2>3
<1>2. CASE OnOversized
  BY <1>2, OverflowIs DEF CallInv
<1>3. CASE UpstreamEnds \/ (Close /\ ~Unresolved)
  BY <1>3, RestIs DEF CallInv
<1> QED BY <1>1, <1>2, <1>3 DEF Next

LEMMA CallsKept ==
  ASSUME CallInv, [Next]_vars
  PROVE  CallInv'
<1>1. CASE Next
  <2>1. ASSUME NEW f \in Frame, NEW n \in Sizes, ResolveChunk(f, n) PROVE CallInv'
    <3>1. PICK args, names, fs, saw, over, chunks, calls :
            Resolves(args, names, fs, saw, over, chunks, FinishOf(f, n), calls)
      BY <2>1, ResolveChunkIs
    <3> QED BY <3>1, ResolvedCalls
  <2>2. CASE Close /\ Unresolved
    <3>1. Resolves(toolArgs, toolName, findings, sawTool, oversized, bufChunks, <<>>,
                   heldCalls)
      BY <2>2, CloseIs
    <3> QED BY <3>1, ResolvedCalls
  <2> QED BY <1>1, <2>1, <2>2, StepIs, PassCalls, HoldCalls, OverflowCalls, RestCalls
<1>2. CASE UNCHANGED vars
  BY <1>2 DEF vars, stateVars, callVars, bufVars, history, CallInv, TypeOK, CallsTyped, Seen,
              Acceptable, Followed, Capped, Kept
<1> QED BY <1>1, <1>2

-----------------------------------------------------------------------------
(* Dropped calls are remembered *)

LEMMA ReportedSettled ==
  ASSUME CallInv, Reported, NEW calls, CallsTyped(calls), NEW fate \in {"sent", "dropped"},
         SettledBy(settled', calls, fate),
         droppedTool \/ blocked \/ fate = "dropped" => droppedTool' \/ blocked'
  PROVE  Reported'
<1>1. PICK s : s = settled'
  OBVIOUS
<1>2. /\ DOMAIN s = 1..(Len(settled) + 1) /\ DOMAIN settled = 1..Len(settled)
      /\ Len(settled) \in Nat
      /\ \A b \in DOMAIN settled : s[b] = settled[b]
      /\ DOMAIN s[Len(settled) + 1] = DOMAIN calls
      /\ \A i \in DOMAIN calls : s[Len(settled) + 1][i].fate = fate
  BY <1>1, SettledTyped DEF CallInv, TypeOK
<1>3. SUFFICES ASSUME NEW b \in DOMAIN s, NEW i \in DOMAIN s[b], s[b][i].fate = "dropped"
               PROVE  droppedTool' \/ blocked'
  BY <1>1 DEF Reported, IsDropped
<1>4. CASE b \in DOMAIN settled
  BY <1>2, <1>3, <1>4 DEF Reported, IsDropped
<1>5. CASE b = Len(settled) + 1
  BY <1>2, <1>3, <1>5
<1> QED BY <1>2, <1>4, <1>5

LEMMA ReportedKept ==
  ASSUME CallInv, Reported, [Next]_vars
  PROVE  Reported'
<1>1. ASSUME settled' = settled, droppedTool \/ blocked => droppedTool' \/ blocked'
      PROVE  Reported'
  BY <1>1 DEF Reported, IsDropped
<1>2. ASSUME NEW args, NEW names, NEW fs, NEW saw, NEW over, NEW chunks, NEW finish,
             NEW calls, Resolves(args, names, fs, saw, over, chunks, finish, calls)
      PROVE  Reported'
  <2>1. PICK fate \in {"sent", "dropped"} :
          /\ fate = IF Drops(args, fs, saw, over) THEN "dropped" ELSE "sent"
          /\ SettledBy(settled', calls, fate)
    BY <1>2, ResolvesIs DEF CallInv
  <2>2. droppedTool' = (droppedTool \/ Drops(args, fs, saw, over))
    BY <1>2, ResolvesIs DEF CallInv, Leaves
  <2>3. fate = "dropped" => Drops(args, fs, saw, over)
    BY <2>1
  <2>4. CallsTyped(calls) /\ (blocked => blocked')
    BY <1>2 DEF Resolves
  <2> QED BY <2>1, <2>2, <2>3, <2>4, ReportedSettled
<1>3. CASE Next
  <2>1. ASSUME NEW f \in Frame, Passes(f) PROVE Reported'
    BY <1>1, <2>1 DEF Passes, history
  <2>2. ASSUME NEW f \in Frame, NEW n \in Sizes, HoldChunk(f, n) PROVE Reported'
    BY <1>1, <2>2 DEF HoldChunk
  <2>3. ASSUME NEW f \in Frame, NEW n \in Sizes, ResolveChunk(f, n) PROVE Reported'
    <3>1. PICK args, names, fs, saw, over, chunks, calls :
            Resolves(args, names, fs, saw, over, chunks, FinishOf(f, n), calls)
      BY <2>3, ResolveChunkIs
    <3> QED BY <1>2, <3>1
  <2>4. ASSUME NEW calls, Overflows(calls) PROVE Reported'
    <3>1. CallsTyped(calls) /\ SettledBy(settled', calls, "dropped") /\ blocked' = TRUE
      BY <2>4 DEF Overflows
    <3> QED BY <3>1, ReportedSettled
  <2>5. CASE Rests
    <3>1. /\ settled' = settled /\ droppedTool' = droppedTool
          /\ blocked' = blocked \/ blocked' = (blocked \/ droppedTool)
      BY <2>5 DEF Rests, history
    <3> QED BY <1>1, <3>1 DEF CallInv, TypeOK
  <2>6. CASE Close /\ Unresolved
    BY <1>2, <2>6, CloseIs
  <2> QED BY <1>3, <2>1, <2>2, <2>3, <2>4, <2>5, <2>6, StepIs
<1>4. CASE UNCHANGED vars
  BY <1>1, <1>4 DEF vars, stateVars, history
<1> QED BY <1>3, <1>4

-----------------------------------------------------------------------------
(* Calls in the client's hands *)

ToolFree(frames) ==
  \A j \in DOMAIN frames : ~(frames[j].kind = "chunk" /\ HasTool(frames[j]))

\* Frames without tool data add nothing to the calls.
LEMMA NoToolAdded ==
  ASSUME TypeOK, NEW frames \in Seq(OutFrame), NEW k, Adds(frames, k), ToolFree(frames)
  PROVE  /\ \A p \in DOMAIN out' : IsTool(p)' <=> p \in DOMAIN out /\ IsTool(p)
         /\ (upstream'.orderly => upstream.orderly) /\ declaredTools' = declaredTools
              /\ SentCallsVerified => SentCallsVerified'
<1>1. /\ k \in 0..Len(frames) /\ Len(out) \in Nat /\ Len(frames) \in Nat
      /\ DOMAIN out' = 1..(Len(out) + k) /\ DOMAIN out = 1..Len(out)
      /\ \A p \in 1..Len(out) : out'[p] = out[p]
      /\ \A j \in 1..k : out'[Len(out) + j] = frames[j]
  BY DEF Adds, TypeOK
<1>2. ASSUME NEW p \in DOMAIN out', p \notin DOMAIN out
      PROVE  ~(out'[p].kind = "chunk" /\ HasTool(out'[p]))
  <2>1. PICK j \in 1..k : p = Len(out) + j
    <3>1. p - Len(out) \in 1..k /\ p = Len(out) + (p - Len(out))
      BY <1>1, <1>2
    <3> QED BY <3>1
  <2>2. out'[p] = frames[j] /\ j \in DOMAIN frames
    BY <1>1, <2>1
  <2> QED BY <2>2 DEF ToolFree
<1>3. DOMAIN out \subseteq DOMAIN out'
  BY <1>1
<1>4. \A p \in DOMAIN out' : IsTool(p)' <=> p \in DOMAIN out /\ IsTool(p)
  BY <1>1, <1>2, <1>3 DEF IsTool, IsChunk
<1>5. ASSUME upstream'.orderly => upstream.orderly, declaredTools' = declaredTools,
             SentCallsVerified, upstream'.orderly
      PROVE  SentCallsVerified'
  <2>1. ASSUME NEW p \in DOMAIN out', IsTool(p)'
        PROVE  declaredTools # {} /\ Tool(out'[p]).name \in declaredTools \cup {NoName}
    <3>1. p \in DOMAIN out /\ IsTool(p) /\ out'[p] = out[p]
      BY <1>1, <1>4, <2>1
    <3> QED BY <1>5, <3>1 DEF SentCallsVerified, IsTool
  <2>2. ASSUME NEW i \in Index, NEW p
        PROVE  IsArg(i, p)' <=> p \in DOMAIN out /\ IsArg(i, p)
    BY <1>1, <1>2, <1>3 DEF IsArg, IsChunk
  <2>3. ASSUME NEW i \in Index, NEW p \in DOMAIN out', NEW q \in DOMAIN out', NextArg(i, p, q)',
               Tool(out'[p]).frag = "head", Tool(out'[q]).frag = "tail"
        PROVE  FALSE
    <3>1. IsArg(i, p)' /\ IsArg(i, q)' /\ p < q /\ \A m \in (p + 1)..(q - 1) : ~IsArg(i, m)'
      BY <2>3 DEF NextArg
    <3>2. /\ p \in DOMAIN out /\ q \in DOMAIN out /\ IsArg(i, p) /\ IsArg(i, q)
          /\ out'[p] = out[p] /\ out'[q] = out[q]
      BY <1>1, <2>2, <3>1
    <3>3. ASSUME NEW m \in (p + 1)..(q - 1), IsArg(i, m) PROVE FALSE
      <4>1. m \in DOMAIN out
        BY <3>3 DEF IsArg, IsChunk
      <4> QED BY <2>2, <3>1, <3>3, <4>1
    <3>4. NextArg(i, p, q)
      BY <3>1, <3>2, <3>3 DEF NextArg
    <3> QED BY <1>5, <2>3, <3>2, <3>4 DEF SentCallsVerified
  <2>4. \A p \in DOMAIN out' : IsChunk(p)' /\ HasTool(out'[p]) =>
          declaredTools' # {} /\ Tool(out'[p]).name \in declaredTools' \cup {NoName}
    BY <1>5, <2>1 DEF IsTool
  <2> QED BY <2>3, <2>4 DEF SentCallsVerified
<1> QED BY <1>4, <1>5 DEF SentCallsVerified

\* Held chunks, released to a client that has seen no call yet.
LEMMA VerifiedAdded ==
  ASSUME TypeOK, NEW chunks \in Seq(Chunks), NEW finish \in Seq(Chunks), ToolFree(finish),
         NEW k, Adds(chunks \o finish, k), declaredTools' = declaredTools,
         \A p \in DOMAIN out : ~IsTool(p), Sendable(chunks)
  PROVE  SentCallsVerified'
<1>1. PICK fr : fr = chunks \o finish
  OBVIOUS
<1>2. /\ Len(fr) = Len(chunks) + Len(finish) /\ Len(chunks) \in Nat /\ Len(finish) \in Nat
      /\ DOMAIN chunks = 1..Len(chunks)
      /\ \A j \in 1..Len(chunks) : fr[j] = chunks[j]
      /\ \A j \in 1..Len(finish) : fr[Len(chunks) + j] = finish[j]
  BY <1>1
<1>3. /\ k \in 0..Len(fr) /\ Len(out) \in Nat
      /\ DOMAIN out' = 1..(Len(out) + k) /\ DOMAIN out = 1..Len(out)
      /\ \A p \in 1..Len(out) : out'[p] = out[p]
      /\ \A j \in 1..k : out'[Len(out) + j] = fr[j]
  <2>1. Adds(fr, k)
    BY <1>1
  <2>2. /\ k \in 0..Len(fr) /\ out' \in Seq(OutFrame) /\ Len(out') = Len(out) + k
        /\ \A p \in 1..Len(out) : out'[p] = out[p]
        /\ \A j \in 1..k : out'[Len(out) + j] = fr[j]
    BY <2>1 DEF Adds
  <2>3. out \in Seq(OutFrame)
    BY DEF TypeOK
  <2> QED BY <1>2, <2>2, <2>3
<1>4. PICK m : m = Len(out)
  OBVIOUS
\* A tool frame in the stream is one of the chunks.
<1>5. ASSUME NEW p \in DOMAIN out', out'[p].kind = "chunk", HasTool(out'[p])
      PROVE  p - m \in DOMAIN chunks /\ out'[p] = chunks[p - m]
  <2>1. p \notin 1..m
    BY <1>3, <1>4, <1>5 DEF IsTool, IsChunk
  <2>2. p - m \in 1..k /\ p = m + (p - m)
    BY <1>3, <1>4, <2>1
  <2>3. PICK j \in 1..k : j = p - m
    BY <2>2
  <2>4. out'[p] = fr[j]
    BY <1>3, <1>4, <2>2, <2>3
  <2>5. j \in 1..Len(chunks)
    <3> SUFFICES ASSUME j \notin 1..Len(chunks) PROVE FALSE
      OBVIOUS
    <3>1. PICK l \in 1..Len(finish) : j = Len(chunks) + l
      <4>1. j - Len(chunks) \in 1..Len(finish) /\ j = Len(chunks) + (j - Len(chunks))
        BY <1>2, <1>3
      <4> QED BY <4>1
    <3>2. out'[p] = finish[l] /\ l \in DOMAIN finish
      BY <1>2, <2>4, <3>1
    <3> QED BY <1>5, <3>2 DEF ToolFree
  <2> QED BY <1>2, <2>3, <2>4, <2>5
<1>6. \A p \in DOMAIN out' : IsChunk(p)' /\ HasTool(out'[p]) =>
        declaredTools # {} /\ Tool(out'[p]).name \in declaredTools \cup {NoName}
  BY <1>5 DEF IsChunk, Acceptable, Sendable
<1>7. ASSUME NEW i \in Index, NEW p, IsArg(i, p)'
      PROVE  p \in DOMAIN out' /\ ArgIn(chunks, i, p - m) /\ out'[p] = chunks[p - m]
  <2>1. /\ p \in DOMAIN out' /\ out'[p].kind = "chunk" /\ HasTool(out'[p])
        /\ Tool(out'[p]).index = i /\ Tool(out'[p]).frag # NoFrag
    BY <1>7 DEF IsArg, IsChunk
  <2> QED BY <1>5, <2>1 DEF ArgIn
<1>8. ASSUME NEW i \in Index, NEW p \in DOMAIN out', NEW q \in DOMAIN out', NextArg(i, p, q)',
             Tool(out'[p]).frag = "head", Tool(out'[q]).frag = "tail"
      PROVE  FALSE
  <2>1. IsArg(i, p)' /\ IsArg(i, q)' /\ p < q /\ \A l \in (p + 1)..(q - 1) : ~IsArg(i, l)'
    BY <1>8 DEF NextArg
  <2>2. PICK a, b : a = p - m /\ b = q - m
    OBVIOUS
  <2>3. /\ ArgIn(chunks, i, a) /\ ArgIn(chunks, i, b)
        /\ out'[p] = chunks[a] /\ out'[q] = chunks[b]
    BY <1>7, <2>1, <2>2
  <2>4. a \in 1..Len(chunks) /\ b \in 1..Len(chunks) /\ a < b
    <3>1. a \in DOMAIN chunks /\ b \in DOMAIN chunks
      BY <2>3 DEF ArgIn
    <3>2. p \in Nat /\ q \in Nat /\ m \in Nat
      BY <1>3, <1>4
    <3> QED BY <1>2, <2>1, <2>2, <3>1, <3>2
  <2>5. ASSUME NEW l \in (a + 1)..(b - 1), ArgIn(chunks, i, l) PROVE FALSE
    <3>1. PICK r : r = m + l
      OBVIOUS
    <3>2. p \in Nat /\ q \in Nat /\ m \in Nat /\ p = m + a /\ q = m + b
      <4>1. p \in Nat /\ q \in Nat /\ m \in Nat
        BY <1>3, <1>4
      <4> QED BY <2>2, <4>1
    <3>3. r \in (p + 1)..(q - 1) /\ l \in 1..k
      <4>1. b <= k
        BY <1>2, <1>3, <1>4, <2>4, <3>2
      <4> QED BY <1>2, <1>3, <2>4, <3>1, <3>2, <4>1
    <3>4. r \in DOMAIN out'
      BY <1>3, <1>4, <3>1, <3>3
    <3>5. out'[r] = chunks[l]
      BY <1>2, <1>3, <1>4, <2>4, <3>1, <3>3
    <3>6. chunks[l] \in Chunks
      BY <1>2, <2>4
    <3>7. IsArg(i, r)'
      BY <2>5, <3>4, <3>5, <3>6, ChunkIs DEF IsArg, IsChunk, ArgIn
    <3> QED BY <2>1, <3>3, <3>7
  <2>6. NextIn(chunks, i, a, b)
    BY <2>3, <2>4, <2>5 DEF NextIn
  <2>7. a \in DOMAIN chunks /\ b \in DOMAIN chunks
    BY <2>3 DEF ArgIn
  <2> QED BY <1>8, <2>3, <2>6, <2>7 DEF Sendable
<1> QED BY <1>6, <1>8 DEF SentCallsVerified

LEMMA NothingAdded ==
  ASSUME NEW frames, NEW k, failed, Adds(frames, k)
  PROVE  Adds(<<>>, 0)
BY DEF Adds

LEMMA ReplacementToolFree ==
  ASSUME NEW chunks \in Seq(Chunks), NEW finish \in Seq(Chunks)
  PROVE  ToolFree(Replacement(chunks, finish)) /\ Replacement(chunks, finish) \in Seq(OutFrame)
<1>1. PICK fs : fs = Replacement(chunks, finish)
  OBVIOUS
<1>2. PICK n \in Nat : n = Len(fs)
  BY <1>1, ReplacementIs
<1>3. /\ fs \in Seq(Chunks \cup {NoteChunk}) /\ n >= 2
      /\ \A p \in 1..(n - 2) : fs[p] \in TextFrames
      /\ fs[n - 1] = NoteChunk /\ fs[n] = FinishChunk("stop")
  BY <1>1, <1>2, ReplacementIs
<1>4. ASSUME NEW j \in DOMAIN fs PROVE ~(fs[j].kind = "chunk" /\ HasTool(fs[j]))
  <2>1. j \in 1..(n - 2) \/ j = n - 1 \/ j = n
    BY <1>2, <1>3
  <2>2. CASE j \in 1..(n - 2)
    BY <1>3, <2>2, TextFrameIs
  <2>3. CASE j = n - 1
    <3>1. fs[j].kind = "note"
      BY <1>3, <2>3, FramesDiffer
    <3> QED BY <3>1
  <2>4. CASE j = n
    BY <1>3, <2>4, ProxyChunks
  <2> QED BY <2>1, <2>2, <2>3, <2>4
<1>5. fs \in Seq(OutFrame)
  BY <1>3 DEF OutFrame, Frame
<1> QED BY <1>1, <1>4, <1>5 DEF ToolFree

LEMMA NoneUnfinished == Unfinished(<<>>)
<1>1. \A c : c = <<>> => DOMAIN c = {}
  OBVIOUS
<1>2. PICK c : c = <<>>
  OBVIOUS
<1>3. Unfinished(c)
  BY <1>1, <1>2 DEF Unfinished
<1> QED BY <1>2, <1>3

LEMMA SameCallsVerified ==
  ASSUME TypeOK, SentCallsVerified, UNCHANGED <<declaredTools, out, failed>>,
         upstream'.orderly = upstream.orderly
  PROVE  SentCallsVerified'
<1>1. Adds(<<>>, 0) /\ <<>> \in Seq(OutFrame) /\ ToolFree(<<>>)
  BY DEF Adds, TypeOK, ToolFree
<1> QED BY <1>1, NoToolAdded

\* A resolution of what an orderly upstream sent.
OrderlyResolution(chunks, finish) ==
  /\ upstream.orderly /\ chunks = bufChunks /\ ToolFree(finish)
  /\ chunks # <<>> => failed \/ \A p \in DOMAIN out : ~IsTool(p)
  /\ ~(upstream'.stage = "chunks" /\ phase' = "reading")

LEMMA VerifiedResolved ==
  ASSUME CallInv, InOrder, SentCallsVerified, NEW args, NEW names, NEW fs, NEW saw, NEW over,
         NEW chunks, NEW finish, NEW calls,
         Resolves(args, names, fs, saw, over, chunks, finish, calls),
         OrderlyResolution(chunks, finish)
  PROVE  InOrder' /\ SentCallsVerified'
<1>1. /\ args \in [Index -> Inspector] /\ saw \in BOOLEAN /\ over \in BOOLEAN
      /\ chunks \in Seq(Chunks) /\ finish \in Seq(Chunks) /\ CallsTyped(calls)
      /\ Followed(args, fs, saw, over, calls)
      /\ ~failed => Kept(args, fs, over, chunks, calls)
      /\ declaredTools' = declaredTools /\ upstream'.orderly = upstream.orderly
  BY DEF Resolves
<1>2. PICK k \in Nat : Adds(Resolving(args, fs, saw, over, chunks, finish), k)
  BY ResolvesIs DEF CallInv
<1>3. bufChunks' = <<>> \/ (failed' /\ bufChunks' = chunks)
  BY ResolvesIs DEF CallInv, Leaves
<1>4. upstream.orderly /\ chunks = bufChunks
  BY DEF OrderlyResolution
<1>5. InOrder'
  <2>1. Unfinished(bufChunks')
    BY <1>3, <1>4, NoneUnfinished DEF InOrder
  <2>2. ~failed' => bufChunks' = <<>>
    BY <1>3
  <2>3. ~(upstream'.stage = "chunks" /\ phase' = "reading")
    BY DEF OrderlyResolution
  <2> QED BY <1>3, <2>1, <2>2, <2>3, Zenon DEF InOrder
<1>6. SentCallsVerified'
  <2>1. CASE failed
    <3>1. Adds(<<>>, 0) /\ <<>> \in Seq(OutFrame) /\ ToolFree(<<>>)
      BY <1>2, <2>1, NothingAdded DEF ToolFree
    <3> QED BY <1>1, <3>1, NoToolAdded DEF CallInv
  <2>2. CASE Drops(args, fs, saw, over)
    <3>1. Adds(Replacement(chunks, finish), k)
      BY <1>2, <2>2 DEF Resolving
    <3>2. /\ ToolFree(Replacement(chunks, finish))
          /\ Replacement(chunks, finish) \in Seq(OutFrame)
      BY <1>1, ReplacementToolFree
    <3> QED BY <1>1, <3>1, <3>2, NoToolAdded DEF CallInv
  <2>3. CASE ~failed /\ ~Drops(args, fs, saw, over) /\ chunks # <<>>
    <3>1. Adds(chunks \o finish, k)
      BY <1>2, <2>3 DEF Resolving
    <3>2. Sendable(chunks)
      BY <1>1, <2>3, SentIsClean
    <3>3. ToolFree(finish) /\ \A p \in DOMAIN out : ~IsTool(p)
      BY <2>3 DEF OrderlyResolution
    <3> QED BY <1>1, <3>1, <3>2, <3>3, VerifiedAdded DEF CallInv
  <2>4. CASE ~Drops(args, fs, saw, over) /\ chunks = <<>>
    <3>1. Adds(chunks \o finish, k)
      BY <1>2, <2>4 DEF Resolving
    <3>2. chunks \o finish = finish
      BY <1>1, <2>4
    <3>3. Adds(finish, k) /\ ToolFree(finish)
      BY <3>1, <3>2 DEF OrderlyResolution
    <3>4. finish \in Seq(OutFrame)
      BY <1>1 DEF OutFrame, Frame
    <3> QED BY <1>1, <3>3, <3>4, NoToolAdded DEF CallInv
  <2> QED BY <2>1, <2>2, <2>3, <2>4
<1> QED BY <1>5, <1>6

LEMMA VerifiedKept ==
  ASSUME CallInv, InOrder, SentCallsVerified, [Next]_vars
  PROVE  InOrder' /\ SentCallsVerified'
<1>1. ASSUME NEW f \in Frame, Passes(f) PROVE InOrder' /\ SentCallsVerified'
  <2>1. PICK k \in Nat : Adds(<<f>>, k)
    BY <1>1 DEF Passes
  <2>2. /\ declaredTools' = declaredTools /\ bufChunks' = bufChunks
        /\ Receive(f) /\ Proceed
        /\ f.kind = "chunk" => ~HasTool(f) /\ f.finish = ""
    BY <1>1 DEF Passes, bufVars
  <2>3. /\ phase = "reading" /\ upstream'.orderly = upstream.orderly
        /\ upstream.orderly /\ upstream'.stage = "chunks" => upstream.stage = "chunks"
        /\ upstream.orderly /\ upstream'.stage # "chunks" /\ upstream.stage = "chunks" =>
             f.kind = "other" \/ f.kind = "done"
    BY <2>2, FrameIs, ReceiveIs DEF CallInv
  <2>4. ToolFree(<<f>>) /\ <<f>> \in Seq(OutFrame)
    <3>1. <<f>> \in Seq(OutFrame) /\ DOMAIN <<f>> = {1} /\ <<f>>[1] = f
      BY DEF OutFrame
    <3> QED BY <2>2, <3>1 DEF ToolFree
  <2>5. \A p \in DOMAIN out' : IsTool(p)' <=> p \in DOMAIN out /\ IsTool(p)
    BY <2>1, <2>4, NoToolAdded DEF CallInv
  <2>6. SentCallsVerified'
    BY <2>1, <2>2, <2>3, <2>4, NoToolAdded DEF CallInv
  <2>7. upstream.orderly => /\ upstream'.stage = "chunks" \/ upstream.stage # "chunks"
    BY <2>2, <2>3, FrameIs, ReceiveIs DEF CallInv
  <2>8. failed => failed'
    BY <2>1 DEF Adds
  <2>9. InOrder'
    BY <2>2, <2>3, <2>5, <2>7, <2>8 DEF InOrder
  <2> QED BY <2>6, <2>9
<1>2. ASSUME NEW f \in Frame, NEW n \in Sizes, HoldChunk(f, n) PROVE InOrder' /\ SentCallsVerified'
  <2>1. /\ f \in Chunks /\ f.kind = "chunk" /\ f.finish = "" /\ Receive(f)
        /\ Takes(f, n, toolArgs', toolName', findings', sawTool', oversized', bufChunks',
                 heldCalls')
        /\ UNCHANGED <<declaredTools, out, failed, phase>>
    BY <1>2, HoldIs DEF CallInv
  <2>2. /\ phase = "reading" /\ upstream'.orderly = upstream.orderly
        /\ upstream.orderly => upstream.stage = "chunks" /\ upstream'.stage = "chunks"
    BY <2>1, ReceiveIs DEF CallInv
  <2>3. bufChunks' = bufChunks \/ bufChunks' = <<>> \/ bufChunks' = Append(bufChunks, f)
    BY <2>1 DEF Takes, ChunksAfter
  <2>4. upstream.orderly => Unfinished(bufChunks')
    <3> SUFFICES ASSUME upstream.orderly PROVE Unfinished(bufChunks')
      OBVIOUS
    <3>1. bufChunks \in Seq(Chunks) /\ Unfinished(bufChunks)
      BY DEF InOrder, CallInv, TypeOK
    <3>2. Unfinished(Append(bufChunks, f))
      <4>1. PICK s : s = Append(bufChunks, f)
        OBVIOUS
      <4>2. /\ DOMAIN s = 1..(Len(bufChunks) + 1) /\ s[Len(bufChunks) + 1] = f
            /\ DOMAIN bufChunks = 1..Len(bufChunks)
            /\ \A l \in 1..Len(bufChunks) : s[l] = bufChunks[l]
        BY <3>1, <4>1
      <4>3. Len(bufChunks) \in Nat
        BY <3>1
      <4>4. Unfinished(s)
        <5>1. f.finish = ""
          BY <2>1
        <5>2. ASSUME NEW l \in DOMAIN s PROVE s[l].finish = ""
          <6>1. l \in 1..Len(bufChunks) \/ l = Len(bufChunks) + 1
            BY <4>2, <4>3
          <6>2. CASE l \in 1..Len(bufChunks)
            <7>1. s[l] = bufChunks[l] /\ l \in DOMAIN bufChunks
              BY <4>2, <6>2
            <7> QED BY <3>1, <7>1 DEF Unfinished
          <6>3. CASE l = Len(bufChunks) + 1
            BY <4>2, <5>1, <6>3
          <6> QED BY <6>1, <6>2, <6>3
        <5> QED BY <5>2, Zenon DEF Unfinished
      <4> QED BY <4>1, <4>4
    <3> QED BY <2>3, <3>1, <3>2, NoneUnfinished
  <2>5. InOrder'
    BY <2>1, <2>2, <2>4 DEF InOrder, IsTool, IsChunk
  <2>6. SentCallsVerified'
    BY <2>1, <2>2, SameCallsVerified DEF CallInv
  <2> QED BY <2>5, <2>6
<1>3. ASSUME NEW f \in Frame, NEW n \in Sizes, ResolveChunk(f, n)
      PROVE  InOrder' /\ SentCallsVerified'
  <2>1. /\ f \in Chunks /\ f.kind = "chunk" /\ f.finish # "" /\ Receive(f)
    BY <1>3, ResolveChunkIs
  <2>2. PICK args, names, fs, saw, over, chunks, calls :
          /\ Takes(f, n, args, names, fs, saw, over, chunks, calls)
          /\ Resolves(args, names, fs, saw, over, chunks, FinishOf(f, n), calls)
    BY <1>3, ResolveChunkIs
  <2>3. /\ phase = "reading" /\ upstream'.orderly = upstream.orderly
        /\ upstream.orderly => /\ upstream.stage = "chunks" /\ upstream'.stage = "finished"
                               /\ Unmixed(f)
    BY <2>1, ReceiveIs DEF CallInv
  <2>4. CASE upstream.orderly
    <3>1. ~HasTool(f)
      BY <2>1, <2>3, <2>4 DEF Unmixed
    <3>2. chunks = bufChunks
      BY <2>2, <3>1, TextTaken DEF CallInv
    <3>3. ToolFree(FinishOf(f, n))
      BY <3>1 DEF FinishOf, ToolFree
    <3>4. failed \/ \A p \in DOMAIN out : ~IsTool(p)
      BY <2>3, <2>4 DEF InOrder
    <3>5. OrderlyResolution(chunks, FinishOf(f, n))
      BY <2>3, <2>4, <3>2, <3>3, <3>4 DEF OrderlyResolution
    <3> QED BY <2>2, <3>5, VerifiedResolved
  <2>5. CASE ~upstream.orderly
    BY <2>3, <2>5 DEF InOrder, SentCallsVerified
  <2> QED BY <2>4, <2>5
<1>4. ASSUME NEW calls, Overflows(calls) PROVE InOrder' /\ SentCallsVerified'
  <2>1. PICK frames : frames = <<NoteChunk, FinishChunk("stop"), Done>>
    OBVIOUS
  <2>2. PICK k \in Nat : Adds(frames, k)
    BY <1>4, <2>1 DEF Overflows
  <2>3. frames \in Seq(OutFrame) /\ ToolFree(frames)
    <3>1. NoteChunk \in OutFrame /\ FinishChunk("stop") \in OutFrame /\ Done \in OutFrame
      BY ProxyChunks DEF OutFrame, Frame
    <3>2. NoteChunk.kind = "note" /\ ~HasTool(FinishChunk("stop")) /\ Done.kind = "done"
      BY FramesDiffer, ProxyChunks
    <3>3. frames \in Seq(OutFrame) /\ DOMAIN frames = 1..3
      BY <2>1, <3>1
    <3>4. /\ frames[1].kind = "note" /\ ~HasTool(frames[2]) /\ frames[3].kind = "done"
      BY <2>1, <3>2
    <3>5. \A j \in 1..3 : j = 1 \/ j = 2 \/ j = 3
      OBVIOUS
    <3> QED BY <3>3, <3>4, <3>5 DEF ToolFree
  <2>4. declaredTools' = declaredTools /\ upstream' = upstream /\ bufChunks' = <<>>
        /\ phase' = "closing"
    BY <1>4 DEF Overflows
  <2>5. SentCallsVerified'
    BY <2>2, <2>3, <2>4, NoToolAdded DEF CallInv
  <2>6. InOrder'
    <3>1. Unfinished(bufChunks')
      BY <2>4, NoneUnfinished
    <3> QED BY <2>4, <3>1 DEF InOrder
  <2> QED BY <2>5, <2>6
<1>5. CASE Rests
  <2>1. /\ UNCHANGED <<declaredTools, out, failed, bufChunks, upstream>>
        /\ phase' \in {"closing", "done"}
    BY <1>5 DEF Rests, bufVars
  <2>2. SentCallsVerified'
    BY <2>1, SameCallsVerified DEF CallInv
  <2>3. InOrder'
    BY <2>1 DEF InOrder, IsTool, IsChunk
  <2> QED BY <2>2, <2>3
<1>6. CASE Close /\ Unresolved
  <2>1. /\ Resolves(toolArgs, toolName, findings, sawTool, oversized, bufChunks, <<>>, heldCalls)
        /\ phase' = "done" /\ upstream' = upstream
    BY <1>6, CloseIs
  <2>2. CASE upstream.orderly
    <3>1. OrderlyResolution(bufChunks, <<>>)
      <4>1. bufChunks # <<>> => failed \/ \A p \in DOMAIN out : ~IsTool(p)
        BY <2>2 DEF InOrder
      <4>2. ToolFree(<<>>)
        BY DEF ToolFree
      <4> QED BY <2>1, <2>2, <4>1, <4>2 DEF OrderlyResolution
    <3> QED BY <2>1, <3>1, VerifiedResolved
  <2>3. CASE ~upstream.orderly
    BY <2>1, <2>3 DEF InOrder, SentCallsVerified
  <2> QED BY <2>2, <2>3
<1>7. CASE UNCHANGED vars
  <2>1. UNCHANGED <<declaredTools, out, failed, bufChunks, upstream, phase>>
    BY <1>7 DEF vars, stateVars, callVars, bufVars
  <2>2. SentCallsVerified'
    BY <2>1, SameCallsVerified DEF CallInv
  <2>3. InOrder'
    BY <2>1 DEF InOrder, IsTool, IsChunk
  <2> QED BY <2>2, <2>3
<1> QED BY <1>1, <1>2, <1>3, <1>4, <1>5, <1>6, <1>7, StepIs

-----------------------------------------------------------------------------
(* The end of the stream *)

LEMMA CleanAdded ==
  ASSUME TypeOK, NEW frames \in Seq(OutFrame), NEW k, Adds(frames, k),
         Running(out), Clean(out), Clean(frames), Endless(out) \/ Endless(frames)
  PROVE  /\ Clean(out')
         /\ Running(frames) => Running(out')
         /\ Endless(out) /\ Endless(frames) => Endless(out')
         /\ Toolless(out) /\ Toolless(frames) => Toolless(out')
<1>1. PICK m : m = Len(out)
  OBVIOUS
<1>2. PICK o : o = out'
  OBVIOUS
<1>3. /\ k \in 0..Len(frames) /\ m \in Nat /\ Len(frames) \in Nat /\ k \in Nat
      /\ DOMAIN o = 1..(m + k) /\ Len(o) = m + k /\ DOMAIN out = 1..m
      /\ DOMAIN frames = 1..Len(frames)
      /\ \A p \in 1..m : o[p] = out[p]
      /\ \A j \in 1..k : o[m + j] = frames[j]
  BY <1>1, <1>2 DEF Adds, TypeOK
\* Where a frame of the new stream comes from.
<1>4. ASSUME NEW p \in DOMAIN o
      PROVE  \/ p \in DOMAIN out /\ o[p] = out[p]
             \/ p - m \in DOMAIN frames /\ o[p] = frames[p - m] /\ p - m <= k
  <2>1. CASE p \in 1..m
    BY <1>3, <2>1
  <2>2. CASE p \notin 1..m
    <3>1. PICK j \in 1..k : j = p - m
      BY <1>3, <2>2
    <3>2. p = m + j
      BY <1>3, <3>1
    <3>3. o[p] = frames[j] /\ j \in DOMAIN frames
      BY <1>3, <3>1, <3>2
    <3> QED BY <1>3, <3>1, <3>3
  <2> QED BY <2>1, <2>2
<1>5. \A p \in DOMAIN out : p \in 1..m
  BY <1>3
<1>6. ASSUME NEW p \in DOMAIN o, NEW q \in DOMAIN o, Ends(o[p]), Ends(o[q])
      PROVE  p = q
  <2>1. CASE Endless(out)
    <3>1. p - m \in DOMAIN frames /\ o[p] = frames[p - m]
      BY <1>4, <1>6, <2>1 DEF Endless
    <3>2. q - m \in DOMAIN frames /\ o[q] = frames[q - m]
      BY <1>4, <1>6, <2>1 DEF Endless
    <3>3. p - m = q - m
      BY <1>6, <3>1, <3>2 DEF Clean
    <3> QED BY <1>3, <3>3
  <2>2. CASE Endless(frames)
    <3>1. p \in DOMAIN out /\ o[p] = out[p] /\ q \in DOMAIN out /\ o[q] = out[q]
      BY <1>4, <1>6, <2>2 DEF Endless
    <3> QED BY <1>6, <3>1 DEF Clean
  <2> QED BY <2>1, <2>2
<1>7. ASSUME NEW p \in DOMAIN o, NEW q \in DOMAIN o, o[p] = NoteChunk, o[q].kind = "chunk",
             o[q].finish = "tool_calls"
      PROVE  FALSE
  <2>1. Ends(o[q])
    BY <1>7 DEF Ends
  <2>2. CASE Endless(out)
    <3>1. p - m \in DOMAIN frames /\ o[p] = frames[p - m]
      BY <1>4, <1>7, <2>2 DEF Endless
    <3>2. q - m \in DOMAIN frames /\ o[q] = frames[q - m]
      BY <1>4, <2>1, <2>2 DEF Endless
    <3> QED BY <1>7, <3>1, <3>2 DEF Clean
  <2>3. CASE Endless(frames)
    <3>1. p \in DOMAIN out /\ o[p] = out[p]
      BY <1>4, <1>7, <2>3 DEF Endless
    <3>2. q \in DOMAIN out /\ o[q] = out[q]
      BY <1>4, <2>1, <2>3 DEF Endless
    <3> QED BY <1>7, <3>1, <3>2 DEF Clean
  <2> QED BY <2>2, <2>3
<1>8. ASSUME NEW p \in DOMAIN o, o[p] = Done PROVE p = Len(o)
  <2>1. p - m \in DOMAIN frames /\ o[p] = frames[p - m] /\ p - m <= k
    BY <1>4, <1>8 DEF Running
  <2>2. p - m = Len(frames)
    BY <1>8, <2>1 DEF Clean
  <2> QED BY <1>3, <2>1, <2>2
<1>9. Clean(o)
  BY <1>6, <1>7, <1>8 DEF Clean
<1>10. Running(frames) => Running(o)
  BY <1>4 DEF Running
<1>11. Endless(out) /\ Endless(frames) => Endless(o)
  BY <1>4 DEF Endless
<1>12. Toolless(out) /\ Toolless(frames) => Toolless(o)
  BY <1>4 DEF Toolless
<1> QED BY <1>2, <1>9, <1>10, <1>11, <1>12

LEMMA EndlessToolless ==
  ASSUME NEW s, Endless(s)
  PROVE  Toolless(s)
BY DEF Endless, Toolless, Ends

LEMMA ChunkRuns ==
  ASSUME NEW f \in Chunks
  PROVE  f # NoteChunk /\ f # Done
BY ChunkIs, FramesDiffer

LEMMA NoneEnds ==
  Endless(<<>>) /\ Running(<<>>) /\ Clean(<<>>) /\ Toolless(<<>>)
<1>1. PICK c : c = <<>>
  OBVIOUS
<1>2. DOMAIN c = {}
  BY <1>1
<1>3. Endless(c) /\ Running(c) /\ Clean(c) /\ Toolless(c)
  BY <1>2 DEF Endless, Running, Clean, Toolless
<1> QED BY <1>1, <1>3

\* What a resolution writes ends as it should.
LEMMA ReplacementEnds ==
  ASSUME NEW chunks \in Seq(Chunks), NEW finish \in Seq(Chunks)
  PROVE  /\ Clean(Replacement(chunks, finish)) /\ Running(Replacement(chunks, finish))
         /\ Toolless(Replacement(chunks, finish))
<1>1. PICK fs : fs = Replacement(chunks, finish)
  OBVIOUS
<1>2. PICK n \in Nat : n = Len(fs)
  BY <1>1, ReplacementIs
<1>3. /\ fs \in Seq(Chunks \cup {NoteChunk}) /\ n >= 2
      /\ \A p \in 1..(n - 2) : fs[p] \in TextFrames
      /\ fs[n - 1] = NoteChunk /\ fs[n] = FinishChunk("stop")
  BY <1>1, <1>2, ReplacementIs
<1>4. DOMAIN fs = 1..n
  BY <1>2, <1>3
<1>5. ASSUME NEW p \in 1..n
      PROVE  /\ Ends(fs[p]) => p = n
             /\ fs[p].kind = "chunk" => fs[p].finish # "tool_calls"
             /\ fs[p] # Done
  <2>1. p \in 1..(n - 2) \/ p = n - 1 \/ p = n
    BY <1>3
  <2>2. CASE p \in 1..(n - 2)
    <3>1. fs[p].finish = "" /\ fs[p].kind = "chunk"
      BY <1>3, <2>2, TextFrameIs
    <3> QED BY <3>1, FramesDiffer DEF Ends
  <2>3. CASE p = n - 1
    <3>1. fs[p].kind = "note"
      BY <1>3, <2>3, FramesDiffer
    <3> QED BY <3>1, FramesDiffer DEF Ends
  <2>4. CASE p = n
    <3>1. fs[p].finish = "stop" /\ fs[p].kind = "chunk"
      BY <1>3, <2>4, ProxyChunks
    <3> QED BY <2>4, <3>1, FramesDiffer
  <2> QED BY <2>1, <2>2, <2>3, <2>4
<1>6. Clean(fs) /\ Running(fs) /\ Toolless(fs)
  BY <1>4, <1>5 DEF Clean, Running, Toolless
<1> QED BY <1>1, <1>6

\* With nothing held a replacement is the note and the finish chunk.
LEMMA BareReplacement ==
  Replacement(<<>>, <<>>) = <<NoteChunk, FinishChunk("stop")>>
<1>1. PICK c : c = <<>>
  OBVIOUS
<1>2. Len(c) = 0
  BY <1>1
<1>3. PICK F : UpTo(c, F, 0) /\ TextChunks(c) = F[0]
  BY <1>2, TextChunksUpTo
<1>4. F[0] = <<>>
  BY <1>3 DEF UpTo, TextStep
<1>5. TextChunks(<<>>) = <<>>
  BY <1>1, <1>3, <1>4
<1>6. \A a, b : <<>> \o <<>> \o <<a, b>> = <<a, b>>
  OBVIOUS
<1> QED BY <1>5, <1>6 DEF Replacement

LEMMA ReleaseEnds ==
  ASSUME NEW chunks \in Seq(Chunks), NEW finish \in Seq(Chunks), Unfinished(chunks),
         Len(finish) <= 1
  PROVE  /\ Clean(chunks \o finish) /\ Running(chunks \o finish)
         /\ chunks \o finish \in Seq(OutFrame)
<1>1. PICK fs : fs = chunks \o finish
  OBVIOUS
<1>2. PICK m : m = Len(chunks)
  OBVIOUS
<1>3. /\ fs \in Seq(Chunks) /\ DOMAIN fs = 1..(m + Len(finish)) /\ m \in Nat /\ Len(finish) \in Nat
      /\ DOMAIN chunks = 1..m
      /\ \A p \in 1..m : fs[p] = chunks[p]
  BY <1>1, <1>2
<1>4. \A p \in DOMAIN fs : fs[p] # NoteChunk /\ fs[p] # Done
  BY <1>3, ChunkRuns
<1>5. ASSUME NEW p \in DOMAIN fs, Ends(fs[p]) PROVE p = m + 1
  <2>1. CASE p \in 1..m
    BY <1>3, <1>5, <2>1 DEF Unfinished, Ends
  <2>2. CASE p \notin 1..m
    BY <1>3, <2>2
  <2> QED BY <2>1, <2>2
<1>6. Clean(fs) /\ Running(fs)
  BY <1>4, <1>5 DEF Clean, Running
<1>7. fs \in Seq(OutFrame)
  BY <1>3 DEF OutFrame, Frame
<1> QED BY <1>1, <1>6, <1>7

\* A resolution of what an orderly upstream sent, for a client that saw no end.
LEMMA OpenResolved ==
  ASSUME CallInv, NEW args, NEW names, NEW fs, NEW saw, NEW over,
         NEW chunks, NEW finish, NEW calls,
         Resolves(args, names, fs, saw, over, chunks, finish, calls),
         Running(out), Clean(out), ~failed => Endless(out),
         Unfinished(chunks), Len(finish) <= 1
  PROVE  /\ Running(out') /\ Clean(out')
         /\ saw /\ over /\ Toolless(out) => Toolless(out')
<1>1. chunks \in Seq(Chunks) /\ finish \in Seq(Chunks)
  BY DEF Resolves
<1>2. PICK fr : fr = Resolving(args, fs, saw, over, chunks, finish)
  OBVIOUS
<1>3. PICK k \in Nat : Adds(fr, k)
  BY <1>2, ResolvesIs DEF CallInv
<1>4. fr \in Seq(OutFrame) /\ Clean(fr) /\ Running(fr) /\ (saw /\ over => Toolless(fr))
  <2>1. CASE Drops(args, fs, saw, over)
    BY <1>1, <1>2, <2>1, ReplacementEnds, ReplacementToolFree DEF Resolving
  <2>2. CASE ~Drops(args, fs, saw, over)
    <3>1. ~(saw /\ over)
      BY <2>2 DEF Drops
    <3> QED BY <1>1, <1>2, <2>2, <3>1, ReleaseEnds DEF Resolving
  <2> QED BY <2>1, <2>2
<1>5. CASE failed
  <2>1. Adds(<<>>, 0) /\ <<>> \in Seq(OutFrame)
    BY <1>3, <1>5, NothingAdded
  <2> QED BY <2>1, NoneEnds, CleanAdded DEF CallInv
<1>6. CASE ~failed
  BY <1>3, <1>4, <1>6, CleanAdded DEF CallInv
<1> QED BY <1>5, <1>6

\* Calls over the cap are replaced once more when the stream is over.
LEMMA AgainResolved ==
  ASSUME CallInv, NEW args, NEW names, NEW fs, NEW saw, NEW over, NEW calls,
         Resolves(args, names, fs, saw, over, <<>>, <<>>, calls),
         saw, over, phase' = "done", Clean(out), Toolless(out)
  PROVE  /\ Toolless(out') /\ (Running(out) => Running(out'))
         /\ Clean(out') \/ (\E n \in 0..Len(out) : CleanUpTo(n) /\ ReplacedAgain(n))'
<1>1. PICK fr : fr = <<NoteChunk, FinishChunk("stop")>>
  OBVIOUS
<1>2. Resolving(args, fs, saw, over, <<>>, <<>>) = fr
  BY <1>1, BareReplacement DEF Resolving, Drops
<1>3. PICK k \in Nat : Adds(fr, k)
  BY <1>2, ResolvesIs DEF CallInv
<1>4. PICK m : m = Len(out)
  OBVIOUS
<1>5. /\ k \in 0..2 /\ m \in Nat /\ Len(out') = m + k /\ DOMAIN out = 1..m
      /\ DOMAIN out' = 1..(m + k)
      /\ \A p \in 1..m : out'[p] = out[p]
      /\ k >= 1 => out'[m + 1] = NoteChunk
      /\ k = 2 => out'[m + 2] = FinishChunk("stop")
  BY <1>1, <1>3, <1>4 DEF Adds, CallInv, TypeOK
<1>6. /\ NoteChunk.kind = "note" /\ FinishChunk("stop").finish = "stop"
      /\ NoteChunk # Done /\ FinishChunk("stop") # Done
  BY FramesDiffer, ProxyChunks
<1>7. Toolless(out')
  <2> SUFFICES ASSUME NEW q \in DOMAIN out', out'[q].kind = "chunk"
               PROVE  out'[q].finish # "tool_calls"
    BY DEF Toolless
  <2>1. CASE q \in 1..m
    BY <1>5, <2>1 DEF Toolless
  <2>2. CASE q \notin 1..m
    <3>1. q = m + 1 \/ (q = m + 2 /\ k = 2)
      BY <1>5, <2>2
    <3> QED BY <1>5, <1>6, <3>1
  <2> QED BY <2>1, <2>2
<1>8. Running(out) => Running(out')
  <2> SUFFICES ASSUME Running(out), NEW q \in DOMAIN out' PROVE out'[q] # Done
    BY DEF Running
  <2>1. CASE q \in 1..m
    BY <1>5, <2>1 DEF Running
  <2>2. CASE q \notin 1..m
    <3>1. (q = m + 1 /\ k >= 1) \/ (q = m + 2 /\ k = 2)
      BY <1>5, <2>2
    <3> QED BY <1>5, <1>6, <3>1
  <2> QED BY <2>1, <2>2
<1>9. CleanUpTo(m)'
  <2>1. ASSUME NEW p \in 1..m, Finishes(p)' PROVE Ends(out[p]) /\ p \in DOMAIN out
    BY <1>5, <2>1 DEF Finishes, IsChunk, Ends
  <2>2. ASSUME NEW p \in 1..m, out'[p] = Done PROVE p = m
    BY <1>4, <1>5, <2>2 DEF Clean
  <2>3. ASSUME NEW p \in 1..m, NEW q \in 1..m, Finishes(p)', Finishes(q)' PROVE p = q
    BY <2>1, <2>3 DEF Clean
  <2> QED BY <1>4, <2>2, <2>3 DEF CleanUpTo
<1>10. CASE k = 0
  <2>1. out' = out
    BY <1>3, <1>10 DEF Adds, CallInv, TypeOK
  <2> QED BY <1>7, <1>8, <2>1
<1>11. CASE k # 0
  <2>1. oversized'
    BY DEF Resolves
  <2>2. ReplacedAgain(m)'
    BY <1>4, <1>5, <1>11, <2>1 DEF ReplacedAgain
  <2>3. m \in 0..Len(out')
    BY <1>5
  <2> QED BY <1>7, <1>8, <1>9, <2>2, <2>3
<1> QED BY <1>10, <1>11

LEMMA LessOversized ==
  ASSUME findings \subseteq findings', NothingOversized'
  PROVE  NothingOversized
BY DEF NothingOversized

LEMMA LessOver ==
  ASSUME findings \subseteq findings', NoLineOver'
  PROVE  NoLineOver
BY DEF NoLineOver

LEMMA OpenKept ==
  ASSUME CallInv, InOrder, Open, [Next]_vars
  PROVE  Open'
<1>1. ASSUME NEW f \in Frame, Passes(f) PROVE Open'
  <2>1. PICK k \in Nat : Adds(<<f>>, k)
    BY <1>1 DEF Passes
  <2>2. /\ findings \subseteq findings' /\ Receive(f) /\ Proceed
        /\ f.kind = "chunk" => f.finish = ""
    BY <1>1 DEF Passes
  <2>3. phase = "reading" /\ ~failed /\ upstream'.orderly = upstream.orderly
    BY <2>2, ReceiveIs DEF CallInv
  <2>4. SUFFICES ASSUME upstream.orderly, NoLineOver
                 PROVE  /\ upstream'.stage = "chunks" => Endless(out')
                        /\ upstream'.stage # "done" => Running(out')
                        /\ Clean(out')
                        /\ oversized => Toolless(out')
    <3>1. phase' # "done" /\ oversized' = oversized
      BY <1>1, <2>2 DEF Passes, Proceed, bufVars
    <3> QED BY <2>2, <2>3, <3>1, LessOver DEF Open
  <2>5. /\ f.kind = "done" => upstream.stage = "finished" /\ upstream'.stage = "done"
        /\ f.kind = "chunk" => upstream.stage = "chunks"
        /\ f.kind = "other" => upstream.stage # "done" /\ upstream'.stage = upstream.stage
    BY <2>2, <2>4, ReceiveIs DEF CallInv
  <2>6. f.kind \in {"chunk", "done", "other"} /\ (f = Done => f.kind = "done")
    BY FrameIs
  <2>7. Running(out) /\ Clean(out) /\ (oversized => Toolless(out))
    BY <2>3, <2>4, <2>5, <2>6 DEF Open
  <2>8. f # NoteChunk /\ ~Ends(f)
    BY <2>2, <2>6, FramesDiffer DEF Ends
  <2>9. PICK s : s = <<f>>
    OBVIOUS
  <2>10. s \in Seq(OutFrame) /\ DOMAIN s = {1} /\ Len(s) = 1 /\ s[1] = f
    BY <2>9 DEF OutFrame
  <2>11. Endless(s) /\ Clean(s) /\ (f.kind # "done" => Running(s))
    BY <2>6, <2>8, <2>10 DEF Endless, Clean, Running
  <2>12. Adds(s, k)
    BY <2>1, <2>9
  <2>13. /\ Clean(out') /\ (Running(s) => Running(out')) /\ (Endless(out) => Endless(out'))
         /\ Toolless(out) => Toolless(out')
    BY <2>7, <2>10, <2>11, <2>12, EndlessToolless, CleanAdded DEF CallInv
  <2>14. upstream'.stage = "chunks" => upstream.stage = "chunks"
    BY <2>5, <2>6
  <2>15. upstream.stage = "chunks" => Endless(out)
    BY <2>3, <2>4 DEF Open
  <2> QED BY <2>5, <2>6, <2>7, <2>11, <2>13, <2>14, <2>15
<1>2. ASSUME NEW f \in Frame, NEW n \in Sizes, HoldChunk(f, n) PROVE Open'
  <2>1. /\ f \in Chunks /\ f.kind = "chunk" /\ Receive(f)
        /\ Takes(f, n, toolArgs', toolName', findings', sawTool', oversized', bufChunks',
                 heldCalls')
        /\ UNCHANGED <<out, failed, phase>>
    BY <1>2, HoldIs DEF CallInv
  <2>2. /\ phase = "reading" /\ upstream'.orderly = upstream.orderly
        /\ upstream.orderly => upstream.stage = "chunks"
    BY <2>1, ReceiveIs DEF CallInv
  <2>3. findings \subseteq findings'
    BY <2>1 DEF Takes
  <2>4. ~failed
    BY <2>2 DEF CallInv
  <2> SUFFICES ASSUME upstream.orderly, NoLineOver PROVE Open'
    BY <2>2, <2>3, LessOver DEF Open
  <2>5. Endless(out) /\ Running(out) /\ Clean(out)
    BY <2>2, <2>4 DEF Open
  <2>6. Toolless(out)
    BY <2>5, EndlessToolless
  <2> QED BY <2>1, <2>2, <2>5, <2>6 DEF Open
<1>3. ASSUME NEW f \in Frame, NEW n \in Sizes, ResolveChunk(f, n) PROVE Open'
  <2>1. /\ f \in Chunks /\ f.kind = "chunk" /\ f.finish # "" /\ Receive(f)
    BY <1>3, ResolveChunkIs
  <2>2. PICK args, names, fs, saw, over, chunks, calls :
          /\ Takes(f, n, args, names, fs, saw, over, chunks, calls)
          /\ Resolves(args, names, fs, saw, over, chunks, FinishOf(f, n), calls)
    BY <1>3, ResolveChunkIs
  <2>3. findings \subseteq findings'
    BY <2>2 DEF Resolves, FinalFindings
  <2>4. /\ phase = "reading" /\ ~failed /\ upstream'.orderly = upstream.orderly
        /\ upstream.orderly => /\ upstream.stage = "chunks" /\ upstream'.stage = "finished"
                               /\ Unmixed(f)
    BY <2>1, ReceiveIs DEF CallInv
  <2>5. CASE upstream.orderly /\ NoLineOver
    <3>1. ~HasTool(f)
      BY <2>1, <2>4, <2>5 DEF Unmixed
    <3>2. chunks = bufChunks
      BY <2>2, <3>1, TextTaken DEF CallInv
    <3>3. Unfinished(chunks)
      BY <2>5, <3>2 DEF InOrder
    <3>4. Len(FinishOf(f, n)) <= 1
      BY DEF FinishOf
    <3>5. Endless(out) /\ Running(out) /\ Clean(out) /\ Toolless(out)
      BY <2>4, <2>5, EndlessToolless DEF Open
    <3>6. /\ Running(out') /\ Clean(out') /\ (saw /\ over => Toolless(out'))
      BY <2>2, <3>3, <3>4, <3>5, OpenResolved
    <3>7. /\ over => saw
          /\ oversized' = over
      BY <2>2 DEF Resolves, Capped
    <3>8. phase' # "done"
      BY <1>3 DEF ResolveChunk, Proceed
    <3> QED BY <2>4, <2>5, <3>6, <3>7, <3>8 DEF Open
  <2>6. CASE ~(upstream.orderly /\ NoLineOver)
    BY <2>3, <2>4, <2>6, LessOver DEF Open
  <2> QED BY <2>5, <2>6
<1>4. ASSUME NEW calls, Overflows(calls) PROVE Open'
  <2>1. "oversized-sse" \in findings'
    BY <1>4 DEF Overflows
  <2>2. ~NoLineOver'
    BY <2>1 DEF NoLineOver
  <2> QED BY <2>2 DEF Open
<1>5. CASE Rests
  <2>1. /\ UNCHANGED <<out, failed, upstream, oversized>> /\ findings \subseteq findings'
        /\ phase # "done" /\ (phase' = "done" => ~oversized)
    BY <1>5 DEF Rests, Unresolved, bufVars
  <2> QED BY <2>1, LessOver DEF Open
<1>6. CASE Close /\ Unresolved
  <2>1. /\ Resolves(toolArgs, toolName, findings, sawTool, oversized, bufChunks, <<>>, heldCalls)
        /\ phase = "closing" /\ phase' = "done" /\ upstream' = upstream
    BY <1>6, CloseIs
  <2>2. FinalFindings(toolArgs, findings, sawTool, oversized) \subseteq findings'
    BY <2>1 DEF Resolves
  <2>3. findings \subseteq findings'
    BY <2>2 DEF FinalFindings
  <2>4. CASE upstream.orderly /\ NoLineOver'
    <3>1. NoLineOver
      BY <2>3, <2>4, LessOver
    <3>2. CASE oversized
      <4>1. bufChunks = <<>> /\ sawTool
        BY <3>2 DEF CallInv, Capped
      <4>2. Clean(out) /\ Toolless(out)
        BY <2>1, <2>4, <3>1, <3>2 DEF Open
      <4>3. /\ Toolless(out')
            /\ Clean(out') \/ (\E n \in 0..Len(out) : CleanUpTo(n) /\ ReplacedAgain(n))'
        BY <2>1, <3>2, <4>1, <4>2, AgainResolved
      <4>4. oversized'
        BY <2>1, <3>2 DEF Resolves
      <4>5. upstream.stage # "done" => Running(out')
        <5>1. Running(out) => Running(out')
          BY <2>1, <3>2, <4>1, <4>2, AgainResolved
        <5> QED BY <2>4, <3>1, <5>1 DEF Open
      <4> QED BY <2>1, <4>3, <4>4, <4>5 DEF Open
    <3> SUFFICES ASSUME ~oversized PROVE Open'
      BY <3>2
    <3>9. ~oversized'
      BY <2>1 DEF Resolves
    <3>3. bufChunks # <<>>
      BY <1>6 DEF Unresolved
    <3>4. ~failed => upstream.stage = "chunks"
      BY <2>4, <3>3 DEF InOrder
    <3>5. Clean(out) /\ (~failed => Endless(out) /\ Running(out))
      BY <2>1, <2>4, <3>1, <3>4 DEF Open
    <3>6. Unfinished(bufChunks)
      BY <2>4 DEF InOrder
    <3>7. CASE ~failed
      BY <2>1, <3>5, <3>6, <3>7, <3>9, OpenResolved DEF Open
    <3>8. CASE failed
      <4>1. PICK k \in Nat : Adds(Resolving(toolArgs, findings, sawTool, oversized, bufChunks,
                                           <<>>), k)
        BY <2>1, ResolvesIs DEF CallInv
      <4>2. Adds(<<>>, 0)
        BY <3>8, <4>1, NothingAdded
      <4>3. out' = out
        BY <4>2 DEF Adds, CallInv, TypeOK
      <4> QED BY <2>1, <2>4, <3>1, <3>9, <4>3 DEF Open
    <3> QED BY <3>7, <3>8
  <2>5. CASE ~(upstream.orderly /\ NoLineOver')
    BY <2>1, <2>5 DEF Open
  <2> QED BY <2>4, <2>5
<1>7. CASE UNCHANGED vars
  BY <1>7 DEF vars, stateVars, bufVars, Open, NoLineOver, CleanUpTo, ReplacedAgain, Finishes,
     IsChunk
<1> QED BY <1>1, <1>2, <1>3, <1>4, <1>5, <1>6, <1>7, StepIs

LEMMA OpenEndsCleanly ==
  ASSUME Open, TypeOK
  PROVE  EndsCleanly
<1> SUFFICES ASSUME upstream.orderly, NoLineOver
             PROVE  /\ \E n \in 0..Len(out) :
                         CleanUpTo(n) /\ (n = Len(out) \/ ReplacedAgain(n))
                    /\ \A p, q \in DOMAIN out :
                         out[p] = NoteChunk /\ IsChunk(q) => out[q].finish # "tool_calls"
  BY DEF EndsCleanly, NoLineOver
<1>1. DOMAIN out = 1..Len(out) /\ Len(out) \in 0..Len(out)
  BY DEF TypeOK
<1>2. Clean(out) => CleanUpTo(Len(out))
  BY <1>1, Zenon DEF Clean, CleanUpTo, Finishes, Ends, IsChunk
<1>3. \E n \in 0..Len(out) : CleanUpTo(n) /\ (n = Len(out) \/ ReplacedAgain(n))
  BY <1>1, <1>2 DEF Open
<1>4. Clean(out) \/ Toolless(out)
  BY DEF Open
<1>5. \A p, q \in DOMAIN out :
        out[p] = NoteChunk /\ IsChunk(q) => out[q].finish # "tool_calls"
  BY <1>4 DEF Clean, Toolless, IsChunk
<1> QED BY <1>3, <1>5

-----------------------------------------------------------------------------
(* The text *)

One(f, g) == IF HasText(f, g) THEN 1 ELSE 0

LEMMA CountIs ==
  ASSUME NEW T, NEW s \in Seq(T), NEW g
  PROVE  /\ Count(s, g) \in Nat
         /\ Count(<<>>, g) = 0
         /\ \A f \in T : Count(Append(s, f), g) = Count(s, g) + One(f, g)
<1>1. PICK n \in Nat : n = Len(s)
  OBVIOUS
<1>2. Count(s, g) \in Nat
  <2>1. Texts(s, g, n) \in Nat
    BY TextsStep
  <2> QED BY <1>1, <2>1 DEF Count
<1>3. Count(<<>>, g) = 0
  <2>1. PICK e : e = <<>>
    OBVIOUS
  <2>2. Len(e) = 0
    BY <2>1
  <2>3. Texts(e, g, 0) = 0
    BY TextsStep
  <2> QED BY <2>1, <2>2, <2>3 DEF Count
<1>4. ASSUME NEW f \in T PROVE Count(Append(s, f), g) = Count(s, g) + One(f, g)
  <2>1. PICK u : u = Append(s, f)
    OBVIOUS
  <2>2. Len(u) = n + 1 /\ u[n + 1] = f /\ \A p \in 1..n : u[p] = s[p]
    BY <1>1, <2>1
  <2>3. Texts(u, g, n) = Texts(s, g, n)
    <3>1. {p \in 1..n : HasText(u[p], g)} = {p \in 1..n : HasText(s[p], g)}
      BY <2>2
    <3> QED BY <3>1 DEF Texts
  <2>4. Texts(u, g, n + 1) = IF HasText(u[n + 1], g) THEN Texts(u, g, n) + 1
                             ELSE Texts(u, g, n)
    BY TextsStep
  <2>5. Texts(s, g, n) \in Nat
    BY TextsStep
  <2>6. Texts(u, g, n + 1) = Texts(s, g, n) + One(f, g)
    BY <2>2, <2>3, <2>4, <2>5 DEF One
  <2> QED BY <1>1, <2>1, <2>2, <2>6 DEF Count
<1> QED BY <1>2, <1>3, <1>4

LEMMA CountOne ==
  ASSUME NEW f, NEW g
  PROVE  Count(<<f>>, g) = One(f, g)
<1>1. PICK e : e = <<>>
  OBVIOUS
<1>2. e \in Seq({f}) /\ Append(e, f) = <<f>>
  BY <1>1
<1>3. Count(e, g) = 0
  BY <1>1, <1>2, CountIs
<1>4. Count(Append(e, f), g) = Count(e, g) + One(f, g)
  BY <1>2, CountIs
<1>5. One(f, g) \in Nat
  BY DEF One
<1> QED BY <1>2, <1>3, <1>4, <1>5

LEMMA CountConcat ==
  ASSUME NEW T, NEW s \in Seq(T), NEW t \in Seq(T), NEW g
  PROVE  Count(s \o t, g) = Count(s, g) + Count(t, g)
<1>1. PICK u : u = s \o t
  OBVIOUS
<1>2. PICK m \in Nat, k \in Nat : m = Len(s) /\ k = Len(t)
  OBVIOUS
<1>3. Len(u) = m + k /\ Follows(s, m, t, k, u)
  BY <1>1, <1>2 DEF Follows
<1>4. Texts(u, g, m + k) = Texts(s, g, m) + Texts(t, g, k)
  BY <1>3, TextsAdded
<1> QED BY <1>1, <1>2, <1>3, <1>4 DEF Count

\* A client that is still there has all of what was written.
LEMMA CountAdded ==
  ASSUME TypeOK, NEW frames \in Seq(OutFrame), NEW k, Adds(frames, k), ~failed', NEW g
  PROVE  ~failed /\ Count(out', g) = Count(out, g) + Count(frames, g)
<1>1. PICK m \in Nat, n \in Nat : m = Len(out) /\ n = Len(frames)
  BY DEF TypeOK
<1>2. k = n /\ ~failed
  <2>1. k \in 0..n /\ failed' = (failed \/ k < n)
    BY <1>1 DEF Adds
  <2>2. ~failed /\ ~(k < n)
    BY <2>1
  <2> QED BY <2>1, <2>2
<1>3. PICK o : o = out'
  OBVIOUS
<1>4. Len(o) = m + n /\ Follows(out, m, frames, n, o)
  BY <1>1, <1>2, <1>3 DEF Adds, Follows
<1>5. Texts(o, g, m + n) = Texts(out, g, m) + Texts(frames, g, n)
  BY <1>4, TextsAdded
<1> QED BY <1>1, <1>2, <1>3, <1>4, <1>5 DEF Count

Occurs(s, g) == Cardinality({q \in DOMAIN s : s[q] = g})

LEMMA SentAppended ==
  ASSUME NEW c \in Seq(Frag), NEW t \in Frag, NEW g
  PROVE  Occurs(Append(c, t), g) = Occurs(c, g) + IF t = g THEN 1 ELSE 0
<1>0. PICK d : d = Append(c, t)
  OBVIOUS
<1>1. PICK n \in Nat : n = Len(c)
  OBVIOUS
<1>2. /\ DOMAIN d = 1..(n + 1) /\ DOMAIN c = 1..n /\ d[n + 1] = t
      /\ \A q \in 1..n : d[q] = c[q]
  BY <1>0, <1>1
<1>3. PICK S : S = {q \in DOMAIN c : c[q] = g}
  OBVIOUS
<1>4. IsFiniteSet(S) /\ n + 1 \notin S
  <2>1. IsFiniteSet(1..n)
    BY FS_Interval
  <2>2. S \subseteq 1..n
    BY <1>2, <1>3
  <2>3. IsFiniteSet(S)
    BY <2>1, <2>2, FS_Subset
  <2> QED BY <2>2, <2>3
<1>5. Cardinality(S) \in Nat
  BY <1>4, FS_CardinalityType
<1>6. CASE t = g
  <2>1. {q \in DOMAIN d : d[q] = g} = S \cup {n + 1}
    BY <1>2, <1>3, <1>6
  <2>2. Cardinality(S \cup {n + 1}) = Cardinality(S) + 1
    BY <1>4, FS_AddElement
  <2> QED BY <1>0, <1>3, <1>6, <2>1, <2>2 DEF Occurs
<1>7. CASE t # g
  <2>1. {q \in DOMAIN d : d[q] = g} = S
    BY <1>2, <1>3, <1>7
  <2>2. PICK c1 \in Nat : c1 = Cardinality(S)
    BY <1>5
  <2>3. Cardinality({q \in DOMAIN d : d[q] = g}) = c1
    BY <2>1, <2>2
  <2>4. Cardinality({q \in DOMAIN c : c[q] = g}) = c1
    BY <1>3, <2>2
  <2>5. c1 = c1 + IF t = g THEN 1 ELSE 0
    BY <1>7
  <2> QED BY <1>0, <2>3, <2>4, <2>5 DEF Occurs
<1> QED BY <1>6, <1>7

LEMMA SentTaken ==
  ASSUME TypeOK, NEW f \in Chunks, NEW g \in Frag,
         content' = IF f.text = NoFrag THEN content ELSE Append(content, f.text)
  PROVE  SentAs(g)' = SentAs(g) + One(f, g) /\ SentAs(g) \in Nat
<1>1. content \in Seq(Frag) /\ f.text \in Frag \cup {NoFrag} /\ f.kind = "chunk"
  BY ChunkIs DEF TypeOK
<1>2. SentAs(g) \in Nat
  <2>1. PICK n \in Nat : n = Len(content)
    BY <1>1
  <2>2. IsFiniteSet(1..n)
    BY FS_Interval
  <2>3. {q \in DOMAIN content : content[q] = g} \subseteq 1..n
    BY <1>1, <2>1
  <2> QED BY <2>2, <2>3, FS_Subset, FS_CardinalityType DEF SentAs
<1>3. CASE f.text = NoFrag
  <2>1. One(f, g) = 0
    BY <1>3, FragAssumption DEF One, HasText
  <2>2. SentAs(g)' = SentAs(g)
    BY <1>3 DEF SentAs
  <2> QED BY <1>2, <2>1, <2>2
<1>4. CASE f.text # NoFrag
  <2>1. One(f, g) = IF f.text = g THEN 1 ELSE 0
    BY <1>1 DEF One, HasText
  <2>2. f.text \in Frag /\ content' = Append(content, f.text)
    BY <1>1, <1>4
  <2>3. SentAs(g)' = SentAs(g) + IF f.text = g THEN 1 ELSE 0
    <3>1. Occurs(Append(content, f.text), g)
            = Occurs(content, g) + IF f.text = g THEN 1 ELSE 0
      BY <1>1, <2>2, SentAppended
    <3>2. SentAs(g) = Occurs(content, g) /\ SentAs(g)' = Occurs(content', g)
      BY DEF SentAs, Occurs
    <3> QED BY <2>2, <3>1, <3>2
  <2> QED BY <1>2, <2>1, <2>3
<1> QED BY <1>3, <1>4

\* A resolution writes the text of what it resolves.
LEMMA ResolvedText ==
  ASSUME CallInv, NEW args, NEW names, NEW fs, NEW saw, NEW over, NEW chunks, NEW finish,
         NEW calls, Resolves(args, names, fs, saw, over, chunks, finish, calls), ~failed',
         NEW g \in Frag
  PROVE  /\ ~failed /\ bufChunks' = <<>>
         /\ Count(out', g) = Count(out, g) + (Count(chunks, g) + Count(finish, g))
<1>1. chunks \in Seq(Chunks) /\ finish \in Seq(Chunks)
  BY DEF Resolves
<1>2. PICK fr : fr = Resolving(args, fs, saw, over, chunks, finish)
  OBVIOUS
<1>3. PICK k \in Nat : Adds(fr, k)
  BY <1>2, ResolvesIs DEF CallInv
<1>4. fr \in Seq(OutFrame) /\ Count(fr, g) = Count(chunks, g) + Count(finish, g)
  <2>1. CASE Drops(args, fs, saw, over)
    <3>1. fr = Replacement(chunks, finish)
      BY <1>2, <2>1 DEF Resolving
    <3>2. Replacement(chunks, finish) \in Seq(OutFrame)
      BY <1>1, ReplacementToolFree
    <3>3. Texts(Replacement(chunks, finish), g, Len(Replacement(chunks, finish)))
            = Texts(chunks, g, Len(chunks)) + Texts(finish, g, Len(finish))
      BY <1>1, ReplacementIs, Zenon
    <3> QED BY <3>1, <3>2, <3>3 DEF Count
  <2>2. CASE ~Drops(args, fs, saw, over)
    <3>1. fr = chunks \o finish
      BY <1>2, <2>2 DEF Resolving
    <3>2. chunks \o finish \in Seq(Chunks)
      BY <1>1
    <3>3. Count(chunks \o finish, g) = Count(chunks, g) + Count(finish, g)
      BY <1>1, CountConcat
    <3>4. fr \in Seq(OutFrame)
      BY <3>1, <3>2 DEF OutFrame, Frame
    <3> QED BY <3>1, <3>3, <3>4
  <2> QED BY <2>1, <2>2
<1>5. ~failed /\ Count(out', g) = Count(out, g) + Count(fr, g)
  BY <1>3, <1>4, CountAdded DEF CallInv
<1>6. bufChunks' = <<>>
  BY ResolvesIs DEF CallInv, Leaves
<1> QED BY <1>4, <1>5, <1>6

\* The chunks after one was taken in hold its text, or it is handed on.
LEMMA TakenText ==
  ASSUME TypeOK, NEW f \in Chunks, NEW n \in Sizes, NEW args, NEW names, NEW fs, NEW saw,
         NEW over, NEW chunks, NEW calls,
         Takes(f, n, args, names, fs, saw, over, chunks, calls), ~over, NEW g \in Frag
  PROVE  /\ ~oversized /\ bufChunks \in Seq(Chunks)
         /\ HasTool(f) => Count(chunks, g) = Count(bufChunks, g) + One(f, g)
         /\ Count(chunks, g) + Count(FinishOf(f, n), g) = Count(bufChunks, g) + One(f, g)
<1>1. bufChunks \in Seq(Chunks) /\ Count(bufChunks, g) \in Nat
  BY CountIs DEF TypeOK
<1>2. over = OverAfter(f, n)
  BY DEF Takes
<1>3. CASE HasTool(f)
  <2>1. chunks = Append(bufChunks, f) /\ ~oversized
    BY <1>3, ToolTakenIs DEF ToolTaken
  <2>2. FinishOf(f, n) = <<>>
    BY <1>2, <1>3 DEF FinishOf, Buffers
  <2>3. Count(FinishOf(f, n), g) = 0
    BY <1>1, <2>2, CountIs
  <2>4. Count(chunks, g) = Count(bufChunks, g) + One(f, g)
    BY <1>1, <2>1, CountIs
  <2> QED BY <1>1, <2>1, <2>3, <2>4 DEF One
<1>4. CASE ~HasTool(f)
  <2>1. chunks = bufChunks /\ over = oversized
    BY <1>4, TextTaken
  <2>2. FinishOf(f, n) = <<f>>
    BY <1>4 DEF FinishOf, Buffers
  <2>3. Count(FinishOf(f, n), g) = One(f, g)
    BY <2>2, CountOne
  <2> QED BY <1>1, <1>4, <2>1, <2>3
<1> QED BY <1>3, <1>4

LEMMA DeliveredKept ==
  ASSUME CallInv, Delivered, [Next]_vars
  PROVE  Delivered'
<1> DEFINE InFull(g) == Count(out, g) + Count(bufChunks, g) = SentAs(g)
<1>1. \A g : Count(out, g) \in Nat /\ Count(bufChunks, g) \in Nat
  BY CountIs DEF CallInv, TypeOK
<1>2. ASSUME NEW f \in Frame, Passes(f) PROVE Delivered'
  <2>1. PICK k \in Nat : Adds(<<f>>, k)
    BY <1>2 DEF Passes
  <2>2. /\ findings \subseteq findings' /\ Receive(f) /\ Proceed
        /\ bufChunks' = bufChunks /\ oversized' = oversized
        /\ content' = IF f.kind = "chunk" /\ f.text # NoFrag THEN Append(content, f.text)
                      ELSE content
    BY <1>2 DEF Passes, bufVars
  <2>3. phase' # "done"
    BY <2>2 DEF Proceed
  <2>4. ASSUME ~failed', ~oversized, NothingOversized', NEW g \in Frag
        PROVE  Count(out', g) + Count(bufChunks, g) = SentAs(g)'
    <3>1. <<f>> \in Seq(OutFrame)
      BY DEF OutFrame
    <3>2. ~failed /\ Count(out', g) = Count(out, g) + Count(<<f>>, g)
      BY <2>1, <2>4, <3>1, CountAdded DEF CallInv
    <3>3. Count(<<f>>, g) = One(f, g)
      BY CountOne
    <3>4. InFull(g)
      BY <2>2, <2>4, <3>2, LessOversized DEF Delivered
    <3>5. SentAs(g)' = SentAs(g) + One(f, g)
      <4>1. CASE f.kind = "chunk"
        <5>1. f \in Chunks
          BY <4>1, FrameIs
        <5> QED BY <2>2, <4>1, <5>1, SentTaken DEF CallInv
      <4>2. CASE f.kind # "chunk"
        <5>1. One(f, g) = 0
          BY <4>2 DEF One, HasText
        <5>2. SentAs(g)' = SentAs(g)
          BY <2>2, <4>2 DEF SentAs
        <5>3. SentAs(g) \in Nat
          BY <1>1, <3>4
        <5> QED BY <5>1, <5>2, <5>3
      <4> QED BY <4>1, <4>2
    <3>6. One(f, g) \in Nat
      BY DEF One
    <3> QED BY <1>1, <3>2, <3>3, <3>4, <3>5, <3>6
  <2>5. \A g : (Count(out, g) + Count(bufChunks, g) = SentAs(g))'
                 <=> Count(out', g) + Count(bufChunks, g) = SentAs(g)'
    BY <2>2
  <2> QED BY <2>2, <2>3, <2>4, <2>5 DEF Delivered
<1>3. ASSUME NEW f \in Frame, NEW n \in Sizes, HoldChunk(f, n) PROVE Delivered'
  <2>1. /\ f \in Chunks /\ (HasTool(f) \/ oversized) /\ Receive(f)
        /\ Takes(f, n, toolArgs', toolName', findings', sawTool', oversized', bufChunks',
                 heldCalls')
        /\ content' = IF f.text = NoFrag THEN content ELSE Append(content, f.text)
        /\ UNCHANGED <<out, failed, phase>>
    BY <1>3, HoldIs DEF CallInv
  <2>2. findings \subseteq findings'
    BY <2>1 DEF Takes
  <2>3. phase' # "done"
    BY <2>1, ReceiveIs DEF CallInv
  <2>4. ASSUME ~failed, ~oversized', NothingOversized', NEW g \in Frag
        PROVE  Count(out, g) + Count(bufChunks', g) = SentAs(g)'
    <3>1. ~oversized /\ (HasTool(f) => Count(bufChunks', g) = Count(bufChunks, g) + One(f, g))
      BY <2>1, <2>4, TakenText DEF CallInv
    <3>2. InFull(g)
      BY <2>2, <2>4, <3>1, LessOversized DEF Delivered
    <3>3. SentAs(g)' = SentAs(g) + One(f, g)
      BY <2>1, SentTaken DEF CallInv
    <3>4. One(f, g) \in Nat
      BY DEF One
    <3> QED BY <1>1, <2>1, <3>1, <3>2, <3>3, <3>4
  <2>5. \A g : (Count(out, g) + Count(bufChunks, g) = SentAs(g))'
                 <=> Count(out, g) + Count(bufChunks', g) = SentAs(g)'
    BY <2>1
  <2> QED BY <2>1, <2>3, <2>4, <2>5 DEF Delivered
<1>4. ASSUME NEW f \in Frame, NEW n \in Sizes, ResolveChunk(f, n) PROVE Delivered'
  <2>1. /\ f \in Chunks /\ Receive(f) /\ Proceed
        /\ content' = IF f.text = NoFrag THEN content ELSE Append(content, f.text)
    BY <1>4, ResolveChunkIs
  <2>2. PICK args, names, fs, saw, over, chunks, calls :
          /\ Takes(f, n, args, names, fs, saw, over, chunks, calls)
          /\ Resolves(args, names, fs, saw, over, chunks, FinishOf(f, n), calls)
    BY <1>4, ResolveChunkIs
  <2>3. findings \subseteq findings' /\ oversized' = over
    BY <2>2 DEF Resolves, FinalFindings
  <2>4. phase' # "done"
    BY <2>1 DEF Proceed
  <2>5. ASSUME ~failed', ~over, NothingOversized', NEW g \in Frag
        PROVE  Count(out', g) + Count(bufChunks', g) = SentAs(g)'
    <3>1. /\ ~failed /\ bufChunks' = <<>>
          /\ Count(out', g) = Count(out, g) + (Count(chunks, g) + Count(FinishOf(f, n), g))
      BY <2>2, <2>5, ResolvedText
    <3>2. /\ ~oversized
          /\ Count(chunks, g) + Count(FinishOf(f, n), g) = Count(bufChunks, g) + One(f, g)
      BY <2>1, <2>2, <2>5, TakenText DEF CallInv
    <3>3. InFull(g)
      BY <2>3, <2>5, <3>1, <3>2, LessOversized DEF Delivered
    <3>4. SentAs(g)' = SentAs(g) + One(f, g)
      BY <2>1, SentTaken DEF CallInv
    <3>5. Count(<<>>, g) = 0
      BY CountIs DEF CallInv, TypeOK
    <3>6. One(f, g) \in Nat
      BY DEF One
    <3> QED BY <1>1, <3>1, <3>2, <3>3, <3>4, <3>5, <3>6
  <2>6. \A g : (Count(out, g) + Count(bufChunks, g) = SentAs(g))'
                 <=> Count(out', g) + Count(bufChunks', g) = SentAs(g)'
    OBVIOUS
  <2> QED BY <2>3, <2>4, <2>5, <2>6 DEF Delivered
<1>5. ASSUME NEW calls, Overflows(calls) PROVE Delivered'
  <2>1. "oversized-sse" \in findings' /\ phase' = "closing"
    BY <1>5 DEF Overflows
  <2>2. ~NothingOversized'
    BY <2>1 DEF NothingOversized
  <2> QED BY <2>1, <2>2 DEF Delivered
<1>6. CASE Rests
  <2>1. /\ UNCHANGED <<out, failed, bufChunks, oversized, content>>
        /\ findings \subseteq findings'
        /\ phase' = "done" => ~Unresolved
    BY <1>6 DEF Rests, callVars, bufVars
  <2>2. phase' = "done" => bufChunks = <<>> /\ ~oversized
    BY <2>1 DEF Unresolved
  <2>3. \A g : SentAs(g)' = SentAs(g)
    BY <2>1 DEF SentAs
  <2> QED BY <2>1, <2>2, <2>3, LessOversized DEF Delivered
<1>7. CASE Close /\ Unresolved
  <2>1. /\ Resolves(toolArgs, toolName, findings, sawTool, oversized, bufChunks, <<>>, heldCalls)
        /\ content' = content
    BY <1>7, CloseIs
  <2>2. /\ FinalFindings(toolArgs, findings, sawTool, oversized) \subseteq findings'
        /\ oversized' = oversized
    BY <2>1 DEF Resolves
  <2>3. findings \subseteq findings'
    BY <2>2 DEF FinalFindings
  <2>4. oversized => "oversized-call" \in findings'
    <3> SUFFICES ASSUME oversized PROVE "oversized-call" \in findings'
      OBVIOUS
    <3>1. Drops(toolArgs, findings, sawTool, oversized)
      BY DEF Drops, CallInv, Capped
    <3> QED BY <2>2, <3>1 DEF FinalFindings
  <2>5. ~failed' => bufChunks' = <<>>
    BY <2>1, ResolvesIs DEF CallInv, Leaves
  <2>6. ASSUME ~failed', ~oversized, NothingOversized', NEW g \in Frag
        PROVE  Count(out', g) + Count(bufChunks', g) = SentAs(g)
    <3>1. /\ ~failed /\ bufChunks' = <<>>
          /\ Count(out', g) = Count(out, g) + (Count(bufChunks, g) + Count(<<>>, g))
      BY <2>1, <2>6, ResolvedText
    <3>2. Count(<<>>, g) = 0
      BY CountIs DEF CallInv, TypeOK
    <3>3. InFull(g)
      BY <2>3, <2>6, <3>1, LessOversized DEF Delivered
    <3> QED BY <1>1, <3>1, <3>2, <3>3
  <2>7. \A g : SentAs(g)' = SentAs(g)
    BY <2>1 DEF SentAs
  <2> QED BY <2>2, <2>4, <2>5, <2>6, <2>7 DEF Delivered
<1>8. CASE UNCHANGED vars
  <2>1. /\ UNCHANGED <<out, failed, bufChunks, oversized, content, phase, findings>>
    BY <1>8 DEF vars, stateVars, callVars, bufVars
  <2>2. \A g : SentAs(g)' = SentAs(g)
    BY <2>1 DEF SentAs
  <2> QED BY <2>1, <2>2, LessOversized DEF Delivered
<1> QED BY <1>2, <1>3, <1>4, <1>5, <1>6, <1>7, <1>8, StepIs

LEMMA DeliveredText ==
  ASSUME TypeOK, Delivered
  PROVE  TextDelivered
<1> SUFFICES ASSUME phase = "done", ~failed, NothingOversized, NEW g \in Frag
             PROVE  Received(g) = SentAs(g)
  BY DEF TextDelivered, NothingOversized
<1>1. ~oversized /\ bufChunks = <<>>
  BY DEF Delivered, NothingOversized
<1>2. Count(out, g) + Count(bufChunks, g) = SentAs(g)
  BY <1>1 DEF Delivered
<1>3. Count(out, g) \in Nat /\ Count(<<>>, g) = 0
  BY CountIs DEF TypeOK
<1>4. Received(g) = Count(out, g)
  <2>1. {p \in DOMAIN out : IsChunk(p) /\ out[p].text = g}
          = {p \in 1..Len(out) : HasText(out[p], g)}
    BY DEF TypeOK, IsChunk, HasText
  <2> QED BY <2>1 DEF Received, Count, Texts
<1> QED BY <1>1, <1>2, <1>3, <1>4

-----------------------------------------------------------------------------
(* The invariant is inductive *)

LEMMA Starts ==
  ASSUME Init
  PROVE  IInv
<1>1. /\ phase = "reading" /\ toolArgs = [i \in Index |-> NoInspector]
      /\ toolName = [i \in Index |-> NoName] /\ content = <<>>
      /\ oversized = FALSE /\ bufChunks = <<>> /\ bufBytes = 0 /\ droppedTool = FALSE
      /\ heldCalls = <<>> /\ settled = <<>>
      /\ declaredTools \subseteq ToolName /\ findings = {} /\ sawTool = FALSE
      /\ blocked = FALSE /\ out = <<>> /\ failed = FALSE
  BY DEF Init, StateInit
<1>2. PICK orderly \in BOOLEAN : upstream = UpstreamInit(orderly)
  BY DEF Init
<1>3. upstream \in Upstreams
  BY <1>2 DEF UpstreamInit, Upstreams
<1>4. NoInspector \in Inspector /\ NoInspector.pending = <<>> /\ ~NoInspector.live
  BY DEF NoInspector, Inspector
<1>5. toolArgs \in [Index -> Inspector] /\ \A i \in Index : toolArgs[i] = NoInspector
  BY <1>1, <1>4
<1>6. toolName \in [Index -> Name] /\ \A i \in Index : toolName[i] = NoName
  BY <1>1 DEF Name
<1>7. DOMAIN heldCalls = {} /\ DOMAIN settled = {} /\ DOMAIN bufChunks = {}
  BY <1>1
<1>8. TypeOK
  <2>1. CallsTyped(heldCalls)
    BY <1>7 DEF CallsTyped
  <2>2. /\ content \in Seq(Frag) /\ bufChunks \in Seq(Chunks) /\ settled \in Seq(Resolution)
        /\ out \in Seq(OutFrame)
    BY <1>1
  <2>3. bufBytes \in 0..MaxToolCallBytes
    BY <1>1, SizeAssumption
  <2> QED BY <1>1, <1>3, <1>5, <1>6, <2>1, <2>2, <2>3 DEF TypeOK
<1>9. CallInv
  <2>1. Seen(toolArgs, toolName, findings, sawTool)
    BY <1>4, <1>5, <1>6 DEF Seen, Acceptable
  <2>2. Followed(toolArgs, findings, sawTool, oversized, heldCalls)
    BY <1>4, <1>5, <1>7 DEF Followed
  <2>3. Kept(toolArgs, findings, oversized, bufChunks, heldCalls)
    BY <1>1, <1>7, GivenNone DEF Kept
  <2> QED BY <1>1, <1>8, <2>1, <2>2, <2>3 DEF CallInv, Capped
<1>10. Reported
  BY <1>7 DEF Reported, IsDropped
<1>11. \A p : p \notin DOMAIN out
  BY <1>1
<1>12. InOrder
  BY <1>1, <1>11, NoneUnfinished DEF InOrder
<1>13. SentCallsVerified
  BY <1>11 DEF SentCallsVerified
<1>14. Open
  BY <1>1, NoneEnds DEF Open
<1>15. Delivered
  <2>1. ASSUME NEW g \in Frag PROVE Count(out, g) + Count(bufChunks, g) = SentAs(g)
    <3>1. Count(<<>>, g) = 0
      BY <1>1, <1>8, CountIs DEF TypeOK
    <3>2. {q \in DOMAIN content : content[q] = g} = {}
      BY <1>1
    <3>3. SentAs(g) = 0
      BY <3>2, FS_EmptySet DEF SentAs
    <3> QED BY <1>1, <3>1, <3>3
  <2> QED BY <1>1, <2>1 DEF Delivered
<1> QED BY <1>9, <1>10, <1>12, <1>13, <1>14, <1>15 DEF IInv

LEMMA Inductive == Spec => []IInv
<1>1. Init => IInv
  BY Starts
<1>2. IInv /\ [Next]_vars => IInv'
  BY CallsKept, ReportedKept, VerifiedKept, OpenKept, DeliveredKept DEF IInv
<1> QED BY <1>1, <1>2, PTL DEF Spec

-----------------------------------------------------------------------------

\* The state keeps its type, and the held data never exceeds its cap
\* (openai.go:112-121).
THEOREM TypesHold == Spec => []TypeOK
<1>1. IInv => TypeOK
  BY DEF IInv, CallInv
<1> QED BY <1>1, Inductive, PTL

\* Every call the client can assemble from an orderly upstream's chunks has
\* declared names only and no high-severity signature in its arguments
\* (openai.go:99, 123-176).
THEOREM CallsAreVerified == Spec => []SentCallsVerified
<1>1. IInv => SentCallsVerified
  BY DEF IInv
<1> QED BY <1>1, Inductive, PTL

\* A complete response carries every piece of text exactly once, whether it was
\* forwarded, held with a call, or taken out of the chunks of a replaced one
\* (openai.go:146).
THEOREM TextIsDelivered == Spec => []TextDelivered
<1>1. IInv => TextDelivered
  BY DeliveredText DEF IInv, CallInv
<1> QED BY <1>1, Inductive, PTL

\* The client of an orderly upstream reads one finish reason, never "tool_calls" once
\* a call was replaced, and nothing after [DONE] (openai.go:157-160), except the note
\* and the finish chunk of a second replacement of a call over the cap
\* (openai.go:246).
THEOREM StreamEndsCleanly == Spec => []EndsCleanly
<1>1. IInv => EndsCleanly
  BY OpenEndsCleanly DEF IInv, CallInv
<1> QED BY <1>1, Inductive, PTL

-----------------------------------------------------------------------------
(* The abstract promise: a call is <<resolution, index>> *)

HIds(s, calls) == {<<Len(s) + 1, i>> : i \in DOMAIN calls}
SIds(s)        == UNION {{<<b, i>> : i \in DOMAIN s[b]} : b \in DOMAIN s}
FIds(s, fate)  == {c \in SIds(s) : s[c[1]][c[2]].fate = fate}
TIds(s, calls) == {c \in SIds(s) : ~s[c[1]][c[2]].clean}
                    \cup {c \in HIds(s, calls) : ~calls[c[2]].clean}

LEMMA IdsAre ==
  ASSUME NEW s \in Seq(Resolution), NEW calls, CallsTyped(calls)
  PROVE  /\ HIds(s, calls) \subseteq Nat \X Index /\ SIds(s) \subseteq Nat \X Index
         /\ \A c \in Nat \X Index :
              /\ c \in HIds(s, calls) <=> c[1] = Len(s) + 1 /\ c[2] \in DOMAIN calls
              /\ c \in SIds(s) <=> c[1] \in DOMAIN s /\ c[2] \in DOMAIN s[c[1]]
              /\ c \in SIds(s) => s[c[1]][c[2]].fate \in {"sent", "dropped"}
<1>1. DOMAIN s = 1..Len(s) /\ Len(s) \in Nat /\ DOMAIN calls \subseteq Index
  BY DEF CallsTyped
<1>2. ASSUME NEW b \in DOMAIN s
      PROVE  DOMAIN s[b] \subseteq Index /\ \A i \in DOMAIN s[b] : s[b][i] \in Fate
  <2>1. s[b] \in Resolution
    BY <1>1
  <2> QED BY <2>1 DEF Resolution
<1>3. HIds(s, calls) \subseteq Nat \X Index
  BY <1>1 DEF HIds
<1>4. SIds(s) \subseteq Nat \X Index
  BY <1>1, <1>2 DEF SIds
<1>5. ASSUME NEW c \in Nat \X Index
      PROVE  /\ c \in HIds(s, calls) <=> c[1] = Len(s) + 1 /\ c[2] \in DOMAIN calls
             /\ c \in SIds(s) <=> c[1] \in DOMAIN s /\ c[2] \in DOMAIN s[c[1]]
  <2>1. c = <<c[1], c[2]>>
    OBVIOUS
  <2>2. c \in HIds(s, calls) <=> c[1] = Len(s) + 1 /\ c[2] \in DOMAIN calls
    BY <2>1 DEF HIds
  <2>3. c \in SIds(s) <=> c[1] \in DOMAIN s /\ c[2] \in DOMAIN s[c[1]]
    BY <2>1 DEF SIds
  <2> QED BY <2>2, <2>3
<1>6. ASSUME NEW c \in Nat \X Index, c \in SIds(s)
      PROVE  s[c[1]][c[2]].fate \in {"sent", "dropped"}
  <2>1. s[c[1]][c[2]] \in Fate
    BY <1>2, <1>5, <1>6
  <2> QED BY <2>1 DEF Fate
<1> QED BY <1>3, <1>4, <1>5, <1>6

\* Calls are opened and never cleared.
Grows(calls, more) ==
  /\ DOMAIN calls \subseteq DOMAIN more
  /\ \A i \in DOMAIN calls : more[i].clean => calls[i].clean

\* What may become of the calls in one step.
Moves(h, f, d, t, hh, ff, dd, tt) ==
  /\ hh \subseteq Nat \X Index /\ ff \subseteq Nat \X Index /\ dd \subseteq Nat \X Index
  /\ f \subseteq ff /\ d \subseteq dd /\ h \subseteq hh \cup ff \cup dd
  /\ hh \cap ff = {} /\ hh \cap dd = {} /\ ff \cap dd = {}
  /\ t \subseteq tt /\ tt \subseteq hh \cup ff \cup dd
  /\ (tt \ t) \cap (f \cup d) = {} /\ (ff \ f) \cap tt = {}

LEMMA MovesHeld ==
  ASSUME NEW s \in Seq(Resolution), NEW calls, CallsTyped(calls), NEW more, CallsTyped(more),
         Grows(calls, more)
  PROVE  Moves(HIds(s, calls), FIds(s, "sent"), FIds(s, "dropped"), TIds(s, calls),
               HIds(s, more), FIds(s, "sent"), FIds(s, "dropped"), TIds(s, more))
<1>1. DOMAIN s = 1..Len(s) /\ Len(s) \in Nat
  OBVIOUS
<1>2. /\ HIds(s, calls) \subseteq Nat \X Index /\ SIds(s) \subseteq Nat \X Index
      /\ HIds(s, more) \subseteq Nat \X Index
  BY IdsAre
<1>3. /\ \A c \in Nat \X Index : c \in HIds(s, calls) <=> c[1] = Len(s) + 1 /\ c[2] \in DOMAIN calls
      /\ \A c \in Nat \X Index : c \in HIds(s, more) <=> c[1] = Len(s) + 1 /\ c[2] \in DOMAIN more
  BY IdsAre
<1>4. \A c \in SIds(s) : c[1] \in DOMAIN s /\ s[c[1]][c[2]].fate \in {"sent", "dropped"}
  BY <1>2, IdsAre
<1>5. HIds(s, calls) \subseteq HIds(s, more)
  BY <1>2, <1>3 DEF Grows
<1>6. HIds(s, more) \cap SIds(s) = {}
  BY <1>1, <1>2, <1>3, <1>4
<1>7. /\ SIds(s) = FIds(s, "sent") \cup FIds(s, "dropped")
       /\ FIds(s, "sent") \cap FIds(s, "dropped") = {}
  BY <1>4 DEF FIds
<1>8. TIds(s, calls) \subseteq TIds(s, more)
  BY <1>2, <1>3, <1>5 DEF TIds, Grows
<1>9. TIds(s, more) \subseteq HIds(s, more) \cup SIds(s)
  BY DEF TIds
<1>10. \A c \in SIds(s) : c \in TIds(s, more) => c \in TIds(s, calls)
  BY <1>6 DEF TIds
<1> QED BY <1>2, <1>5, <1>6, <1>7, <1>8, <1>9, <1>10 DEF Moves

LEMMA MovesSettled ==
  ASSUME NEW s \in Seq(Resolution), NEW calls, CallsTyped(calls), NEW more, CallsTyped(more),
         Grows(calls, more), NEW fate \in {"sent", "dropped"},
         fate = "sent" => \A i \in DOMAIN more : more[i].clean,
         NEW t \in Seq(Resolution), Len(t) = Len(s) + 1,
         \A b \in DOMAIN s : t[b] = s[b],
         DOMAIN t[Len(s) + 1] = DOMAIN more,
         \A i \in DOMAIN more : /\ t[Len(s) + 1][i].clean = more[i].clean
                                /\ t[Len(s) + 1][i].fate = fate
  PROVE  Moves(HIds(s, calls), FIds(s, "sent"), FIds(s, "dropped"), TIds(s, calls),
               HIds(t, <<>>), FIds(t, "sent"), FIds(t, "dropped"), TIds(t, <<>>))
<1>1. /\ DOMAIN s = 1..Len(s) /\ Len(s) \in Nat /\ DOMAIN t = 1..(Len(s) + 1)
      /\ CallsTyped(<<>>) /\ DOMAIN <<>> = {}
  BY DEF CallsTyped
<1>2. /\ HIds(s, calls) \subseteq Nat \X Index /\ SIds(s) \subseteq Nat \X Index
      /\ SIds(t) \subseteq Nat \X Index
  BY <1>1, IdsAre
<1>3. HIds(t, <<>>) = {}
  BY <1>1 DEF HIds
<1>4. \A c \in Nat \X Index :
        /\ c \in HIds(s, calls) <=> c[1] = Len(s) + 1 /\ c[2] \in DOMAIN calls
        /\ c \in SIds(s) <=> c[1] \in DOMAIN s /\ c[2] \in DOMAIN s[c[1]]
  BY IdsAre
<1>5. \A c \in Nat \X Index :
        /\ c \in SIds(t) <=> c[1] \in DOMAIN t /\ c[2] \in DOMAIN t[c[1]]
        /\ c \in SIds(t) => t[c[1]][c[2]].fate \in {"sent", "dropped"}
  BY <1>1, IdsAre
\* What was settled stays as it was; the rest are the calls of this resolution.
<1>6. ASSUME NEW c \in SIds(s) PROVE c \in SIds(t) /\ t[c[1]] = s[c[1]] /\ c \notin HIds(s, calls)
  <2>1. c \in Nat \X Index /\ c[1] \in DOMAIN s /\ c[2] \in DOMAIN s[c[1]]
    BY <1>2, <1>4
  <2> QED BY <1>1, <1>4, <1>5, <2>1
<1>7. ASSUME NEW c \in SIds(t), c \notin SIds(s)
      PROVE  /\ c[1] = Len(s) + 1 /\ c[2] \in DOMAIN more
             /\ t[c[1]][c[2]].fate = fate /\ t[c[1]][c[2]].clean = more[c[2]].clean
  <2>1. c \in Nat \X Index /\ c[1] \in DOMAIN t /\ c[2] \in DOMAIN t[c[1]]
    BY <1>2, <1>5
  <2>2. c[1] = Len(s) + 1
    <3> SUFFICES ASSUME c[1] # Len(s) + 1 PROVE FALSE
      OBVIOUS
    <3>1. c[1] \in DOMAIN s
      BY <1>1, <2>1
    <3>2. c[2] \in DOMAIN s[c[1]]
      BY <2>1, <3>1
    <3> QED BY <1>4, <1>7, <2>1, <3>1, <3>2
  <2> QED BY <2>1, <2>2
<1>8. ASSUME NEW c \in HIds(s, calls)
      PROVE  /\ c \in SIds(t) /\ c \notin SIds(s)
             /\ ~calls[c[2]].clean => ~t[c[1]][c[2]].clean
  <2>1. c \in Nat \X Index /\ c[1] = Len(s) + 1 /\ c[2] \in DOMAIN calls
    BY <1>2, <1>4
  <2>2. c[2] \in DOMAIN more /\ (more[c[2]].clean => calls[c[2]].clean)
    BY <2>1 DEF Grows
  <2>3. c \in SIds(t)
    BY <1>1, <1>5, <2>1, <2>2
  <2> QED BY <1>6, <2>1, <2>2, <2>3
<1>9. /\ SIds(t) = FIds(t, "sent") \cup FIds(t, "dropped")
       /\ FIds(t, "sent") \cap FIds(t, "dropped") = {}
  BY <1>2, <1>5 DEF FIds
<1>10. FIds(s, "sent") \subseteq FIds(t, "sent") /\ FIds(s, "dropped") \subseteq FIds(t, "dropped")
  BY <1>6 DEF FIds
<1>11. TIds(t, <<>>) = {c \in SIds(t) : ~t[c[1]][c[2]].clean}
  BY <1>3 DEF TIds
<1>12. TIds(s, calls) \subseteq TIds(t, <<>>)
  BY <1>6, <1>8, <1>11 DEF TIds
<1>13. ASSUME NEW c \in FIds(s, "sent") \cup FIds(s, "dropped"), c \in TIds(t, <<>>)
       PROVE  c \in TIds(s, calls)
  BY <1>6, <1>11, <1>13 DEF FIds, TIds
<1>14. ASSUME NEW c \in FIds(t, "sent"), c \notin FIds(s, "sent"), c \in TIds(t, <<>>)
       PROVE  FALSE
  <2>1. c \in SIds(t) /\ t[c[1]][c[2]].fate = "sent" /\ ~t[c[1]][c[2]].clean
    BY <1>11, <1>14 DEF FIds
  <2>2. c \notin SIds(s)
    BY <1>6, <1>14, <2>1 DEF FIds
  <2> QED BY <1>7, <2>1, <2>2
<1>15. HIds(s, calls) \subseteq SIds(t) /\ TIds(t, <<>>) \subseteq SIds(t)
  BY <1>8, <1>11
<1>16. FIds(t, "sent") \subseteq Nat \X Index /\ FIds(t, "dropped") \subseteq Nat \X Index
  BY <1>2 DEF FIds
<1> QED BY <1>3, <1>9, <1>10, <1>12, <1>13, <1>14, <1>15, <1>16 DEF Moves

MovesNow ==
  Moves(HIds(settled, heldCalls), FIds(settled, "sent"), FIds(settled, "dropped"),
        TIds(settled, heldCalls),
        HIds(settled', heldCalls'), FIds(settled', "sent"), FIds(settled', "dropped"),
        TIds(settled', heldCalls'))

LEMMA OpenedGrows ==
  ASSUME CallInv, NEW f \in Chunks, NEW n \in Sizes, NEW args, NEW names, NEW fs, NEW saw,
         NEW over, NEW chunks, NEW calls,
         Takes(f, n, args, names, fs, saw, over, chunks, calls)
  PROVE  Grows(heldCalls, calls)
<1>1. CASE ~HasTool(f)
  BY <1>1, TextTaken DEF CallInv, Grows
<1>2. CASE HasTool(f)
  <2>1. over \in BOOLEAN /\ calls = Opened(f, over)
    BY <1>2, ToolTakenIs DEF CallInv
  <2>2. PICK d : d = Tool(f)
    OBVIOUS
  <2>3. /\ DOMAIN calls = DOMAIN heldCalls \cup {d.index}
        /\ calls[d.index].clean <=> CleanWith(d, over)
        /\ \A i \in DOMAIN heldCalls \ {d.index} :
             calls[i].clean <=> heldCalls[i].clean /\ ~over
    BY <1>2, <2>1, <2>2, OpenedIs DEF CallInv
  <2>4. d.index \in DOMAIN heldCalls /\ calls[d.index].clean => heldCalls[d.index].clean
    BY <2>3 DEF CleanWith, CallOf
  <2> QED BY <2>3, <2>4 DEF Grows
<1> QED BY <1>1, <1>2

LEMMA SettledMoves ==
  ASSUME CallInv, NEW calls, CallsTyped(calls), Grows(heldCalls, calls),
         NEW fate \in {"sent", "dropped"}, SettledBy(settled', calls, fate), heldCalls' = <<>>,
         fate = "sent" => \A i \in DOMAIN calls : calls[i].clean
  PROVE  MovesNow
<1>1. PICK t : t = settled'
  OBVIOUS
<1>2. settled \in Seq(Resolution) /\ CallsTyped(heldCalls) /\ DOMAIN settled = 1..Len(settled)
  BY DEF CallInv, TypeOK
<1>3. /\ t \in Seq(Resolution) /\ Len(t) = Len(settled) + 1
      /\ \A b \in DOMAIN settled : t[b] = settled[b]
      /\ DOMAIN t[Len(settled) + 1] = DOMAIN calls
      /\ \A i \in DOMAIN calls : /\ t[Len(settled) + 1][i].clean = calls[i].clean
                                 /\ t[Len(settled) + 1][i].fate = fate
  BY <1>1, <1>2, SettledTyped
<1>4. Moves(HIds(settled, heldCalls), FIds(settled, "sent"), FIds(settled, "dropped"),
            TIds(settled, heldCalls),
            HIds(t, <<>>), FIds(t, "sent"), FIds(t, "dropped"), TIds(t, <<>>))
  BY <1>2, <1>3, MovesSettled
<1> QED BY <1>1, <1>4 DEF MovesNow

LEMMA SameMoves ==
  ASSUME CallInv, CallInv', Grows(heldCalls, heldCalls'), settled' = settled
  PROVE  MovesNow
<1>1. /\ settled \in Seq(Resolution) /\ CallsTyped(heldCalls)
      /\ CallsTyped(heldCalls')
  BY DEF CallInv, TypeOK, CallsTyped
<1>2. PICK more : more = heldCalls'
  OBVIOUS
<1>3. Moves(HIds(settled, heldCalls), FIds(settled, "sent"), FIds(settled, "dropped"),
            TIds(settled, heldCalls),
            HIds(settled, more), FIds(settled, "sent"), FIds(settled, "dropped"),
            TIds(settled, more))
  BY <1>1, <1>2, MovesHeld
<1> QED BY <1>2, <1>3 DEF MovesNow

LEMMA ResolvedMoves ==
  ASSUME CallInv, NEW args, NEW names, NEW fs, NEW saw, NEW over, NEW chunks, NEW finish,
         NEW calls, Resolves(args, names, fs, saw, over, chunks, finish, calls),
         Grows(heldCalls, calls)
  PROVE  MovesNow /\ heldCalls' = <<>>
<1>1. /\ args \in [Index -> Inspector] /\ saw \in BOOLEAN /\ over \in BOOLEAN
      /\ chunks \in Seq(Chunks) /\ CallsTyped(calls) /\ Followed(args, fs, saw, over, calls)
  BY DEF Resolves
<1>2. PICK fate \in {"sent", "dropped"} :
        /\ fate = IF Drops(args, fs, saw, over) THEN "dropped" ELSE "sent"
        /\ SettledBy(settled', calls, fate)
  BY ResolvesIs DEF CallInv
<1>3. heldCalls' = <<>>
  BY ResolvesIs DEF CallInv, Leaves
<1>4. fate = "sent" => ~Drops(args, fs, saw, over)
  BY <1>2
<1>5. fate = "sent" => \A i \in DOMAIN calls : calls[i].clean
  BY <1>1, <1>4, SentIsClean
<1> QED BY <1>1, <1>2, <1>3, <1>5, SettledMoves

LEMMA GuardMoves ==
  ASSUME IInv, IInv', Next
  PROVE  /\ MovesNow
         /\ phase # "done" /\ (failed => failed') /\ (blocked => blocked')
         /\ phase' = "done" => /\ DOMAIN heldCalls' = {} \/ failed'
                               /\ droppedTool' => blocked'
<1>1. CallInv /\ CallInv'
  BY DEF IInv
<1>2. failed \in BOOLEAN /\ failed' \in BOOLEAN /\ blocked \in BOOLEAN /\ blocked' \in BOOLEAN
      /\ droppedTool \in BOOLEAN /\ droppedTool' \in BOOLEAN
  BY <1>1 DEF CallInv, TypeOK
<1>3. ASSUME heldCalls' = heldCalls, settled' = settled PROVE MovesNow
  BY <1>1, <1>3, SameMoves DEF Grows
<1>4. ASSUME NEW f \in Frame, Passes(f)
      PROVE  /\ MovesNow /\ phase = "reading" /\ phase' # "done"
             /\ (failed => failed') /\ blocked' = blocked
  <2>1. /\ heldCalls' = heldCalls /\ settled' = settled /\ blocked' = blocked
        /\ Receive(f) /\ Proceed
    BY <1>4 DEF Passes, history
  <2>2. PICK k \in Nat : Adds(<<f>>, k)
    BY <1>4 DEF Passes
  <2> QED BY <1>3, <2>1, <2>2 DEF Receive, Proceed, Adds
<1>5. ASSUME NEW f \in Frame, NEW n \in Sizes, HoldChunk(f, n)
      PROVE  /\ MovesNow /\ phase = "reading" /\ phase' = "reading"
             /\ failed' = failed /\ blocked' = blocked
  <2>1. /\ f \in Chunks /\ Receive(f)
        /\ Takes(f, n, toolArgs', toolName', findings', sawTool', oversized', bufChunks',
                 heldCalls')
        /\ UNCHANGED <<blocked, failed, phase, settled>>
    BY <1>1, <1>5, HoldIs DEF CallInv
  <2>2. Grows(heldCalls, heldCalls')
    BY <1>1, <2>1, OpenedGrows
  <2>3. MovesNow
    BY <1>1, <2>1, <2>2, SameMoves
  <2> QED BY <2>1, <2>3 DEF Receive
<1>6. ASSUME NEW f \in Frame, NEW n \in Sizes, ResolveChunk(f, n)
      PROVE  /\ MovesNow /\ phase = "reading" /\ phase' # "done"
             /\ (failed => failed') /\ blocked' = blocked
  <2>1. f \in Chunks /\ Receive(f) /\ Proceed /\ blocked' = blocked
    BY <1>1, <1>6, ResolveChunkIs
  <2>2. PICK args, names, fs, saw, over, chunks, calls :
          /\ Takes(f, n, args, names, fs, saw, over, chunks, calls)
          /\ Resolves(args, names, fs, saw, over, chunks, FinishOf(f, n), calls)
    BY <1>1, <1>6, ResolveChunkIs
  <2>3. Grows(heldCalls, calls)
    BY <1>1, <2>1, <2>2, OpenedGrows
  <2>4. MovesNow
    BY <1>1, <2>2, <2>3, ResolvedMoves
  <2>5. \E k \in Nat : Adds(Resolving(args, fs, saw, over, chunks, FinishOf(f, n)), k)
    BY <1>1, <2>2, ResolvesIs DEF CallInv
  <2> QED BY <2>1, <2>4, <2>5 DEF Receive, Proceed, Adds
<1>7. ASSUME NEW calls, Overflows(calls)
      PROVE  /\ MovesNow /\ phase = "reading" /\ phase' = "closing"
             /\ (failed => failed') /\ blocked' = TRUE
  <2>1. /\ phase = "reading" /\ phase' = "closing" /\ blocked' = TRUE
        /\ CallsTyped(calls) /\ DOMAIN calls = DOMAIN heldCalls
        /\ \A i \in DOMAIN calls : calls[i].clean = FALSE
        /\ SettledBy(settled', calls, "dropped") /\ heldCalls' = <<>>
    BY <1>7 DEF Overflows
  <2>2. Grows(heldCalls, calls)
    BY <2>1 DEF Grows
  <2>3. MovesNow
    BY <1>1, <2>1, <2>2, SettledMoves
  <2>4. \E k \in Nat : Adds(<<NoteChunk, FinishChunk("stop"), Done>>, k)
    BY <1>7 DEF Overflows
  <2> QED BY <2>1, <2>3, <2>4 DEF Adds
<1>8. ASSUME Rests
      PROVE  /\ MovesNow /\ phase # "done" /\ failed' = failed /\ (blocked => blocked')
             /\ phase' = "done" => /\ DOMAIN heldCalls' = {} \/ failed'
                                   /\ droppedTool' => blocked'
  <2>1. /\ phase \in {"reading", "closing"} /\ heldCalls' = heldCalls /\ settled' = settled
        /\ failed' = failed /\ droppedTool' = droppedTool
        /\ phase' = "done" => ~Unresolved /\ blocked' = (blocked \/ droppedTool)
        /\ phase' # "done" => blocked' = blocked
    BY <1>8 DEF Rests, history
  <2>2. ASSUME phase' = "done", ~failed PROVE DOMAIN heldCalls = {}
    BY <1>1, <2>1, <2>2 DEF Unresolved, CallInv, Kept
  <2>3. MovesNow
    BY <1>3, <2>1
  <2>4. phase' = "done" => DOMAIN heldCalls' = {} \/ failed'
    BY <2>1, <2>2
  <2>5. (phase' = "done" => (droppedTool' => blocked')) /\ (blocked => blocked')
    BY <1>2, <2>1
  <2> QED BY <2>1, <2>3, <2>4, <2>5
<1>9. CASE Close /\ Unresolved
  <2>1. /\ Resolves(toolArgs, toolName, findings, sawTool, oversized, bufChunks, <<>>, heldCalls)
        /\ phase = "closing" /\ blocked' = (blocked \/ droppedTool')
    BY <1>1, <1>9, CloseIs
  <2>2. MovesNow /\ heldCalls' = <<>>
    <3>1. Grows(heldCalls, heldCalls)
      BY DEF Grows
    <3> QED BY <1>1, <2>1, <3>1, ResolvedMoves
  <2>3. failed => failed'
    <3>1. \E k \in Nat : Adds(Resolving(toolArgs, findings, sawTool, oversized, bufChunks, <<>>), k)
      BY <1>1, <2>1, ResolvesIs DEF CallInv
    <3> QED BY <3>1 DEF Adds
  <2>4. DOMAIN heldCalls' = {}
    BY <2>2
  <2> QED BY <1>2, <2>1, <2>2, <2>3, <2>4
<1> QED BY <1>1, <1>2, <1>4, <1>5, <1>6, <1>7, <1>8, <1>9, StepIs

LEMMA IdsNow ==
  /\ HeldIds = HIds(settled, heldCalls) /\ SettledIds = SIds(settled)
  /\ \A fate : {c \in SettledIds : FateIs(c, fate)} = FIds(settled, fate)
  /\ {c \in SettledIds : ~settled[c[1]][c[2]].clean}
       \cup {c \in HeldIds : ~heldCalls[c[2]].clean} = TIds(settled, heldCalls)
BY DEF HeldIds, SettledIds, HIds, SIds, FIds, TIds, FateIs

LEMMA GuardInit ==
  ASSUME Init
  PROVE  Guard!Init
<1>1. DOMAIN heldCalls = {} /\ DOMAIN settled = {}
  BY DEF Init
<1>2. HeldIds = {} /\ SettledIds = {}
  BY <1>1 DEF HeldIds, SettledIds
<1> QED BY <1>2 DEF Guard!Init, Init, StateInit

LEMMA GuardNext ==
  ASSUME IInv, IInv', Next
  PROVE  Guard!Next
<1>1. /\ MovesNow
      /\ phase # "done" /\ (failed => failed') /\ (blocked => blocked')
      /\ phase' = "done" => /\ DOMAIN heldCalls' = {} \/ failed'
                            /\ droppedTool' => blocked'
  BY GuardMoves
<1>2. failed \in BOOLEAN /\ failed' \in BOOLEAN /\ blocked \in BOOLEAN /\ blocked' \in BOOLEAN
  BY DEF IInv, CallInv, TypeOK
<1>3. Guard!Settle /\ Guard!Taint
  BY <1>1 DEF MovesNow, Moves, Guard!Settle, Guard!Taint, Guard!Disjoint, Guard!Known,
              HeldIds, SettledIds, HIds, SIds, FIds, TIds, FateIs
<1>4. CASE phase' # "done"
  <2>1. Guard!Read
    BY <1>1, <1>2, <1>3, <1>4 DEF Guard!Read
  <2> QED BY <1>1, <2>1 DEF Guard!Next
<1>5. CASE phase' = "done"
  <2>1. HeldIds' = {} \/ failed'
    BY <1>1, <1>5 DEF HeldIds
  <2>2. {c \in SettledIds : FateIs(c, "dropped")}' # {} => blocked'
    <3> SUFFICES ASSUME NEW c \in SettledIds', FateIs(c, "dropped")' PROVE blocked'
      OBVIOUS
    <3>1. SettledIds' = SIds(settled')
      BY DEF SettledIds, SIds
    <3>2. PICK b \in DOMAIN settled' : \E i \in DOMAIN settled'[b] : c = <<b, i>>
      BY <3>1 DEF SIds
    <3>3. PICK i \in DOMAIN settled'[b] : c = <<b, i>>
      BY <3>2
    <3>4. settled'[b][i].fate = "dropped"
      BY <3>3 DEF FateIs
    <3>5. IsDropped'
      BY <3>4 DEF IsDropped
    <3>6. droppedTool' \/ blocked'
      BY <3>5 DEF IInv, Reported
    <3> QED BY <1>1, <1>5, <3>6
  <2>3. Guard!End
    BY <1>1, <1>2, <1>3, <1>5, <2>1, <2>2 DEF Guard!End
  <2> QED BY <1>1, <2>3 DEF Guard!Next
<1> QED BY <1>4, <1>5

\* The handler keeps the promise of CallGuard: calls are held from their first
\* chunk, released only when clean, settled for good, and a dropped one is
\* reported (openai.go:45-187).
THEOREM ImplementsGuard == Spec => GuardSpec
<1>1. Init => Guard!Init
  BY GuardInit
<1>2. IInv /\ IInv' /\ [Next]_vars => [Guard!Next]_Guard!guardVars
  <2>1. ASSUME IInv, IInv', Next PROVE Guard!Next
    BY <2>1, GuardNext
  <2>2. ASSUME UNCHANGED vars PROVE UNCHANGED Guard!guardVars
    <3>1. UNCHANGED <<failed, blocked, phase, heldCalls, settled>>
      BY <2>2 DEF vars, stateVars, history
    <3> QED BY <3>1 DEF Guard!guardVars, HeldIds, SettledIds, FateIs
  <2> QED BY <2>1, <2>2
<1> QED BY <1>1, <1>2, Inductive, PTL DEF Spec, GuardSpec, Guard!Spec
=============================================================================
