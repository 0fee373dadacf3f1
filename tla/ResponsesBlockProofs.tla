------------------------ MODULE ResponsesBlockProofs ------------------------
(***************************************************************************)
(* Proofs about ResponsesBlock, for any ids, names, sizes and number of    *)
(* items and frames, any upstream, and a client that may go at any write:  *)
(* the data held for a call stays within its cap (TypesHold), the calls a  *)
(* client reads are verified (CallsAreVerified), nothing follows the error *)
(* event (NothingAfterError), response.completed comes last                *)
(* (CompletedComesLast), and the handler implements CallGuard              *)
(* (ImplementsGuard).                                                      *)
(*                                                                         *)
(* The properties speak of what the client and the upstream know; the      *)
(* handler only reads its table of calls.  The invariant IInv relates them.*)
(*  - Serials, Named, Remembered: a call is withheld or resolved, never    *)
(*    both; a name that is not declared was reported; a drop and a write   *)
(*    error are remembered where the loops are left.                       *)
(*  - ErrorIsLast: the error event is only written once something of high  *)
(*    severity was found, and that makes every later call drop too.        *)
(*  - InTurn: the calls withheld from an orderly upstream are its items    *)
(*    that are not done, with the same name and, up to the cap, arguments. *)
(*  - Judged: in the loop over the final frame the items before the next   *)
(*    one are acceptable, and the calls left stand at or after it; a call  *)
(*    is matched by id or by index, and this needs both to be its own.     *)
(*  - Finished: once the final frame is out no call is left, so the steps  *)
(*    that are still possible write nothing.                               *)
(***************************************************************************)
EXTENDS ResponsesBlock, SequenceTheorems, TLAPS

-----------------------------------------------------------------------------
(* The invariant *)

HeldFrame   == {f \in CallFrame : f.kind # "item_done"}
ListItem    == [id : Id \cup {NoId}, name : Name, args : Seq(Frag)]
FinalFrame  == [kind : {"completed"}, items : Seq(ListItem)]
OutFrame    == CallFrame \cup OtherFrame \cup FinalFrame \cup {BlockedEvent}
StreamItem  == [key : Key, name : Name, args : Seq(Frag),
                stage : {"open", "filled", "done"}]
HeldCall    == [name : Name, args : Seq(Frag), raw : Seq(HeldFrame),
                bytes : 0..MaxToolCallBytes, gotDelta : BOOLEAN, oversized : BOOLEAN,
                serial : Nat]
Resolved    == [clean : BOOLEAN, fate : {"sent", "dropped"}]
Upstreams   == [items : Seq(StreamItem), final : BOOLEAN, sent : Nat, orderly : BOOLEAN]

CallsTyped(cs) == DOMAIN cs \subseteq Key /\ \A k \in DOMAIN cs : cs[k] \in HeldCall
LedgerTyped(l) == DOMAIN l \subseteq Nat /\ \A s \in DOMAIN l : l[s] \in Resolved

TypeOK ==
  /\ declaredTools \subseteq ToolName /\ findings \subseteq Rules
  /\ sawTool \in BOOLEAN /\ blocked \in BOOLEAN /\ failed \in BOOLEAN
  /\ out \in Seq(OutFrame)
  /\ phase \in {"reading", "final", "closing", "done"}
  /\ CallsTyped(calls)
  /\ final \in [frame : FinalFrame, next : Nat \ {0}]
  /\ dropped \in BOOLEAN /\ stopped \in BOOLEAN /\ terminated \in BOOLEAN
  /\ text \in Seq(Frag)
  /\ upstream \in Upstreams
  /\ opened \in Nat /\ LedgerTyped(ledger)

\* No two calls have one serial number, and none has that of a resolved call.
Serials(cs, n, l) ==
  /\ \A k \in DOMAIN cs : cs[k].serial < n /\ cs[k].serial \notin DOMAIN l
  /\ \A j, k \in DOMAIN cs : cs[j].serial = cs[k].serial => j = k
  /\ \A s \in DOMAIN l : s < n

\* An undeclared name is reported while the call is held.
Declared(n)     == n \in declaredTools \cup {NoName}
Named(cs, fs) == \A k \in DOMAIN cs : Declared(cs[k].name) \/ IsHigh(fs)

\* A dropped call is remembered, and so is why the loops were left.
IsDropped(l) == \E s \in DOMAIN l : l[s].fate = "dropped"
Remembered ==
  /\ IsDropped(ledger) => dropped
  /\ terminated => dropped
  /\ stopped => dropped \/ failed

\* Whatever made the handler drop a call makes it drop the ones that follow.
Bad      == IsHigh(findings) \/ declaredTools = {}
HasError == \E p \in DOMAIN out : IsBlocked(p)
ErrorIsLast ==
  /\ HasError => phase \in {"closing", "done"} /\ Bad
  /\ NoFrameAfterError

\* Of an orderly upstream: the calls that are held are the items not done yet, with
\* the name and the arguments the upstream gave them.
Stands(c, e) ==
  /\ e.stage # "done" /\ c.name = e.name
  /\ ~c.oversized => c.args = e.args
  /\ c.gotDelta => e.args # <<>>
  /\ ~c.gotDelta /\ e.stage = "open" => e.args = <<>>

Listed(items) ==
  /\ \A i \in DOMAIN items : items[i].name # NoName /\ items[i].key \in Id \cup {i - 1}
  /\ \A i, j \in DOMAIN items : items[i].key = items[j].key => i = j

Tracked(cs, items) ==
  \A k \in DOMAIN cs : \E i \in DOMAIN items : items[i].key = k /\ Stands(cs[k], items[i])

AllHeld(cs, items) ==
  \A i \in DOMAIN items : items[i].stage # "done" => items[i].key \in DOMAIN cs

InTurn ==
  upstream.orderly =>
    /\ Listed(upstream.items)
    /\ Tracked(calls, upstream.items)
    /\ phase = "reading" /\ ~upstream.final => AllHeld(calls, upstream.items)
    /\ phase = "final" => upstream.final

\* The final frame lists what was streamed; its items are resolved in their order.
Reports(list, items) ==
  /\ Len(list) = Len(items)
  /\ \A i \in DOMAIN items :
       /\ list[i].id \in {items[i].key, NoId}
       /\ list[i].name = items[i].name /\ list[i].args = items[i].args

Judged ==
  upstream.orderly /\ phase = "final" =>
    LET list == final.frame.items IN
    /\ final.next <= Len(list) + 1
    /\ upstream.items # <<>> => Reports(list, upstream.items)
    /\ \A i \in 1..(final.next - 1) : Acceptable(list[i].name, list[i].args)
    /\ KeepsIds(list) =>
         \A k \in DOMAIN calls : \E i \in DOMAIN upstream.items :
           upstream.items[i].key = k /\ i >= final.next

\* After the final frame nothing is left to be written.
Finished ==
  upstream.orderly =>
    \A p \in DOMAIN out : out[p].kind = "completed" =>
      /\ upstream.final /\ phase # "final"
      /\ KeepsIds(out[p].items) => DOMAIN calls = {} /\ p = Len(out)

IInv ==
  /\ TypeOK
  /\ Serials(calls, opened, ledger) /\ Named(calls, findings) /\ Remembered
  /\ ErrorIsLast
  /\ InTurn /\ Judged /\ Finished /\ SentCallsVerified
-----------------------------------------------------------------------------
(* Frames *)

LEMMA CallFrameIs ==
  ASSUME NEW f \in CallFrame
  PROVE  /\ f.kind \in {"added", "args_delta", "args_done", "item_done"}
         /\ f.key \in Key /\ f.args \in Seq(Frag)
         /\ f.kind \in {"added", "item_done"} => f.name \in Name
         /\ f.kind = "args_delta" => f.args # <<>>
<1>1. CASE f \in [kind : {"added", "item_done"}, key : Key, name : Name, args : Contents]
  BY <1>1, ContentAssumption
<1>2. CASE f \in [kind : {"args_delta"}, key : Key, args : {<<g>> : g \in Frag}]
  <2>1. PICK g \in Frag : f.args = <<g>>
    BY <1>2
  <2>2. <<g>> \in Seq(Frag) /\ <<g>> # <<>>
    OBVIOUS
  <2> QED BY <1>2, <2>1, <2>2
<1>3. CASE f \in [kind : {"args_done"}, key : Key, args : Contents]
  BY <1>3, ContentAssumption
<1> QED BY <1>1, <1>2, <1>3 DEF CallFrame

LEMMA OtherFrameIs ==
  ASSUME NEW f \in OtherFrame
  PROVE  /\ f.kind \in {"text_delta", "error", "other"}
         /\ f.kind = "text_delta" => f.frag \in Frag
         /\ f \in OutFrame
BY DEF OtherFrame, Other, OutFrame

LEMMA BlockedIs ==
  /\ BlockedEvent.kind = "blocked" /\ BlockedEvent \in OutFrame
  /\ \A f : f.kind \in {"added", "args_delta", "args_done", "item_done", "text_delta",
                        "error", "other", "completed"} => f # BlockedEvent
BY DEF BlockedEvent, OutFrame

\* Frames that are forwarded are told apart from the error event by their kind.
LEMMA OutFrameIs ==
  ASSUME NEW f \in OutFrame
  PROVE  /\ f.kind \in {"added", "args_delta", "args_done", "item_done", "text_delta",
                        "error", "other", "completed", "blocked"}
         /\ f.kind = "blocked" <=> f = BlockedEvent
         /\ f.kind = "completed" => f \in FinalFrame
         /\ f.kind = "item_done" => f \in CallFrame
<1>1. CASE f \in CallFrame
  BY <1>1, CallFrameIs, BlockedIs
<1>2. CASE f \in OtherFrame
  BY <1>2, OtherFrameIs, BlockedIs
<1>3. CASE f \in FinalFrame
  BY <1>3, BlockedIs DEF FinalFrame
<1>4. CASE f = BlockedEvent
  BY <1>4, BlockedIs
<1> QED BY <1>1, <1>2, <1>3, <1>4 DEF OutFrame

LEMMA CompletedIs ==
  ASSUME NEW s \in Seq(ListItem)
  PROVE  Completed(s) \in FinalFrame /\ Completed(s).items = s
BY DEF Completed, FinalFrame

-----------------------------------------------------------------------------
(* Writing, and judging *)

\* The first k of the frames follow what was written before.
Adds(frames, k) ==
  /\ k \in 0..Len(frames) /\ (failed => k = 0)
  /\ failed' = (failed \/ k < Len(frames))
  /\ out' \in Seq(OutFrame) /\ Len(out') = Len(out) + k
  /\ \A p \in 1..Len(out) : out'[p] = out[p]
  /\ \A j \in 1..k : out'[Len(out) + j] = frames[j]

LEMMA EmitAdds ==
  ASSUME out \in Seq(OutFrame), failed \in BOOLEAN, NEW frames \in Seq(OutFrame),
         Emit(frames)
  PROVE  \E k \in Nat : Adds(frames, k)
<1>1. PICK k \in IF failed THEN {0} ELSE 0..Len(frames) :
        /\ out' = out \o SubSeq(frames, 1, k)
        /\ failed' = (failed \/ k < Len(frames))
  BY DEF Emit
<1>2. k \in 0..Len(frames) /\ Len(frames) \in Nat /\ (failed => k = 0)
  BY <1>1
<1>3. PICK s : s = SubSeq(frames, 1, k)
  OBVIOUS
<1>4. s \in Seq(OutFrame) /\ Len(s) = k /\ \A j \in 1..k : s[j] = frames[j]
  BY <1>2, <1>3
<1>5. out' = out \o s
  BY <1>1, <1>3
<1>6. /\ out' \in Seq(OutFrame) /\ Len(out') = Len(out) + k
      /\ \A p \in 1..Len(out) : out'[p] = out[p]
      /\ \A j \in 1..k : out'[Len(out) + j] = s[j]
  <2>1. out \o s \in Seq(OutFrame) /\ Len(out \o s) = Len(out) + Len(s)
    BY <1>4, ConcatProperties
  <2>2. \A p \in 1..Len(out) : (out \o s)[p] = out[p]
    BY <1>4
  <2>3. \A j \in 1..k : (out \o s)[Len(out) + j] = s[j]
    BY <1>2, <1>4
  <2> QED BY <1>4, <1>5, <2>1, <2>2, <2>3
<1> QED BY <1>1, <1>2, <1>4, <1>6 DEF Adds

LEMMA InspectIs ==
  ASSUME NEW c
  PROVE  Inspect(c) \subseteq Rules /\ (IsHigh(Inspect(c)) <=> Signature(c))
<1>1. "rule-medium" \notin HighRules /\ "rule-high" \in HighRules
  BY DEF HighRules
<1> QED BY <1>1 DEF Inspect, IsHigh, Rules

LEMMA CheckIs ==
  ASSUME NEW n
  PROVE  /\ CheckToolCall(n) \subseteq Rules
         /\ IsHigh(CheckToolCall(n)) <=> declaredTools = {} \/ ~Declared(n)
BY DEF CheckToolCall, HighRules, Rules, IsHigh, Declared

LEMMA HighJoin ==
  ASSUME NEW a, NEW b
  PROVE  IsHigh(a \cup b) <=> IsHigh(a) \/ IsHigh(b)
BY DEF IsHigh

\* Arguments that are put together keep the signature of each part.
LEMMA Joined ==
  ASSUME NEW a \in Seq(Frag), NEW b \in Seq(Frag)
  PROVE  /\ a \o b \in Seq(Frag)
         /\ Signature(a) \/ Signature(b) => Signature(a \o b)
         /\ a \o <<>> = a /\ <<>> \o b = b
         /\ a # <<>> \/ b # <<>> => a \o b # <<>>
<1>1. PICK d : d = a \o b
  OBVIOUS
<1>2. /\ d \in Seq(Frag) /\ Len(d) = Len(a) + Len(b) /\ Len(a) \in Nat /\ Len(b) \in Nat
      /\ \A i \in 1..Len(a) : d[i] = a[i]
  BY <1>1
<1>3. \A i \in 1..Len(b) : d[Len(a) + i] = b[i]
  BY <1>1, <1>2
<1>4. Signature(a) => Signature(d)
  <2> SUFFICES ASSUME Signature(a) PROVE Signature(d)
    OBVIOUS
  <2>1. PICK i \in 1..(Len(a) - 1) : a[i] = "head" /\ a[i + 1] = "tail"
    BY DEF Signature
  <2>2. i \in 1..(Len(d) - 1) /\ d[i] = a[i] /\ d[i + 1] = a[i + 1]
    BY <1>2, <2>1
  <2> QED BY <2>1, <2>2 DEF Signature
<1>5. ASSUME Signature(b) PROVE Signature(d)
  <2>1. PICK i \in 1..(Len(b) - 1) : b[i] = "head" /\ b[i + 1] = "tail"
    BY <1>5 DEF Signature
  <2>2. PICK j : j = Len(a) + i
    OBVIOUS
  <2>3. j \in 1..(Len(d) - 1) /\ i \in 1..Len(b) /\ i + 1 \in 1..Len(b)
    BY <1>2, <2>1, <2>2
  <2>4. d[j] = "head"
    BY <1>3, <2>1, <2>2, <2>3
  <2>5. j + 1 = Len(a) + (i + 1)
    BY <1>2, <2>1, <2>2
  <2>6. d[j + 1] = "tail"
    BY <1>3, <2>1, <2>3, <2>5
  <2> QED BY <2>3, <2>4, <2>6 DEF Signature
<1>6. a \o <<>> = a /\ <<>> \o b = b
  BY ConcatEmptySeq
<1>7. a # <<>> \/ b # <<>> => d # <<>>
  BY <1>2
<1> QED BY <1>1, <1>2, <1>4, <1>5, <1>6, <1>7

-----------------------------------------------------------------------------
(* What a call keeps of a frame *)

CallLike(c) ==
  /\ c.name \in Name /\ c.args \in Seq(Frag) /\ c.raw \in Seq(CallFrame)
  /\ c.bytes \in 0..MaxToolCallBytes /\ c.gotDelta \in BOOLEAN
  /\ c.oversized \in BOOLEAN /\ c.serial \in Nat

Keeps(c, f, a, r) ==
  /\ CallLike(r)
  /\ r.name = c.name /\ r.serial = c.serial /\ r.gotDelta = c.gotDelta
  /\ c.oversized => r.oversized
  /\ ~r.oversized => r.args = c.args \o a
  /\ Signature(c.args) => Signature(r.args)
  /\ \A q \in DOMAIN r.raw : r.raw[q] \in HeldFrame \/ r.raw[q] = f
  /\ f.kind # "item_done" => r \in HeldCall

LEMMA HeldIs ==
  ASSUME NEW c \in HeldCall
  PROVE  CallLike(c) /\ \A q \in DOMAIN c.raw : c.raw[q] \in HeldFrame
<1>1. c.raw \in Seq(HeldFrame)
  BY DEF HeldCall
<1>2. HeldFrame \subseteq CallFrame
  BY DEF HeldFrame
<1>3. c.raw \in Seq(CallFrame)
  BY <1>1, <1>2
<1> QED BY <1>1, <1>3 DEF HeldCall, CallLike

LEMMA BufferedKeeps ==
  ASSUME NEW c \in HeldCall, NEW f \in CallFrame, NEW a \in Seq(Frag), NEW n \in Sizes
  PROVE  Keeps(c, f, a, Buffered(c, f, a, n))
<1>1. PICK r : r = Buffered(c, f, a, n)
  OBVIOUS
<1>2. n \in Nat /\ MaxToolCallBytes \in Nat
  BY SizeAssumption
<1>3. CallLike(c) /\ \A q \in DOMAIN c.raw : c.raw[q] \in HeldFrame
  BY HeldIs
<1>4. c.raw \in Seq(HeldFrame)
  BY DEF HeldCall
<1>5. CASE c.oversized
  <2>1. r = c
    BY <1>1, <1>5 DEF Buffered
  <2>2. Keeps(c, f, a, r)
    BY <1>3, <1>5, <2>1 DEF Keeps
  <2> QED BY <1>1, <2>2
<1>6. CASE ~c.oversized /\ c.bytes + n > MaxToolCallBytes
  <2>1. r = [c EXCEPT !.oversized = TRUE, !.raw = <<>>, !.bytes = 0]
    BY <1>1, <1>6 DEF Buffered
  <2>2. /\ r.name = c.name /\ r.serial = c.serial /\ r.gotDelta = c.gotDelta
        /\ r.oversized = TRUE /\ r.raw = <<>> /\ r.bytes = 0 /\ r.args = c.args
        /\ r \in HeldCall
    <3>1. PICK w : w = <<>>
      OBVIOUS
    <3>2. w \in Seq(HeldFrame) /\ 0 \in 0..MaxToolCallBytes
      BY <1>2, <3>1
    <3>3. r = [c EXCEPT !.oversized = TRUE, !.raw = w, !.bytes = 0]
      BY <2>1, <3>1
    <3> QED BY <3>1, <3>2, <3>3 DEF HeldCall
  <2>3. CallLike(r)
    BY <1>2, <1>3, <2>2, HeldIs
  <2>4. \A q \in DOMAIN r.raw : r.raw[q] \in HeldFrame \/ r.raw[q] = f
    BY <2>2, HeldIs
  <2>5. Keeps(c, f, a, r)
    BY <1>6, <2>2, <2>3, <2>4 DEF Keeps
  <2> QED BY <1>1, <2>5
<1>7. CASE ~c.oversized /\ ~(c.bytes + n > MaxToolCallBytes)
  <2>1. r = [c EXCEPT !.bytes = c.bytes + n, !.raw = Append(c.raw, f), !.args = c.args \o a]
    BY <1>1, <1>7 DEF Buffered
  <2>2. PICK w : w = Append(c.raw, f)
    OBVIOUS
  <2>3. PICK e : e = c.args \o a
    OBVIOUS
  <2>4. e \in Seq(Frag) /\ (Signature(c.args) => Signature(e))
    BY <1>3, <2>3, Joined DEF CallLike
  <2>5. w \in Seq(CallFrame) /\ \A q \in DOMAIN w : w[q] \in HeldFrame \/ w[q] = f
    BY <1>3, <2>2 DEF CallLike
  <2>6. c.bytes + n \in 0..MaxToolCallBytes
    BY <1>2, <1>3, <1>7 DEF CallLike
  <2>7. /\ r.name = c.name /\ r.serial = c.serial /\ r.gotDelta = c.gotDelta
        /\ r.oversized = c.oversized /\ r.raw = w /\ r.bytes = c.bytes + n /\ r.args = e
    BY <2>1, <2>2, <2>3 DEF HeldCall
  <2>8. CallLike(r)
    BY <1>3, <2>4, <2>5, <2>6, <2>7 DEF CallLike
  <2>9. ASSUME f.kind # "item_done" PROVE r \in HeldCall
    <3>1. w \in Seq(HeldFrame)
      BY <1>4, <2>2, <2>9 DEF HeldFrame
    <3>2. r = [c EXCEPT !.bytes = c.bytes + n, !.raw = w, !.args = e]
      BY <2>1, <2>2, <2>3
    <3> QED BY <2>4, <2>6, <3>1, <3>2 DEF HeldCall
  <2>10. Keeps(c, f, a, r)
    BY <1>7, <2>3, <2>4, <2>5, <2>7, <2>8, <2>9 DEF Keeps
  <2> QED BY <1>1, <2>10
<1> QED BY <1>5, <1>6, <1>7, <1>3 DEF CallLike

-----------------------------------------------------------------------------
(* Resolving a call *)

\* The history of one more call.
Entered(serial, clean, fate) ==
  /\ DOMAIN ledger' = DOMAIN ledger \cup {serial}
  /\ \A s \in DOMAIN ledger \ {serial} : ledger'[s] = ledger[s]
  /\ ledger'[serial].clean = clean /\ ledger'[serial].fate = fate
  /\ LedgerTyped(ledger')

LEMMA EnterEnters ==
  ASSUME LedgerTyped(ledger), NEW serial \in Nat, NEW clean \in BOOLEAN,
         NEW fate \in {"sent", "dropped"}, Enter(serial, clean, fate)
  PROVE  Entered(serial, clean, fate)
<1>1. PICK e : e = [clean |-> clean, fate |-> fate]
  OBVIOUS
<1>2. e \in Resolved /\ e.clean = clean /\ e.fate = fate
  BY <1>1 DEF Resolved
<1>3. PICK l : l = ledger'
  OBVIOUS
<1>4. l = [s \in DOMAIN ledger \cup {serial} |-> IF s = serial THEN e ELSE ledger[s]]
  BY <1>1, <1>3 DEF Enter
<1>5. /\ DOMAIN l = DOMAIN ledger \cup {serial}
      /\ \A s \in DOMAIN ledger \ {serial} : l[s] = ledger[s]
      /\ l[serial] = e
  BY <1>4
<1>6. LedgerTyped(l)
  BY <1>2, <1>5 DEF LedgerTyped
<1> QED BY <1>2, <1>3, <1>5, <1>6 DEF Entered

\* A call that is not dropped is clean; what makes the handler drop one is kept.
LEMMA DropsIs ==
  ASSUME NEW c, CallLike(c), NEW fs, Declared(c.name) \/ IsHigh(fs)
  PROVE  /\ Drops(c, fs) \in BOOLEAN /\ Clean(c) \in BOOLEAN
         /\ ~Drops(c, fs) => Clean(c) /\ ~IsHigh(fs) /\ ~c.oversized
         /\ Drops(c, fs) => IsHigh(fs \cup FoundIn(c)) \/ declaredTools = {}
<1>1. Drops(c, fs) <=>
        Signature(c.args) \/ IsHigh(fs) \/ declaredTools = {} \/ c.oversized
  BY InspectIs DEF Drops
<1>2. c.oversized \in BOOLEAN
  BY DEF CallLike
<1>3. Drops(c, fs) \in BOOLEAN /\ Clean(c) \in BOOLEAN
  BY <1>2 DEF Drops, Clean, IsHigh
<1>4. ~Drops(c, fs) => Clean(c) /\ ~IsHigh(fs) /\ ~c.oversized
  BY <1>1 DEF Clean, Declared
<1>5. Signature(c.args) => IsHigh(FoundIn(c))
  BY InspectIs, HighJoin DEF FoundIn
<1>6. c.oversized => IsHigh(FoundIn(c))
  BY DEF FoundIn, IsHigh, HighRules
<1>7. Drops(c, fs) => IsHigh(fs \cup FoundIn(c)) \/ declaredTools = {}
  BY <1>1, <1>5, <1>6, HighJoin
<1> QED BY <1>3, <1>4, <1>7

\* What FinalizeCall does, whatever the call.
Replay(c, fs) == IF Drops(c, fs) THEN <<BlockedEvent>> ELSE c.raw
FateOf(c, fs) == IF Drops(c, fs) THEN "dropped" ELSE "sent"

Finalized(c, fs) ==
  /\ findings' \subseteq Rules /\ fs \subseteq findings'
  /\ dropped' \in BOOLEAN /\ (dropped' <=> dropped \/ Drops(c, fs))
  /\ Drops(c, fs) => IsHigh(findings') \/ declaredTools = {}
  /\ Entered(c.serial, Clean(c), FateOf(c, fs))
  /\ Replay(c, fs) \in Seq(OutFrame)
  /\ \E k \in Nat : Adds(Replay(c, fs), k)

LEMMA FinalizeCallIs ==
  ASSUME TypeOK, NEW c, CallLike(c), NEW fs \in SUBSET Rules,
         Declared(c.name) \/ IsHigh(fs), FinalizeCall(c, fs)
  PROVE  Finalized(c, fs)
<1>1. /\ findings' = fs \cup FoundIn(c)
      /\ Emit(Replay(c, fs))
      /\ dropped' = (dropped \/ Drops(c, fs))
      /\ Enter(c.serial, Clean(c), FateOf(c, fs))
  BY DEF FinalizeCall, Replay, FateOf
<1>2. FoundIn(c) \subseteq Rules
  BY InspectIs DEF FoundIn, Rules, HighRules
<1>3. Drops(c, fs) \in BOOLEAN /\ Clean(c) \in BOOLEAN
  BY DropsIs
<1>4. dropped' \in BOOLEAN /\ (dropped' <=> dropped \/ Drops(c, fs))
  BY <1>1, <1>3 DEF TypeOK
<1>5. Drops(c, fs) => IsHigh(findings') \/ declaredTools = {}
  BY <1>1, DropsIs
<1>6. FateOf(c, fs) \in {"sent", "dropped"} /\ c.serial \in Nat /\ LedgerTyped(ledger)
  BY DEF FateOf, CallLike, TypeOK
<1>7. Entered(c.serial, Clean(c), FateOf(c, fs))
  BY <1>1, <1>3, <1>6, EnterEnters
<1>8. Replay(c, fs) \in Seq(OutFrame)
  <2>1. c.raw \in Seq(CallFrame) /\ CallFrame \subseteq OutFrame
    BY DEF CallLike, OutFrame
  <2>2. c.raw \in Seq(OutFrame)
    BY <2>1
  <2>3. <<BlockedEvent>> \in Seq(OutFrame)
    BY BlockedIs
  <2> QED BY <2>2, <2>3 DEF Replay
<1>9. \E k \in Nat : Adds(Replay(c, fs), k)
  BY <1>1, <1>8, EmitAdds DEF TypeOK
<1> QED BY <1>1, <1>2, <1>4, <1>5, <1>7, <1>8, <1>9 DEF Finalized

-----------------------------------------------------------------------------
(* What a step reads *)

\* The items of an orderly upstream after a frame about a call.
ItemAfter(e, f) ==
  [e EXCEPT !.args  = IF f.kind = "args_delta" THEN e.args \o f.args ELSE f.args,
            !.stage = CASE f.kind = "args_done" -> "filled"
                        [] f.kind = "item_done" -> "done"
                        [] OTHER -> e.stage]

Changes(items, f, new) ==
  /\ DOMAIN new = DOMAIN items
  /\ \A i \in DOMAIN items :
       IF items[i].key # f.key THEN new[i] = items[i]
       ELSE /\ new[i].key = items[i].key /\ new[i].name = items[i].name
            /\ f.kind = "args_delta" =>
                 new[i].args = items[i].args \o f.args /\ new[i].stage = items[i].stage
            /\ f.kind = "args_done" => new[i].args = f.args /\ new[i].stage = "filled"
            /\ f.kind = "item_done" => new[i].args = f.args /\ new[i].stage = "done"

Extends(items, f, new) ==
  /\ Len(new) = Len(items) + 1
  /\ \A i \in DOMAIN items : new[i] = items[i]
  /\ new[Len(items) + 1].key = f.key /\ new[Len(items) + 1].name = f.name
  /\ new[Len(items) + 1].args = <<>> /\ new[Len(items) + 1].stage = "open"

LEMMA AddedItem ==
  ASSUME upstream \in Upstreams, NEW f \in CallFrame, f.kind = "added"
  PROVE  ItemsAfter(f) \in Seq(StreamItem) /\ Extends(upstream.items, f, ItemsAfter(f))
<1>1. PICK items : items = upstream.items
  OBVIOUS
<1>2. items \in Seq(StreamItem)
  BY <1>1 DEF Upstreams
<1>3. PICK e : e = [key |-> f.key, name |-> f.name, args |-> <<>>, stage |-> "open"]
  OBVIOUS
<1>4. /\ e.key = f.key /\ e.name = f.name /\ e.args = <<>> /\ e.stage = "open"
      /\ e \in StreamItem
  <2>1. PICK g : g = <<>>
    OBVIOUS
  <2>2. g \in Seq(Frag) /\ e = [key |-> f.key, name |-> f.name, args |-> g, stage |-> "open"]
    BY <1>3, <2>1
  <2> QED BY <2>1, <2>2, CallFrameIs DEF StreamItem
<1>5. ItemsAfter(f) = Append(items, e)
  BY <1>1, <1>3 DEF ItemsAfter
<1>6. PICK new : new = Append(items, e)
  OBVIOUS
<1>7. new \in Seq(StreamItem) /\ Extends(items, f, new)
  BY <1>2, <1>4, <1>6 DEF Extends
<1> QED BY <1>1, <1>5, <1>6, <1>7

LEMMA ChangedItem ==
  ASSUME upstream \in Upstreams, NEW f \in CallFrame, f.kind # "added"
  PROVE  ItemsAfter(f) \in Seq(StreamItem) /\ Changes(upstream.items, f, ItemsAfter(f))
<1>1. PICK items : items = upstream.items
  OBVIOUS
<1>2. items \in Seq(StreamItem)
  BY <1>1 DEF Upstreams
<1>3. f.kind \in {"args_delta", "args_done", "item_done"} /\ f.args \in Seq(Frag)
  BY CallFrameIs
<1>4. PICK new : new = ItemsAfter(f)
  OBVIOUS
<1>5. new = [i \in DOMAIN items |->
               IF items[i].key # f.key THEN items[i] ELSE ItemAfter(items[i], f)]
  BY <1>1, <1>3, <1>4 DEF ItemsAfter, ItemAfter
<1>6. ASSUME NEW i \in DOMAIN items
      PROVE  /\ ItemAfter(items[i], f) \in StreamItem
             /\ ItemAfter(items[i], f).key = items[i].key
             /\ ItemAfter(items[i], f).name = items[i].name
             /\ f.kind = "args_delta" =>
                  /\ ItemAfter(items[i], f).args = items[i].args \o f.args
                  /\ ItemAfter(items[i], f).stage = items[i].stage
             /\ f.kind = "args_done" =>
                  /\ ItemAfter(items[i], f).args = f.args
                  /\ ItemAfter(items[i], f).stage = "filled"
             /\ f.kind = "item_done" =>
                  /\ ItemAfter(items[i], f).args = f.args
                  /\ ItemAfter(items[i], f).stage = "done"
  <2>1. PICK e : e = items[i]
    OBVIOUS
  <2>2. e \in StreamItem
    BY <1>2, <2>1
  <2>3. PICK a : a = IF f.kind = "args_delta" THEN e.args \o f.args ELSE f.args
    OBVIOUS
  <2>4. PICK t : t = CASE f.kind = "args_done" -> "filled"
                       [] f.kind = "item_done" -> "done"
                       [] OTHER -> e.stage
    OBVIOUS
  <2>5. e.args \o f.args \in Seq(Frag)
    BY <1>3, <2>2, Joined DEF StreamItem
  <2>6. a \in Seq(Frag)
    BY <1>3, <2>3, <2>5
  <2>7. /\ f.kind = "args_delta" => t = e.stage
        /\ f.kind = "args_done" => t = "filled"
        /\ f.kind = "item_done" => t = "done"
    BY <2>4
  <2>8. t \in {"open", "filled", "done"}
    BY <1>3, <2>2, <2>7 DEF StreamItem
  <2>9. PICK g : g = ItemAfter(e, f)
    OBVIOUS
  <2>10. g = [e EXCEPT !.args = a, !.stage = t]
    BY <2>3, <2>4, <2>9 DEF ItemAfter
  <2>11. g \in StreamItem /\ g.key = e.key /\ g.name = e.name /\ g.args = a /\ g.stage = t
    BY <2>2, <2>6, <2>8, <2>10 DEF StreamItem
  <2> QED BY <2>1, <2>3, <2>7, <2>9, <2>11
<1>7. DOMAIN new = DOMAIN items /\ Len(items) \in Nat /\ DOMAIN items = 1..Len(items)
  BY <1>2, <1>5
<1>8. ASSUME NEW i \in DOMAIN items PROVE new[i] \in StreamItem
  <2>1. items[i] \in StreamItem
    BY <1>2
  <2>2. new[i] = IF items[i].key # f.key THEN items[i] ELSE ItemAfter(items[i], f)
    BY <1>5
  <2>3. ItemAfter(items[i], f) \in StreamItem
    BY <1>6
  <2> QED BY <2>1, <2>2, <2>3
<1>9. new \in Seq(StreamItem)
  <2>1. new \in [1..Len(items) -> StreamItem]
    BY <1>5, <1>7, <1>8
  <2> QED BY <1>7, <2>1
<1>10. Changes(items, f, new)
  BY <1>5, <1>6, <1>7 DEF Changes
<1> QED BY <1>1, <1>4, <1>9, <1>10

LEMMA ReceiveIs ==
  ASSUME TypeOK, NEW f, Receive(f), f \in CallFrame \/ f.kind \notin {"added", "args_delta",
         "args_done", "item_done"}
  PROVE  /\ phase = "reading"
         /\ upstream' \in Upstreams /\ upstream'.orderly = upstream.orderly
         /\ upstream.orderly =>
              /\ ~upstream.final /\ (f \in CallFrame => ConformingCall(f))
              /\ upstream'.items = ItemsAfter(f)
              /\ upstream'.final <=> (f.kind = "completed")
<1>1. PICK u : u = upstream
  OBVIOUS
<1>2. PICK v : v = upstream'
  OBVIOUS
<1>3. u \in Upstreams
  BY <1>1 DEF TypeOK
<1>4. phase = "reading"
  BY DEF Receive, MaySend
<1>5. CASE ~u.orderly
  <2>1. v = [u EXCEPT !.sent = u.sent + 1]
    BY <1>1, <1>2, <1>5 DEF Receive
  <2>2. v \in Upstreams /\ v.orderly = u.orderly
    BY <1>3, <2>1 DEF Upstreams
  <2> QED BY <1>1, <1>2, <1>4, <1>5, <2>2
<1>6. CASE u.orderly
  <2>1. ItemsAfter(f) \in Seq(StreamItem)
    <3>1. CASE f \in CallFrame
      BY <1>1, <1>3, <3>1, AddedItem, ChangedItem
    <3>2. CASE f.kind \notin {"added", "args_delta", "args_done", "item_done"}
      BY <1>1, <1>3, <3>2 DEF ItemsAfter, Upstreams
    <3> QED BY <3>1, <3>2
  <2>2. ~u.final /\ (f \in CallFrame => ConformingCall(f))
    BY <1>1, <1>6 DEF Receive, MaySend
  <2>3. PICK items : items = ItemsAfter(f)
    OBVIOUS
  <2>4. PICK b : b = (u.final \/ f.kind = "completed")
    OBVIOUS
  <2>5. b \in BOOLEAN
    BY <2>4
  <2>6. v = [u EXCEPT !.items = items, !.final = b, !.sent = u.sent + 1]
    BY <1>1, <1>2, <1>6, <2>3, <2>4 DEF Receive
  <2>7. /\ v \in Upstreams /\ v.orderly = u.orderly /\ v.items = items
        /\ v.final = b
    <3>1. items \in Seq(StreamItem)
      BY <2>1, <2>3
    <3>2. u.sent + 1 \in Nat /\ u.orderly \in BOOLEAN
      BY <1>3 DEF Upstreams
    <3> QED BY <1>3, <2>5, <2>6, <3>1, <3>2 DEF Upstreams
  <2> QED BY <1>1, <1>2, <1>4, <2>2, <2>3, <2>4, <2>7
<1> QED BY <1>3, <1>5, <1>6 DEF Upstreams

-----------------------------------------------------------------------------
(* What becomes of the calls *)

Holds(k, c, cs) ==
  /\ DOMAIN cs = DOMAIN calls \cup {k} /\ cs[k] = c
  /\ \A j \in DOMAIN calls \ {k} : cs[j] = calls[j]

Removes(k, cs) ==
  /\ DOMAIN cs = DOMAIN calls \ {k}
  /\ \A j \in DOMAIN calls \ {k} : cs[j] = calls[j]

LEMMA WithHolds ==
  ASSUME NEW k, NEW c
  PROVE  Holds(k, c, With(k, c))
BY DEF Holds, With

LEMMA WithoutRemoves ==
  ASSUME NEW k
  PROVE  Removes(k, Without(k))
BY DEF Removes, Without

LEMMA NewCallIs ==
  ASSUME opened \in Nat, NEW m \in Name
  PROVE  /\ NewCall(m) \in HeldCall /\ NewCall(m).name = m /\ NewCall(m).args = <<>>
         /\ NewCall(m).serial = opened /\ NewCall(m).oversized = FALSE
         /\ NewCall(m).gotDelta = FALSE
<1>1. PICK g : g = <<>>
  OBVIOUS
<1>2. g \in Seq(Frag) /\ g \in Seq(HeldFrame) /\ 0 \in 0..MaxToolCallBytes
  BY <1>1, SizeAssumption
<1>3. PICK c : c = NewCall(m)
  OBVIOUS
<1>4. c = [name |-> m, args |-> g, raw |-> g, bytes |-> 0, gotDelta |-> FALSE,
           oversized |-> FALSE, serial |-> opened]
  BY <1>1, <1>3 DEF NewCall
<1>5. c \in HeldCall
  BY <1>2, <1>4 DEF HeldCall
<1>6. /\ c.name = m /\ c.args = g /\ c.serial = opened /\ c.oversized = FALSE
      /\ c.gotDelta = FALSE
  BY <1>4
<1> QED BY <1>1, <1>3, <1>5, <1>6

LEMMA CallAtIs ==
  ASSUME TypeOK, NEW k \in Key, NEW m \in Name
  PROVE  /\ CallAt(k, m) \in HeldCall
         /\ Pending(k) => CallAt(k, m) = calls[k]
         /\ ~Pending(k) => /\ CallAt(k, m).name = m /\ CallAt(k, m).args = <<>>
                           /\ CallAt(k, m).serial = opened
                           /\ CallAt(k, m).oversized = FALSE
                           /\ CallAt(k, m).gotDelta = FALSE
<1>1. CASE Pending(k)
  BY <1>1 DEF CallAt, Pending, TypeOK, CallsTyped
<1>2. CASE ~Pending(k)
  <2>1. CallAt(k, m) = NewCall(m)
    BY <1>2 DEF CallAt
  <2> QED BY <1>2, <2>1, NewCallIs DEF TypeOK
<1> QED BY <1>1, <1>2

LEMMA AddCallIs ==
  ASSUME TypeOK, NEW f \in CallFrame, NEW n \in Sizes, AddCall(f, n)
  PROVE  \E c \in HeldCall : Keeps(NewCall(f.name), f, f.args, c) /\ Holds(f.key, c, calls')
<1>1. f.kind = "added" /\ f.name \in Name /\ f.args \in Seq(Frag)
  BY CallFrameIs DEF AddCall
<1>2. NewCall(f.name) \in HeldCall
  BY <1>1, NewCallIs DEF TypeOK
<1>3. PICK c : c = Buffered(NewCall(f.name), f, f.args, n)
  OBVIOUS
<1>4. Keeps(NewCall(f.name), f, f.args, c)
  BY <1>1, <1>2, <1>3, BufferedKeeps
<1>5. c \in HeldCall
  BY <1>1, <1>4 DEF Keeps
<1>6. calls' = With(f.key, c)
  BY <1>3 DEF AddCall
<1>7. Holds(f.key, c, calls')
  BY <1>6, WithHolds
<1> QED BY <1>4, <1>5, <1>7

\* A frame with arguments, or with all of them.
TakesArgs(b, f, c) ==
  /\ c \in HeldCall
  /\ c.name = b.name /\ c.serial = b.serial
  /\ b.oversized => c.oversized
  /\ c.gotDelta <=> b.gotDelta \/ f.kind = "args_delta"
  /\ ~c.oversized /\ (f.kind = "args_delta" \/ ~b.gotDelta) => c.args = b.args \o f.args
  /\ ~c.oversized /\ f.kind # "args_delta" /\ b.gotDelta => c.args = b.args
  /\ Signature(b.args) => Signature(c.args)

LEMMA HoldArgsIs ==
  ASSUME TypeOK, NEW f \in CallFrame, NEW n \in Sizes, HoldArgs(f, n)
  PROVE  \E c : TakesArgs(CallAt(f.key, NoName), f, c) /\ Holds(f.key, c, calls')
<1>1. f.kind \in {"args_delta", "args_done"} /\ f.args \in Seq(Frag) /\ f.key \in Key
  BY CallFrameIs DEF HoldArgs
<1>2. PICK b : b = CallAt(f.key, NoName)
  OBVIOUS
<1>3. b \in HeldCall
  BY <1>1, <1>2, CallAtIs DEF Name
<1>4. PICK delta : delta = (f.kind = "args_delta")
  OBVIOUS
<1>5. PICK a : a = IF delta \/ ~b.gotDelta THEN f.args ELSE <<>>
  OBVIOUS
<1>6. PICK d : d = [b EXCEPT !.gotDelta = b.gotDelta \/ delta]
  OBVIOUS
<1>7. PICK c : c = Buffered(d, f, a, n)
  OBVIOUS
<1>8. calls' = With(f.key, c)
  BY <1>2, <1>4, <1>5, <1>6, <1>7, Zenon DEF HoldArgs
<1>9. a \in Seq(Frag)
  BY <1>1, <1>5
<1>10. delta \in BOOLEAN /\ b.gotDelta \in BOOLEAN
  BY <1>3, <1>4 DEF HeldCall
<1>11. /\ d \in HeldCall /\ d.name = b.name /\ d.serial = b.serial /\ d.args = b.args
       /\ d.oversized = b.oversized /\ d.gotDelta = (b.gotDelta \/ delta)
  <2>1. PICK e : e = (b.gotDelta \/ delta)
    OBVIOUS
  <2>2. e \in BOOLEAN
    BY <2>1
  <2>3. d = [b EXCEPT !.gotDelta = e]
    BY <1>6, <2>1
  <2>4. /\ d \in HeldCall /\ d.name = b.name /\ d.serial = b.serial /\ d.args = b.args
        /\ d.oversized = b.oversized /\ d.gotDelta = e
    BY <1>3, <2>2, <2>3 DEF HeldCall
  <2> QED BY <2>1, <2>4
<1>12. Keeps(d, f, a, c)
  BY <1>7, <1>9, <1>11, BufferedKeeps
<1>13. c \in HeldCall
  BY <1>1, <1>12 DEF Keeps
<1>14. b.args \o <<>> = b.args
  BY <1>3, Joined DEF HeldCall
<1>15. /\ c.name = b.name /\ c.serial = b.serial /\ (b.oversized => c.oversized)
       /\ c.gotDelta = (b.gotDelta \/ delta)
       /\ ~c.oversized => c.args = b.args \o a
       /\ Signature(b.args) => Signature(c.args)
  BY <1>11, <1>12 DEF Keeps
<1>16. TakesArgs(b, f, c)
  BY <1>4, <1>5, <1>13, <1>14, <1>15 DEF TakesArgs
<1>17. Holds(f.key, c, calls')
  BY <1>8, WithHolds
<1> QED BY <1>2, <1>16, <1>17

\* The frame that ends a call.
Closes(b, f, c) ==
  /\ CallLike(c) /\ c.serial = b.serial
  /\ c.name = IF f.name = NoName THEN b.name ELSE f.name
  /\ b.oversized => c.oversized
  /\ ~c.oversized /\ ~b.gotDelta => c.args = b.args \o f.args
  /\ ~c.oversized /\ b.gotDelta => c.args = b.args
  /\ Signature(b.args) => Signature(c.args)
  /\ \A q \in DOMAIN c.raw : c.raw[q] \in HeldFrame \/ c.raw[q] = f

ClosedWith(f, c, fs) ==
  /\ Closes(CallAt(f.key, f.name), f, c)
  /\ fs \subseteq Rules /\ findings \subseteq fs
  /\ Declared(c.name) \/ IsHigh(fs)
  /\ Removes(f.key, calls')
  /\ Finalized(c, fs)
  /\ phase' = IF Returned(c, fs) THEN "closing" ELSE "reading"

LEMMA CloseItemIs ==
  ASSUME TypeOK, Named(calls, findings), NEW f \in CallFrame, NEW n \in Sizes, CloseItem(f, n)
  PROVE  \E c, fs : ClosedWith(f, c, fs)
<1>1. f.kind = "item_done" /\ f.args \in Seq(Frag) /\ f.key \in Key /\ f.name \in Name
  BY CallFrameIs DEF CloseItem
<1>2. PICK b : b = CallAt(f.key, f.name)
  OBVIOUS
<1>3. b \in HeldCall
  BY <1>1, <1>2, CallAtIs
<1>4. PICK renamed : renamed = (f.name # NoName /\ b.name # f.name)
  OBVIOUS
<1>5. PICK a : a = IF b.gotDelta THEN <<>> ELSE f.args
  OBVIOUS
<1>6. PICK m : m = IF renamed THEN f.name ELSE b.name
  OBVIOUS
<1>7. PICK d : d = [b EXCEPT !.name = m]
  OBVIOUS
<1>8. PICK c : c = Buffered(d, f, a, n)
  OBVIOUS
<1>9. PICK fs : fs = findings \cup IF renamed \/ ~Pending(f.key)
                                   THEN CheckToolCall(f.name) ELSE {}
  OBVIOUS
<1>10. /\ FinalizeCall(c, fs)
       /\ phase' = IF Returned(c, fs) THEN "closing" ELSE "reading"
       /\ calls' = Without(f.key)
  BY <1>2, <1>4, <1>5, <1>6, <1>7, <1>8, <1>9, Zenon DEF CloseItem
<1>11. m \in Name /\ m = IF f.name = NoName THEN b.name ELSE f.name
  BY <1>1, <1>3, <1>4, <1>6 DEF HeldCall
<1>12. a \in Seq(Frag)
  BY <1>1, <1>5
<1>13. /\ d \in HeldCall /\ d.name = m /\ d.serial = b.serial /\ d.args = b.args
       /\ d.oversized = b.oversized
  BY <1>3, <1>7, <1>11 DEF HeldCall
<1>14. Keeps(d, f, a, c)
  BY <1>8, <1>12, <1>13, BufferedKeeps
<1>15. b.args \o <<>> = b.args
  BY <1>3, Joined DEF HeldCall
<1>16. Closes(b, f, c)
  BY <1>5, <1>11, <1>13, <1>14, <1>15 DEF Closes, Keeps
<1>17. fs \subseteq Rules /\ findings \subseteq fs
  BY <1>9, CheckIs DEF TypeOK
<1>18. Declared(c.name) \/ IsHigh(fs)
  <2>1. c.name = m
    BY <1>11, <1>16 DEF Closes
  <2>2. CASE Pending(f.key) /\ ~renamed
    <3>1. m = calls[f.key].name /\ f.key \in DOMAIN calls
      BY <1>1, <1>2, <1>6, <2>2, CallAtIs DEF Pending
    <3>2. Declared(m) \/ IsHigh(findings)
      BY <3>1 DEF Named
    <3> QED BY <1>9, <2>1, <3>2, HighJoin
  <2>3. CASE ~Pending(f.key) \/ renamed
    <3>1. m = f.name
      BY <1>1, <1>2, <1>6, <2>3, CallAtIs
    <3>2. IsHigh(CheckToolCall(m)) \/ Declared(m)
      BY CheckIs
    <3> QED BY <1>9, <2>1, <2>3, <3>1, <3>2, HighJoin
  <2> QED BY <2>2, <2>3
<1>19. CallLike(c)
  BY <1>16 DEF Closes
<1>20. Finalized(c, fs)
  BY <1>10, <1>17, <1>18, <1>19, FinalizeCallIs
<1>21. Removes(f.key, calls')
  BY <1>10, WithoutRemoves
<1>22. ClosedWith(f, c, fs)
  BY <1>2, <1>10, <1>16, <1>17, <1>18, <1>20, <1>21 DEF ClosedWith
<1> QED BY <1>22

-----------------------------------------------------------------------------
(* The final frame, and the calls that are left out *)

LEMMA FinalFrameIs ==
  ASSUME TypeOK, NEW f \in FinalFrames
  PROVE  /\ f \in FinalFrame /\ f.kind = "completed"
         /\ upstream.items # <<>> =>
              /\ Reports(f.items, upstream.items)
              /\ \A i \in DOMAIN upstream.items : upstream.items[i].stage # "open"
<1>1. PICK items : items = upstream.items
  OBVIOUS
<1>2. items \in Seq(StreamItem)
  BY <1>1 DEF TypeOK, Upstreams
<1>3. CASE items = <<>>
  <2>1. PICK s \in Finals : f = Completed(s)
    BY <1>1, <1>3 DEF FinalFrames
  <2>2. s \in Seq(ListItem)
    BY ContentAssumption DEF ListItem
  <2>3. f \in FinalFrame
    BY <2>1, <2>2, CompletedIs
  <2> QED BY <1>1, <1>3, <2>3 DEF FinalFrame
<1>4. CASE items # <<>>
  <2>1. \A i \in DOMAIN items : items[i].stage # "open"
    BY <1>1, <1>4 DEF FinalFrames
  <2>2. PICK ids \in {{}, Id} :
          f = Completed([i \in DOMAIN items |->
                LET e == items[i] IN
                Item(IF e.key \in ids THEN e.key ELSE NoId, e.name, e.args)])
    BY <1>1, <1>4, <2>1, Zenon DEF FinalFrames
  <2>3. PICK s : s = [i \in DOMAIN items |->
                LET e == items[i] IN
                Item(IF e.key \in ids THEN e.key ELSE NoId, e.name, e.args)]
    OBVIOUS
  <2>4. ASSUME NEW i \in DOMAIN items
        PROVE  /\ s[i] \in ListItem /\ s[i].id \in {items[i].key, NoId}
               /\ s[i].name = items[i].name /\ s[i].args = items[i].args
    <3>1. PICK e : e = items[i]
      OBVIOUS
    <3>2. e \in StreamItem
      BY <1>2, <3>1
    <3>3. PICK j : j = IF e.key \in ids THEN e.key ELSE NoId
      OBVIOUS
    <3>4. s[i] = Item(j, e.name, e.args)
      BY <2>3, <3>1, <3>3
    <3>5. j \in Id \cup {NoId} /\ j \in {e.key, NoId}
      BY <3>3
    <3>6. s[i] = [id |-> j, name |-> e.name, args |-> e.args]
      BY <3>4 DEF Item
    <3>7. s[i] \in ListItem /\ s[i].id = j /\ s[i].name = e.name /\ s[i].args = e.args
      BY <3>2, <3>5, <3>6 DEF ListItem, StreamItem
    <3> QED BY <3>1, <3>5, <3>7
  <2>5. DOMAIN s = DOMAIN items /\ Len(items) \in Nat /\ DOMAIN items = 1..Len(items)
    BY <1>2, <2>3
  <2>6. s \in Seq(ListItem) /\ Len(s) = Len(items)
    <3>1. s \in [1..Len(items) -> ListItem]
      BY <2>3, <2>4, <2>5
    <3> QED BY <2>5, <3>1
  <2>7. f = Completed(s)
    BY <2>2, <2>3
  <2>8. f \in FinalFrame /\ f.items = s
    BY <2>6, <2>7, CompletedIs
  <2>9. Reports(s, items)
    BY <2>4, <2>6 DEF Reports
  <2> QED BY <1>1, <2>1, <2>8, <2>9 DEF FinalFrame
<1> QED BY <1>3, <1>4

Left(s, l) ==
  /\ DOMAIN l = DOMAIN ledger \cup {calls[k].serial : k \in DOMAIN calls}
  /\ \A n \in DOMAIN ledger : l[n] = ledger[n]
  /\ \A k \in DOMAIN calls : calls[k].serial \notin DOMAIN ledger =>
       /\ l[calls[k].serial].fate = "dropped"
       /\ l[calls[k].serial].clean <=>
            s /\ \A j \in DOMAIN calls : calls[j].serial = calls[k].serial => Clean(calls[j])
  /\ LedgerTyped(l)

LEMMA LeaveLeft ==
  ASSUME TypeOK, NEW s \in BOOLEAN
  PROVE  Left(s, Leave(s))
<1>1. PICK left : left = {calls[k] : k \in DOMAIN calls}
  OBVIOUS
<1>2. PICK l : l = Leave(s)
  OBVIOUS
<1> DEFINE cl(n) == s /\ \A c \in left : c.serial = n => Clean(c)
<1>3. l = [n \in DOMAIN ledger \cup {c.serial : c \in left} |->
             IF n \in DOMAIN ledger THEN ledger[n]
             ELSE [clean |-> cl(n), fate |-> "dropped"]]
  BY <1>1, <1>2 DEF Leave
<1>4. {c.serial : c \in left} = {calls[k].serial : k \in DOMAIN calls}
  BY <1>1
<1>5. \A n : cl(n) \in BOOLEAN
  OBVIOUS
<1>6. \A n : cl(n) <=> s /\ \A j \in DOMAIN calls : calls[j].serial = n => Clean(calls[j])
  BY <1>1
<1> HIDE DEF cl
<1>7. DOMAIN l = DOMAIN ledger \cup {calls[k].serial : k \in DOMAIN calls}
  BY <1>3, <1>4
<1>8. \A n \in DOMAIN ledger : l[n] = ledger[n]
  BY <1>3
<1>9. ASSUME NEW n \in DOMAIN l, n \notin DOMAIN ledger
      PROVE  l[n] \in Resolved /\ l[n].fate = "dropped" /\ l[n].clean = cl(n)
  <2>1. l[n] = [clean |-> cl(n), fate |-> "dropped"]
    BY <1>3, <1>4, <1>7, <1>9
  <2> QED BY <1>5, <2>1 DEF Resolved
<1>10. LedgerTyped(l)
  <2>1. \A k \in DOMAIN calls : calls[k].serial \in Nat
    BY DEF TypeOK, CallsTyped, HeldCall
  <2>2. DOMAIN l \subseteq Nat
    BY <1>7, <2>1 DEF TypeOK, LedgerTyped
  <2>3. \A n \in DOMAIN l : l[n] \in Resolved
    BY <1>8, <1>9 DEF TypeOK, LedgerTyped
  <2> QED BY <2>2, <2>3 DEF LedgerTyped
<1>11. ASSUME NEW k \in DOMAIN calls, calls[k].serial \notin DOMAIN ledger
       PROVE  /\ l[calls[k].serial].fate = "dropped"
              /\ l[calls[k].serial].clean <=>
                   s /\ \A j \in DOMAIN calls :
                          calls[j].serial = calls[k].serial => Clean(calls[j])
  BY <1>6, <1>7, <1>9, <1>11
<1>12. Left(s, l)
  BY <1>7, <1>8, <1>10, <1>11 DEF Left
<1> QED BY <1>2, <1>12

\* A call that is resolved with what was found so far.
ResolvedNow(k) ==
  /\ k \in DOMAIN calls /\ CallLike(calls[k])
  /\ \A q \in DOMAIN calls[k].raw : calls[k].raw[q] \in HeldFrame
  /\ Declared(calls[k].name) \/ IsHigh(findings)
  /\ Removes(k, calls') /\ Finalized(calls[k], findings)

LEMMA ResolvedIs ==
  ASSUME TypeOK, Named(calls, findings), NEW k \in DOMAIN calls, calls' = Without(k),
         FinalizeCall(calls[k], findings)
  PROVE  ResolvedNow(k)
<1>1. calls[k] \in HeldCall /\ findings \in SUBSET Rules
  BY DEF TypeOK, CallsTyped
<1>2. CallLike(calls[k]) /\ \A q \in DOMAIN calls[k].raw : calls[k].raw[q] \in HeldFrame
  BY <1>1, HeldIs
<1>3. Declared(calls[k].name) \/ IsHigh(findings)
  BY DEF Named
<1>4. Finalized(calls[k], findings)
  BY <1>1, <1>2, <1>3, FinalizeCallIs
<1>5. Removes(k, calls')
  BY WithoutRemoves
<1> QED BY <1>2, <1>3, <1>4, <1>5 DEF ResolvedNow

LEMMA ResolveListedIs ==
  ASSUME TypeOK, Named(calls, findings), ResolveListed
  PROVE  /\ ResolvedNow(Match) /\ Match \in {NextItem.id, final.next - 1}
         /\ Match \in Matches
<1>1. Matches # {} /\ Matches \subseteq {NextItem.id, final.next - 1}
  BY DEF ResolveListed, Matches
<1>2. Match \in Matches
  BY <1>1 DEF Match
<1>3. Match \in DOMAIN calls
  BY <1>2 DEF Matches, Pending
<1>4. calls' = Without(Match) /\ FinalizeCall(calls[Match], findings)
  BY DEF ResolveListed
<1> QED BY <1>1, <1>2, <1>3, <1>4, ResolvedIs

LEMMA ResolveOpenIs ==
  ASSUME TypeOK, Named(calls, findings), ResolveOpen
  PROVE  \E k : ResolvedNow(k) /\ stopped' = Returned(calls[k], findings)
<1>1. PICK k \in DOMAIN calls : /\ calls' = Without(k)
                                /\ FinalizeCall(calls[k], findings)
                                /\ stopped' = Returned(calls[k], findings)
  BY DEF ResolveOpen
<1>2. ResolvedNow(k)
  BY <1>1, ResolvedIs
<1> QED BY <1>1, <1>2

-----------------------------------------------------------------------------
(* Types, serial numbers, names and memories are kept *)

LEMMA AddsTyped ==
  ASSUME TypeOK, NEW frames \in Seq(OutFrame), NEW k, Adds(frames, k)
  PROVE  out' \in Seq(OutFrame) /\ failed' \in BOOLEAN /\ (failed => failed')
BY DEF Adds, TypeOK

LEMMA EmitOne ==
  ASSUME TypeOK, NEW f \in OutFrame, Emit(<<f>>)
  PROVE  /\ <<f>> \in Seq(OutFrame) /\ \E k \in Nat : Adds(<<f>>, k)
         /\ out' \in Seq(OutFrame) /\ failed' \in BOOLEAN /\ (failed => failed')
<1>1. <<f>> \in Seq(OutFrame)
  OBVIOUS
<1>2. \E k \in Nat : Adds(<<f>>, k)
  BY <1>1, EmitAdds DEF TypeOK
<1> QED BY <1>1, <1>2, AddsTyped

LEMMA CallsHold ==
  ASSUME CallsTyped(calls), NEW k \in Key, NEW c \in HeldCall, NEW cs, Holds(k, c, cs)
  PROVE  CallsTyped(cs)
BY DEF CallsTyped, Holds

LEMMA CallsRemoved ==
  ASSUME CallsTyped(calls), NEW k, NEW cs, Removes(k, cs)
  PROVE  CallsTyped(cs)
BY DEF CallsTyped, Removes

LEMMA NamesHold ==
  ASSUME Named(calls, findings), NEW fs, findings \subseteq fs,
         NEW k, NEW c, NEW cs, Holds(k, c, cs), Declared(c.name) \/ IsHigh(fs)
  PROVE  Named(cs, fs)
BY DEF Named, Holds, IsHigh

LEMMA NamesRemoved ==
  ASSUME Named(calls, findings), NEW fs, findings \subseteq fs, NEW k, NEW cs, Removes(k, cs)
  PROVE  Named(cs, fs)
BY DEF Named, Removes, IsHigh

LEMMA SerialsHold ==
  ASSUME TypeOK, Serials(calls, opened, ledger), NEW k, NEW c, NEW cs, Holds(k, c, cs),
         NEW n, \/ Pending(k) /\ c.serial = calls[k].serial /\ n = opened
                \/ c.serial = opened /\ n = opened + 1
  PROVE  Serials(cs, n, ledger)
<1>1. /\ opened \in Nat /\ n \in Nat /\ opened <= n
      /\ DOMAIN ledger \subseteq Nat /\ \A j \in DOMAIN calls : calls[j].serial \in Nat
  BY DEF TypeOK, CallsTyped, HeldCall, LedgerTyped
<1>2. ASSUME NEW j \in DOMAIN cs PROVE cs[j].serial < n /\ cs[j].serial \notin DOMAIN ledger
  <2>1. CASE j = k
    BY <1>1, <2>1 DEF Serials, Holds, Pending
  <2>2. CASE j # k
    BY <1>1, <1>2, <2>2 DEF Serials, Holds
  <2> QED BY <2>1, <2>2
<1>3. ASSUME NEW i \in DOMAIN cs, NEW j \in DOMAIN cs, cs[i].serial = cs[j].serial
      PROVE  i = j
  <2>1. CASE i = k
    BY <1>1, <1>3, <2>1 DEF Serials, Holds, Pending
  <2>2. CASE j = k
    BY <1>1, <1>3, <2>2 DEF Serials, Holds, Pending
  <2>3. CASE i # k /\ j # k
    BY <1>3, <2>3 DEF Serials, Holds
  <2> QED BY <2>1, <2>2, <2>3
<1>4. \A s \in DOMAIN ledger : s < n
  BY <1>1 DEF Serials
<1> QED BY <1>2, <1>3, <1>4 DEF Serials

\* The serial number of a resolved call goes over to the history.
LEMMA SerialsSettled ==
  ASSUME TypeOK, Serials(calls, opened, ledger), NEW k, NEW cs, Removes(k, cs),
         NEW s, NEW l, DOMAIN l = DOMAIN ledger \cup {s},
         NEW n, \/ Pending(k) /\ s = calls[k].serial /\ n = opened
                \/ ~Pending(k) /\ s = opened /\ n = opened + 1
  PROVE  Serials(cs, n, l)
<1>1. /\ opened \in Nat /\ n \in Nat /\ opened <= n
      /\ DOMAIN ledger \subseteq Nat /\ \A j \in DOMAIN calls : calls[j].serial \in Nat
  BY DEF TypeOK, CallsTyped, HeldCall, LedgerTyped
<1>2. \A j \in DOMAIN cs : j \in DOMAIN calls /\ j # k /\ cs[j] = calls[j]
  BY DEF Removes
<1>3. s < n
  BY <1>1 DEF Serials, Pending
<1>4. ASSUME NEW j \in DOMAIN cs PROVE cs[j].serial < n /\ cs[j].serial \notin DOMAIN l
  <2>1. cs[j].serial < opened /\ cs[j].serial \notin DOMAIN ledger
    BY <1>2 DEF Serials
  <2>2. cs[j].serial # s
    BY <1>1, <1>2 DEF Serials, Pending
  <2> QED BY <1>1, <1>2, <2>1, <2>2
<1>5. \A i, j \in DOMAIN cs : cs[i].serial = cs[j].serial => i = j
  BY <1>2 DEF Serials
<1>6. \A t \in DOMAIN l : t < n
  BY <1>1, <1>3 DEF Serials
<1> QED BY <1>4, <1>5, <1>6 DEF Serials

LEMMA SerialsLeft ==
  ASSUME TypeOK, Serials(calls, opened, ledger), NEW s, NEW l, Left(s, l)
  PROVE  Serials(<<>>, opened, l)
<1>1. PICK cs : cs = <<>>
  OBVIOUS
<1>2. DOMAIN cs = {}
  BY <1>1
<1>3. \A t \in DOMAIN l : t < opened
  BY DEF Serials, Left
<1>4. Serials(cs, opened, l)
  BY <1>2, <1>3 DEF Serials
<1> QED BY <1>1, <1>4

\* How the history remembers a drop.
LEMMA EnteredDrop ==
  ASSUME NEW s, NEW clean, NEW fate, Entered(s, clean, fate), IsDropped(ledger')
  PROVE  IsDropped(ledger) \/ fate = "dropped"
BY DEF Entered, IsDropped

Basic ==
  TypeOK /\ Serials(calls, opened, ledger) /\ Named(calls, findings) /\ Remembered

\* What no step takes back.
Onward ==
  /\ declaredTools' = declaredTools /\ findings \subseteq findings'
  /\ failed => failed'
  /\ blocked => blocked'
  /\ dropped => dropped'
  /\ upstream'.orderly = upstream.orderly
  /\ phase # "done"

LEMMA NamedNow ==
  ASSUME Named(calls', findings'), declaredTools' = declaredTools
  PROVE  Named(calls, findings)'
BY DEF Named, Declared

LEMMA AddCallBasic ==
  ASSUME Basic, NEW f \in CallFrame, NEW n \in Sizes, AddCall(f, n)
  PROVE  Basic' /\ Onward
<1>1. TypeOK /\ Named(calls, findings)
  BY DEF Basic
<1>2. PICK c \in HeldCall : Keeps(NewCall(f.name), f, f.args, c) /\ Holds(f.key, c, calls')
  BY <1>1, AddCallIs
<1>3. /\ f.kind = "added" /\ f.name \in Name /\ f.key \in Key
      /\ opened \in Nat /\ CallsTyped(calls)
  BY <1>1, CallFrameIs DEF AddCall, TypeOK
<1>4. /\ findings' = findings \cup CheckToolCall(f.name) /\ sawTool' = TRUE
      /\ opened' = opened + 1
      /\ UNCHANGED <<declaredTools, blocked, out, failed, phase, final, stopped, terminated,
                     dropped, text, ledger>>
  BY DEF AddCall, loopVars
<1>5. /\ phase = "reading" /\ upstream' \in Upstreams
      /\ upstream'.orderly = upstream.orderly
  BY <1>1, ReceiveIs DEF AddCall
<1>6. c.name = f.name /\ c.serial = opened
  BY <1>2, <1>3, NewCallIs DEF Keeps
<1>7. CallsTyped(calls')
  BY <1>2, <1>3, CallsHold
<1>8. findings \subseteq findings' /\ findings' \subseteq Rules
  BY <1>1, <1>4, CheckIs DEF TypeOK
<1>9. TypeOK'
  BY <1>1, <1>3, <1>4, <1>5, <1>7, <1>8 DEF TypeOK
<1>10. Serials(calls', opened', ledger')
  <2>1. Serials(calls, opened, ledger)
    BY DEF Basic
  <2>2. Serials(calls', opened + 1, ledger)
    BY <1>1, <1>2, <1>6, <2>1, SerialsHold
  <2> QED BY <1>4, <2>2
<1>11. Declared(c.name) \/ IsHigh(findings')
  BY <1>4, <1>6, CheckIs, HighJoin
<1>12. Named(calls', findings')
  BY <1>1, <1>2, <1>8, <1>11, NamesHold
<1>13. Remembered'
  BY <1>4 DEF Basic, Remembered
<1> QED BY <1>4, <1>5, <1>8, <1>9, <1>10, <1>12, <1>13, NamedNow DEF Basic, Onward

LEMMA HoldArgsBasic ==
  ASSUME Basic, NEW f \in CallFrame, NEW n \in Sizes, HoldArgs(f, n)
  PROVE  Basic' /\ Onward
<1>1. TypeOK /\ Named(calls, findings)
  BY DEF Basic
<1>2. PICK c : TakesArgs(CallAt(f.key, NoName), f, c) /\ Holds(f.key, c, calls')
  BY <1>1, HoldArgsIs
<1>3. c \in HeldCall /\ f.key \in Key /\ opened \in Nat /\ CallsTyped(calls) /\ NoName \in Name
  BY <1>1, <1>2, CallFrameIs DEF TypeOK, TakesArgs, Name
<1>4. /\ findings' = findings \cup IF Pending(f.key) THEN {} ELSE CheckToolCall(NoName)
      /\ sawTool' = SawAt(f.key) /\ opened' = OpenedAt(f.key)
      /\ UNCHANGED <<declaredTools, blocked, out, failed, phase, final, stopped, terminated,
                     dropped, text, ledger>>
  BY DEF HoldArgs, loopVars
<1>5. /\ phase = "reading" /\ upstream' \in Upstreams
      /\ upstream'.orderly = upstream.orderly
  BY <1>1, ReceiveIs DEF HoldArgs
<1>6. CallsTyped(calls')
  BY <1>2, <1>3, CallsHold
<1>7. findings \subseteq findings' /\ findings' \subseteq Rules
  BY <1>1, <1>4, CheckIs DEF TypeOK
<1>8. /\ sawTool' \in BOOLEAN /\ opened' \in Nat
  BY <1>1, <1>4 DEF SawAt, OpenedAt, TypeOK, Pending
<1>9. TypeOK'
  BY <1>1, <1>4, <1>5, <1>6, <1>7, <1>8 DEF TypeOK
<1>10. \/ Pending(f.key) /\ c.serial = calls[f.key].serial /\ opened' = opened
       \/ c.serial = opened /\ opened' = opened + 1
  BY <1>1, <1>2, <1>3, <1>4, CallAtIs DEF TakesArgs, OpenedAt
<1>11. Serials(calls', opened', ledger')
  <2>1. Serials(calls, opened, ledger)
    BY DEF Basic
  <2>2. PICK m : m = opened'
    OBVIOUS
  <2>3. Serials(calls', m, ledger)
    BY <1>1, <1>2, <1>10, <2>1, <2>2, SerialsHold
  <2> QED BY <1>4, <2>2, <2>3
<1>12. Declared(c.name) \/ IsHigh(findings')
  <2>1. c.name = CallAt(f.key, NoName).name
    BY <1>2 DEF TakesArgs
  <2>2. CASE Pending(f.key)
    <3>1. c.name = calls[f.key].name
      BY <1>1, <1>3, <2>1, <2>2, CallAtIs
    <3> QED BY <1>1, <1>4, <2>2, <3>1, HighJoin DEF Named, Pending
  <2>3. CASE ~Pending(f.key)
    <3>1. c.name = NoName
      BY <1>1, <1>3, <2>1, <2>3, CallAtIs
    <3> QED BY <3>1 DEF Declared
  <2> QED BY <2>2, <2>3
<1>13. Named(calls', findings')
  BY <1>1, <1>2, <1>7, <1>12, NamesHold
<1>14. Remembered'
  BY <1>4 DEF Basic, Remembered
<1> QED BY <1>4, <1>5, <1>7, <1>9, <1>11, <1>13, <1>14, NamedNow DEF Basic, Onward

\* What resolving a call does to the parts of Basic, and what it leaves.
LEMMA FinalizedBasic ==
  ASSUME Basic, NEW c, NEW fs, findings \subseteq fs, Finalized(c, fs),
         NEW k, Removes(k, calls'), CallLike(c),
         UNCHANGED <<declaredTools, blocked, terminated, text>>,
         \/ Pending(k) /\ c.serial = calls[k].serial /\ opened' = opened
         \/ ~Pending(k) /\ c.serial = opened /\ opened' = opened + 1,
         sawTool' \in BOOLEAN, phase' \in {"reading", "final", "closing", "done"},
         final' \in [frame : FinalFrame, next : Nat \ {0}], stopped' \in BOOLEAN,
         upstream' \in Upstreams, upstream'.orderly = upstream.orderly, phase # "done",
         stopped' => stopped \/ Returned(c, fs)
  PROVE  Basic' /\ Onward
<1>1. TypeOK /\ CallsTyped(calls) /\ opened \in Nat
  BY DEF Basic, TypeOK
<1>2. CallsTyped(calls')
  BY <1>1, CallsRemoved
<1>3. PICK j \in Nat : Adds(Replay(c, fs), j)
  BY DEF Finalized
<1>4. out' \in Seq(OutFrame) /\ failed' \in BOOLEAN /\ (failed => failed')
  BY <1>1, <1>3, AddsTyped DEF Finalized
<1>5. findings \subseteq findings' /\ findings' \subseteq Rules
  BY DEF Finalized
<1>6. /\ Entered(c.serial, Clean(c), FateOf(c, fs)) /\ LedgerTyped(ledger')
      /\ dropped' \in BOOLEAN /\ (dropped' <=> dropped \/ Drops(c, fs))
  BY DEF Finalized, Entered
<1>7. TypeOK'
  BY <1>1, <1>2, <1>4, <1>5, <1>6 DEF TypeOK
<1>8. Serials(calls', opened', ledger')
  <2>1. Serials(calls, opened, ledger)
    BY DEF Basic
  <2>2. DOMAIN ledger' = DOMAIN ledger \cup {c.serial}
    BY <1>6 DEF Entered
  <2>3. PICK m : m = opened'
    OBVIOUS
  <2>4. Serials(calls', m, ledger')
    BY <1>1, <2>1, <2>2, <2>3, SerialsSettled
  <2> QED BY <2>3, <2>4
<1>9. Named(calls', findings')
  BY <1>5, NamesRemoved DEF Basic
<1>10. Remembered'
  <2>1. Remembered
    BY DEF Basic
  <2>2. IsDropped(ledger') => dropped'
    BY <1>6, <2>1, EnteredDrop DEF Remembered, FateOf
  <2>3. stopped' => dropped' \/ failed'
    BY <1>4, <1>6, <2>1 DEF Remembered, Returned
  <2> QED BY <1>6, <2>1, <2>2, <2>3 DEF Remembered
<1> QED BY <1>4, <1>5, <1>6, <1>7, <1>8, <1>9, <1>10, NamedNow DEF Basic, Onward

LEMMA CloseItemBasic ==
  ASSUME Basic, NEW f \in CallFrame, NEW n \in Sizes, CloseItem(f, n)
  PROVE  Basic' /\ Onward
<1>1. TypeOK /\ Named(calls, findings)
  BY DEF Basic
<1>2. PICK c, fs : ClosedWith(f, c, fs)
  BY <1>1, CloseItemIs
<1>3. f.key \in Key /\ f.name \in Name /\ opened \in Nat
  BY <1>1, CallFrameIs DEF CloseItem, TypeOK
<1>4. /\ opened' = OpenedAt(f.key)
      /\ UNCHANGED <<declaredTools, blocked, final, stopped, terminated, text>>
  BY DEF CloseItem, loopVars
<1>5. sawTool' \in BOOLEAN
  <2>1. CallAt(f.key, f.name).name \in Name /\ sawTool \in BOOLEAN
    BY <1>1, <1>3, CallAtIs DEF HeldCall, TypeOK
  <2>2. PICK renamed : renamed = (f.name # NoName /\ CallAt(f.key, f.name).name # f.name)
    OBVIOUS
  <2>3. sawTool' = (SawAt(f.key) \/ renamed)
    BY <2>2, Zenon DEF CloseItem
  <2> QED BY <2>1, <2>3 DEF SawAt, Pending
<1>6. /\ phase = "reading" /\ upstream' \in Upstreams
      /\ upstream'.orderly = upstream.orderly
  BY <1>1, ReceiveIs DEF CloseItem
<1>7. \/ Pending(f.key) /\ c.serial = calls[f.key].serial /\ opened' = opened
      \/ ~Pending(f.key) /\ c.serial = opened /\ opened' = opened + 1
  <2>1. c.serial = CallAt(f.key, f.name).serial
    BY <1>2 DEF ClosedWith, Closes
  <2>2. CallAt(f.key, f.name).serial =
          IF Pending(f.key) THEN calls[f.key].serial ELSE opened
    BY <1>1, <1>3, CallAtIs
  <2> QED BY <1>4, <2>1, <2>2 DEF OpenedAt
<1>8. /\ findings \subseteq fs /\ Finalized(c, fs) /\ Removes(f.key, calls') /\ CallLike(c)
      /\ phase' \in {"reading", "closing"}
  BY <1>2 DEF ClosedWith, Closes
<1>9. /\ final' \in [frame : FinalFrame, next : Nat \ {0}] /\ stopped' \in BOOLEAN
      /\ (stopped' => stopped)
  BY <1>1, <1>4 DEF TypeOK
<1> QED BY <1>4, <1>5, <1>6, <1>7, <1>8, <1>9, FinalizedBasic

LEMMA ResolveListedBasic ==
  ASSUME Basic, ResolveListed
  PROVE  Basic' /\ Onward
<1>1. TypeOK /\ Named(calls, findings)
  BY DEF Basic
<1>2. ResolvedNow(Match)
  BY <1>1, ResolveListedIs
<1>3. PICK k : k = Match
  OBVIOUS
<1>4. PICK c : c = calls[k]
  OBVIOUS
<1>5. /\ k \in DOMAIN calls /\ CallLike(c) /\ Removes(k, calls') /\ Finalized(c, findings)
  BY <1>2, <1>3, <1>4 DEF ResolvedNow
<1>6. /\ phase = "final" /\ phase' \in {"closing", "final"}
      /\ final' = [final EXCEPT !.next = final.next + 1]
      /\ UNCHANGED <<declaredTools, sawTool, blocked, stopped, terminated, text, upstream,
                     opened>>
  BY DEF ResolveListed, InFinal, Advance
<1>7. /\ final' \in [frame : FinalFrame, next : Nat \ {0}] /\ stopped' \in BOOLEAN
      /\ (stopped' => stopped) /\ sawTool' \in BOOLEAN /\ upstream' \in Upstreams
  BY <1>1, <1>6 DEF TypeOK
<1> QED BY <1>4, <1>5, <1>6, <1>7, FinalizedBasic DEF Pending

LEMMA ResolveOpenBasic ==
  ASSUME Basic, ResolveOpen
  PROVE  Basic' /\ Onward
<1>1. TypeOK /\ Named(calls, findings)
  BY DEF Basic
<1>2. PICK k : ResolvedNow(k) /\ stopped' = Returned(calls[k], findings)
  BY <1>1, ResolveOpenIs
<1>4. PICK c : c = calls[k]
  OBVIOUS
<1>5. /\ k \in DOMAIN calls /\ CallLike(c) /\ Removes(k, calls') /\ Finalized(c, findings)
      /\ Declared(c.name) \/ IsHigh(findings)
  BY <1>2, <1>4 DEF ResolvedNow
<1>6. /\ phase = "closing"
      /\ UNCHANGED <<declaredTools, sawTool, blocked, phase, final, terminated, text, upstream,
                     opened>>
  BY DEF ResolveOpen, Resolving
<1>7. /\ final' \in [frame : FinalFrame, next : Nat \ {0}] /\ phase' = "closing"
      /\ sawTool' \in BOOLEAN /\ upstream' \in Upstreams
  BY <1>1, <1>6 DEF TypeOK
<1>8. stopped' = Returned(c, findings) /\ stopped' \in BOOLEAN
  <2>1. PICK j \in Nat : Adds(Replay(c, findings), j)
    BY <1>5 DEF Finalized
  <2>2. failed' \in BOOLEAN
    BY <1>1, <1>5, <2>1, AddsTyped DEF Finalized
  <2>3. Drops(c, findings) \in BOOLEAN
    BY <1>5, DropsIs
  <2> QED BY <1>2, <1>4, <2>2, <2>3 DEF Returned
<1> QED BY <1>4, <1>5, <1>6, <1>7, <1>8, FinalizedBasic DEF Pending

\* Steps that change no call.
LEMMA CallsStayBasic ==
  ASSUME Basic, UNCHANGED <<calls, opened, ledger, declaredTools>>,
         findings \subseteq findings', findings' \subseteq Rules,
         sawTool' \in BOOLEAN, blocked' \in BOOLEAN, blocked => blocked',
         out' \in Seq(OutFrame), failed' \in BOOLEAN, failed => failed',
         phase # "done", phase' \in {"reading", "final", "closing", "done"},
         final' \in [frame : FinalFrame, next : Nat \ {0}],
         dropped' \in BOOLEAN, dropped => dropped', UNCHANGED <<stopped, terminated>>,
         text' \in Seq(Frag), upstream' \in Upstreams, upstream'.orderly = upstream.orderly
  PROVE  Basic' /\ Onward
<1>1. TypeOK'
  BY DEF Basic, TypeOK
<1>2. Serials(calls, opened, ledger)'
  BY DEF Basic, Serials
<1>3. Named(calls', findings')
  BY DEF Basic, Named, IsHigh
<1>4. Remembered'
  BY DEF Basic, Remembered, IsDropped
<1> QED BY <1>1, <1>2, <1>3, <1>4, NamedNow DEF Basic, Onward

LEMMA ForwardBasic ==
  ASSUME Basic, NEW f \in OtherFrame, ForwardText(f) \/ ForwardError(f) \/ ForwardOther(f)
  PROVE  Basic' /\ Onward
<1>1. TypeOK
  BY DEF Basic
<1>2. /\ Receive(f) /\ Emit(<<f>>) /\ Proceed
      /\ UNCHANGED <<declaredTools, sawTool, blocked, calls, final, stopped, terminated,
                     dropped, opened, ledger>>
      /\ text' \in {text, Append(text, f.frag)} /\ (f.kind # "text_delta" => text' = text)
      /\ findings' \in {findings, findings \cup Inspect(f.args)}
  BY DEF ForwardText, ForwardError, ForwardOther, loopVars, history
<1>3. f \in OutFrame /\ (f.kind = "text_delta" => f.frag \in Frag)
      /\ f.kind \notin {"added", "args_delta", "args_done", "item_done"}
  BY OtherFrameIs
<1>4. /\ phase = "reading" /\ upstream' \in Upstreams
      /\ upstream'.orderly = upstream.orderly
  BY <1>1, <1>2, <1>3, ReceiveIs
<1>5. out' \in Seq(OutFrame) /\ failed' \in BOOLEAN /\ (failed => failed')
  BY <1>1, <1>2, <1>3, EmitOne
<1>6. text' \in Seq(Frag)
  <2>1. text \in Seq(Frag)
    BY <1>1 DEF TypeOK
  <2>2. f.kind = "text_delta" => Append(text, f.frag) \in Seq(Frag)
    BY <1>3, <2>1
  <2> QED BY <1>2, <2>1, <2>2
<1>7. findings \subseteq findings' /\ findings' \subseteq Rules
  BY <1>1, <1>2, InspectIs DEF TypeOK
<1>8. phase' \in {"reading", "closing"}
  BY <1>2 DEF Proceed
<1> QED BY <1>1, <1>2, <1>4, <1>5, <1>6, <1>7, <1>8, CallsStayBasic DEF TypeOK

LEMMA StartFinalBasic ==
  ASSUME Basic, NEW f \in FinalFrames, StartFinal(f)
  PROVE  Basic' /\ Onward
<1>1. TypeOK
  BY DEF Basic
<1>2. /\ Receive(f) /\ phase' = "final" /\ final' = [frame |-> f, next |-> 1]
      /\ UNCHANGED <<declaredTools, findings, sawTool, blocked, out, failed, calls, stopped,
                     terminated, dropped, text, opened, ledger>>
  BY DEF StartFinal, stateVars, history
<1>3. f \in FinalFrame /\ f.kind = "completed"
  BY <1>1, FinalFrameIs
<1>4. /\ phase = "reading" /\ upstream' \in Upstreams
      /\ upstream'.orderly = upstream.orderly
  BY <1>1, <1>2, <1>3, ReceiveIs
<1>5. final' \in [frame : FinalFrame, next : Nat \ {0}]
  BY <1>2, <1>3
<1> QED BY <1>1, <1>2, <1>4, <1>5, CallsStayBasic DEF TypeOK

LEMMA InFinalIs ==
  ASSUME TypeOK, InFinal
  PROVE  /\ final.frame \in FinalFrame /\ final.next \in 1..Len(final.frame.items)
         /\ NextItem \in ListItem
<1>1. final.frame \in FinalFrame /\ final.next \in Nat \ {0}
  BY DEF TypeOK
<1>2. final.frame.items \in Seq(ListItem)
  BY <1>1 DEF FinalFrame
<1>3. final.next \in 1..Len(final.frame.items)
  BY <1>1, <1>2 DEF InFinal
<1> QED BY <1>1, <1>2, <1>3 DEF NextItem

\* A listed call that is not dropped is acceptable.
LEMMA InlineIs ==
  ASSUME NEW it
  PROVE  /\ InlineDrops(it) \in BOOLEAN
         /\ ~InlineDrops(it) => Acceptable(it.name, it.args)
         /\ InlineDrops(it) => \/ IsHigh(Inspect(it.args) \cup CheckToolCall(it.name))
                               \/ declaredTools = {}
<1>1. IsHigh(Inspect(it.args) \cup CheckToolCall(it.name)) <=>
        Signature(it.args) \/ declaredTools = {} \/ ~Declared(it.name)
  BY InspectIs, CheckIs, HighJoin
<1>2. InlineDrops(it) <=> \/ IsHigh(Inspect(it.args) \cup CheckToolCall(it.name))
                          \/ declaredTools = {}
  BY DEF InlineDrops
<1>3. InlineDrops(it) \in BOOLEAN
  BY DEF InlineDrops, IsHigh
<1>4. ~InlineDrops(it) => Acceptable(it.name, it.args)
  BY <1>1, <1>2 DEF Acceptable, Declared
<1> QED BY <1>2, <1>3, <1>4

LEMMA InspectListedBasic ==
  ASSUME Basic, InspectListed
  PROVE  Basic' /\ Onward
<1>1. TypeOK
  BY DEF Basic
<1>2. /\ InFinal
      /\ findings' = findings \cup Inspect(NextItem.args) \cup CheckToolCall(NextItem.name)
      /\ sawTool' = TRUE
      /\ dropped' = (dropped \/ InlineDrops(NextItem))
      /\ Emit(IF InlineDrops(NextItem) THEN <<BlockedEvent>> ELSE <<>>)
      /\ phase' = IF InlineDrops(NextItem) THEN "closing" ELSE "final"
      /\ final' = [final EXCEPT !.next = final.next + 1]
      /\ UNCHANGED <<declaredTools, blocked, calls, stopped, terminated, text,
                     upstream, opened, ledger>>
  BY DEF InspectListed, Advance, history
<1>3. PICK frames : frames = IF InlineDrops(NextItem) THEN <<BlockedEvent>> ELSE <<>>
  OBVIOUS
<1>4. frames \in Seq(OutFrame)
  BY <1>3, BlockedIs
<1>5. PICK k \in Nat : Adds(frames, k)
  BY <1>1, <1>2, <1>3, <1>4, EmitAdds DEF TypeOK
<1>6. out' \in Seq(OutFrame) /\ failed' \in BOOLEAN /\ (failed => failed')
  BY <1>1, <1>4, <1>5, AddsTyped
<1>7. findings \subseteq findings' /\ findings' \subseteq Rules
  BY <1>1, <1>2, InspectIs, CheckIs DEF TypeOK
<1>8. dropped' \in BOOLEAN /\ (dropped => dropped')
  BY <1>1, <1>2, InlineIs DEF TypeOK
<1>9. final' \in [frame : FinalFrame, next : Nat \ {0}]
  BY <1>1, <1>2 DEF TypeOK
<1>10. phase = "final" /\ phase' \in {"closing", "final"}
  BY <1>2 DEF InFinal
<1> QED BY <1>1, <1>2, <1>6, <1>7, <1>8, <1>9, <1>10, CallsStayBasic DEF TypeOK

LEMMA ForwardFinalBasic ==
  ASSUME Basic, ForwardFinal
  PROVE  Basic' /\ Onward
<1>1. TypeOK
  BY DEF Basic
<1>2. /\ phase = "final" /\ Emit(<<final.frame>>) /\ phase' \in {"closing", "reading"}
      /\ UNCHANGED <<declaredTools, findings, sawTool, blocked, calls, final, stopped,
                     terminated, dropped, text, upstream, opened, ledger>>
  BY DEF ForwardFinal, Proceed, loopVars, history
<1>3. final.frame \in OutFrame
  BY <1>1 DEF TypeOK, OutFrame
<1>4. out' \in Seq(OutFrame) /\ failed' \in BOOLEAN /\ (failed => failed')
  BY <1>1, <1>2, <1>3, EmitOne
<1> QED BY <1>1, <1>2, <1>4, CallsStayBasic DEF TypeOK

LEMMA UpstreamEndsBasic ==
  ASSUME Basic, UpstreamEnds
  PROVE  Basic' /\ Onward
<1>1. /\ phase = "reading" /\ phase' = "closing"
      /\ UNCHANGED <<declaredTools, findings, sawTool, blocked, out, failed, calls, final,
                     stopped, terminated, dropped, text, upstream, opened, ledger>>
  BY DEF UpstreamEnds, stateVars, loopVars, history
<1>2. TypeOK
  BY DEF Basic
<1> QED BY <1>1, <1>2, CallsStayBasic DEF TypeOK

LEMMA NoCalls ==
  /\ CallsTyped(<<>>) /\ DOMAIN <<>> = {}
  /\ \A fs : Named(<<>>, fs)
<1>1. PICK cs : cs = <<>>
  OBVIOUS
<1>2. DOMAIN cs = {}
  BY <1>1
<1>3. CallsTyped(cs) /\ \A fs : Named(cs, fs)
  BY <1>2 DEF CallsTyped, Named
<1> QED BY <1>1, <1>2, <1>3

\* Steps that leave the calls out.
LEMMA CallsLeftBasic ==
  ASSUME Basic, NEW s \in BOOLEAN, calls' = <<>>, ledger' = Leave(s), dropped', phase # "done",
         UNCHANGED <<declaredTools, sawTool, opened, final, stopped, upstream>>,
         findings \subseteq findings', findings' \subseteq Rules,
         blocked' \in BOOLEAN, blocked => blocked',
         out' \in Seq(OutFrame), failed' \in BOOLEAN, failed => failed',
         phase' \in {"closing", "done"}, dropped' \in BOOLEAN, terminated' \in BOOLEAN,
         text' \in Seq(Frag)
  PROVE  Basic' /\ Onward
<1>1. TypeOK /\ Serials(calls, opened, ledger)
  BY DEF Basic
<1>2. Left(s, ledger')
  BY <1>1, LeaveLeft
<1>3. LedgerTyped(ledger')
  BY <1>2 DEF Left
<1>4. CallsTyped(calls') /\ Named(calls', findings')
  BY NoCalls
<1>5. TypeOK'
  BY <1>1, <1>3, <1>4 DEF TypeOK
<1>6. Serials(calls', opened, ledger')
  BY <1>1, <1>2, SerialsLeft
<1>7. Remembered'
  BY DEF Remembered
<1> QED BY <1>4, <1>5, <1>6, <1>7, NamedNow DEF Basic, Onward

LEMMA OnOversizedBasic ==
  ASSUME Basic, OnOversized
  PROVE  Basic' /\ Onward
<1>1. TypeOK
  BY DEF Basic
<1>2. /\ phase = "reading" /\ findings' = findings \cup {"oversized-sse"}
      /\ blocked' = TRUE /\ dropped' = TRUE /\ terminated' = TRUE
      /\ calls' = <<>> /\ ledger' = Leave(FALSE) /\ Emit(<<BlockedEvent>>)
      /\ phase' = "closing"
      /\ UNCHANGED <<declaredTools, sawTool, final, stopped, text, upstream, opened>>
  BY DEF OnOversized
<1>3. out' \in Seq(OutFrame) /\ failed' \in BOOLEAN /\ (failed => failed')
  BY <1>1, <1>2, BlockedIs, EmitOne
<1>4. findings \subseteq findings' /\ findings' \subseteq Rules
  BY <1>1, <1>2 DEF TypeOK, Rules, HighRules
<1> QED BY <1>1, <1>2, <1>3, <1>4, CallsLeftBasic DEF TypeOK

LEMMA CloseBasic ==
  ASSUME Basic, Close
  PROVE  Basic' /\ Onward
<1>1. TypeOK
  BY DEF Basic
<1>2. /\ phase = "closing" /\ findings' = findings \cup Inspect(text)
      /\ blocked' = (blocked \/ dropped) /\ phase' = "done"
      /\ UNCHANGED <<declaredTools, sawTool, out, failed, final, stopped, terminated, dropped,
                     text, upstream, opened>>
      /\ dropped => calls' = <<>> /\ ledger' = Leave(TRUE)
      /\ ~dropped => calls' = calls /\ ledger' = ledger
  BY DEF Close, loopVars
<1>3. findings \subseteq findings' /\ findings' \subseteq Rules
  BY <1>1, <1>2, InspectIs DEF TypeOK
<1>4. blocked' \in BOOLEAN /\ (blocked => blocked')
  BY <1>1, <1>2 DEF TypeOK
<1>5. CASE dropped
  BY <1>1, <1>2, <1>3, <1>4, <1>5, CallsLeftBasic DEF TypeOK
<1>6. CASE ~dropped
  BY <1>1, <1>2, <1>3, <1>4, <1>6, CallsStayBasic DEF TypeOK
<1> QED BY <1>5, <1>6

LEMMA BasicNext ==
  ASSUME Basic, Next
  PROVE  Basic' /\ Onward
<1>1. ASSUME NEW f \in CallFrame, NEW n \in Sizes,
             AddCall(f, n) \/ HoldArgs(f, n) \/ CloseItem(f, n)
      PROVE  Basic' /\ Onward
  BY <1>1, AddCallBasic, HoldArgsBasic, CloseItemBasic
<1>2. ASSUME NEW f \in OtherFrame, ForwardText(f) \/ ForwardError(f) \/ ForwardOther(f)
      PROVE  Basic' /\ Onward
  BY <1>2, ForwardBasic
<1>3. ASSUME NEW f \in FinalFrames, StartFinal(f) PROVE Basic' /\ Onward
  BY <1>3, StartFinalBasic
<1> QED BY <1>1, <1>2, <1>3, ResolveListedBasic, InspectListedBasic, ForwardFinalBasic,
           OnOversizedBasic, UpstreamEndsBasic, ResolveOpenBasic, CloseBasic
        DEF Next, OnEvent

-----------------------------------------------------------------------------
(* The calls of an orderly upstream *)

Known(f, i) ==
  /\ i \in DOMAIN upstream.items /\ upstream.items[i].key = f.key
  /\ At(f.key) = upstream.items[i] /\ upstream.items[i] \in StreamItem
  /\ Pending(f.key) /\ Stands(calls[f.key], upstream.items[i])
  /\ calls[f.key] \in HeldCall

LEMMA KnownCall ==
  ASSUME TypeOK, InTurn, upstream.orderly, NEW f \in CallFrame, f.kind # "added", Receive(f)
  PROVE  \E i : Known(f, i)
<1>1. phase = "reading" /\ ~upstream.final /\ ConformingCall(f)
  BY ReceiveIs
<1>2. Listed(upstream.items) /\ Tracked(calls, upstream.items)
      /\ AllHeld(calls, upstream.items)
  BY <1>1 DEF InTurn
<1>3. ItemsOf(f.key) # {} /\ At(f.key).stage # "done"
  BY <1>1, CallFrameIs DEF ConformingCall
<1>4. PICK i \in DOMAIN upstream.items :
        upstream.items[i].key = f.key /\ At(f.key) = upstream.items[i]
  BY <1>3 DEF ItemsOf, At
<1>5. upstream.items[i].stage # "done"
  BY <1>3, <1>4
<1>6. Pending(f.key)
  BY <1>2, <1>4, <1>5 DEF AllHeld, Pending
<1>7. Stands(calls[f.key], upstream.items[i])
  <2>1. PICK j \in DOMAIN upstream.items :
          upstream.items[j].key = f.key /\ Stands(calls[f.key], upstream.items[j])
    BY <1>2, <1>6 DEF Tracked, Pending
  <2>2. j = i
    BY <1>2, <1>4, <2>1 DEF Listed
  <2> QED BY <2>1, <2>2
<1>8. upstream.items[i] \in StreamItem
  BY <1>4 DEF TypeOK, Upstreams
<1>9. calls[f.key] \in HeldCall
  BY <1>6 DEF Pending, TypeOK, CallsTyped
<1> QED BY <1>4, <1>6, <1>7, <1>8, <1>9 DEF Known

\* A call that ends, as the upstream ended it: what is released is acceptable.
LEMMA EndedCall ==
  ASSUME TypeOK, InTurn, upstream.orderly, NEW f \in CallFrame, NEW n \in Sizes,
         CloseItem(f, n), NEW c, NEW fs, ClosedWith(f, c, fs), ~Drops(c, fs)
  PROVE  Acceptable(f.name, f.args)
<1>1. f.kind = "item_done" /\ Receive(f) /\ f.key \in Key /\ f.name \in Name
      /\ f.args \in Seq(Frag)
  BY CallFrameIs DEF CloseItem
<1>2. PICK i : Known(f, i)
  BY <1>1, KnownCall
<1>3. ConformingCall(f)
  BY <1>1, ReceiveIs
<1>4. f.name = upstream.items[i].name /\ f.args = upstream.items[i].args
  BY <1>1, <1>2, <1>3 DEF Known, ConformingCall
<1>5. PICK b : b = calls[f.key]
  OBVIOUS
<1>6. b \in HeldCall /\ b = CallAt(f.key, f.name) /\ Stands(b, upstream.items[i])
  BY <1>1, <1>2, <1>5, CallAtIs DEF Known
<1>7. Closes(b, f, c) /\ (Declared(c.name) \/ IsHigh(fs))
  BY <1>6 DEF ClosedWith
<1>8. CallLike(c)
  BY <1>7 DEF Closes
<1>9. Clean(c) /\ ~c.oversized
  BY <1>7, <1>8, DropsIs
<1>10. ~b.oversized /\ b.args = f.args
  BY <1>4, <1>6, <1>7, <1>9 DEF Closes, Stands, HeldCall
<1>11. c.name = f.name
  <2>1. upstream.items[i].name # NoName
    BY <1>2 DEF Known, InTurn, Listed
  <2> QED BY <1>4, <1>7, <2>1 DEF Closes
<1>12. ~Signature(f.args)
  <2>1. CASE b.gotDelta
    BY <1>7, <1>9, <1>10, <2>1 DEF Closes, Clean
  <2>2. CASE ~b.gotDelta
    BY <1>1, <1>7, <1>9, <1>10, <2>2, Joined DEF Closes, Clean
  <2> QED BY <2>1, <2>2
<1> QED BY <1>9, <1>11, <1>12 DEF Acceptable, Clean

-----------------------------------------------------------------------------
(* What a step writes *)

\* The error event ends the stream, and nothing else follows it.
ErrorFits(frames) ==
  \/ frames = <<BlockedEvent>> /\ phase' \in {"closing", "done"} /\ Bad'
  \/ /\ \A q \in DOMAIN frames : frames[q] # BlockedEvent
     /\ HasError => frames = <<>>

\* A call that ends was resolved, and the final frame comes after its items.
CallsFit(frames) ==
  /\ \A q \in DOMAIN frames : frames[q].kind = "item_done" /\ upstream.orderly =>
       Acceptable(frames[q].name, frames[q].args)
  /\ \A q \in DOMAIN frames : frames[q].kind = "completed" =>
       frames = <<final.frame>> /\ ForwardFinal

Fits(frames) ==
  /\ frames \in Seq(OutFrame) /\ \E k \in Nat : Adds(frames, k)
  /\ ErrorFits(frames) /\ CallsFit(frames)

LEMMA NothingFits ==
  ASSUME TypeOK, UNCHANGED <<out, failed>>
  PROVE  \E frames : Fits(frames)
<1>1. PICK frames : frames = <<>>
  OBVIOUS
<1>2. frames \in Seq(OutFrame) /\ DOMAIN frames = {} /\ Len(frames) = 0
  BY <1>1
<1>3. Adds(frames, 0)
  <2>1. out' \in Seq(OutFrame) /\ Len(out') = Len(out) + 0 /\ out' = out
    BY DEF TypeOK
  <2> QED BY <1>2, <2>1 DEF Adds, TypeOK
<1>4. ErrorFits(frames) /\ CallsFit(frames)
  BY <1>1, <1>2 DEF ErrorFits, CallsFit
<1>5. \E k \in Nat : Adds(frames, k)
  BY <1>3
<1> QED BY <1>2, <1>4, <1>5 DEF Fits

LEMMA ReplayFits ==
  ASSUME TypeOK, ErrorIsLast, declaredTools' = declaredTools,
         NEW c, NEW fs, Finalized(c, fs), CallLike(c), findings \subseteq fs,
         Declared(c.name) \/ IsHigh(fs), NEW f,
         \A q \in DOMAIN c.raw : c.raw[q] \in HeldFrame \/ c.raw[q] = f,
         f.kind = "item_done" /\ ~Drops(c, fs) /\ upstream.orderly => Acceptable(f.name, f.args),
         phase \in {"reading", "final", "closing"},
         Drops(c, fs) => phase' \in {"closing", "done"}
  PROVE  \E frames : Fits(frames)
<1>1. PICK frames : frames = Replay(c, fs)
  OBVIOUS
<1>2. frames \in Seq(OutFrame) /\ \E k \in Nat : Adds(frames, k)
  BY <1>1 DEF Finalized
<1>3. CASE Drops(c, fs)
  <2>1. frames = <<BlockedEvent>>
    BY <1>1, <1>3 DEF Replay
  <2>2. Bad'
    BY <1>3 DEF Finalized, Bad
  <2>3. ErrorFits(frames)
    BY <1>3, <2>1, <2>2 DEF ErrorFits
  <2>4. CallsFit(frames)
    BY <2>1, BlockedIs DEF CallsFit
  <2> QED BY <1>2, <2>3, <2>4 DEF Fits
<1>4. CASE ~Drops(c, fs)
  <2>1. frames = c.raw /\ c.raw \in Seq(CallFrame)
    BY <1>1, <1>4 DEF Replay, CallLike
  <2>2. ~IsHigh(fs) /\ declaredTools # {}
    BY <1>4, DropsIs DEF Clean
  <2>3. ~HasError
    BY <2>2, HighJoin DEF ErrorIsLast, Bad, IsHigh
  <2>4. \A q \in DOMAIN frames : frames[q] \in CallFrame
    BY <2>1
  <2>5. \A q \in DOMAIN frames : frames[q] # BlockedEvent /\ frames[q].kind # "completed"
    BY <2>4, CallFrameIs, BlockedIs
  <2>6. ErrorFits(frames)
    BY <2>3, <2>5 DEF ErrorFits
  <2>7. CallsFit(frames)
    BY <1>4, <2>1, <2>5 DEF CallsFit, HeldFrame
  <2> QED BY <1>2, <2>6, <2>7 DEF Fits
<1> QED BY <1>3, <1>4

LEMMA OneFits ==
  ASSUME TypeOK, ErrorIsLast, NEW f \in OutFrame, Emit(<<f>>), phase \in {"reading", "final"},
         f.kind # "item_done", f.kind = "completed" => f = final.frame /\ ForwardFinal,
         f = BlockedEvent => phase' = "closing" /\ Bad'
  PROVE  \E frames : Fits(frames)
<1>1. PICK frames : frames = <<f>>
  OBVIOUS
<1>2. DOMAIN frames = {1} /\ frames[1] = f
  BY <1>1
<1>3. frames \in Seq(OutFrame) /\ \E k \in Nat : Adds(frames, k)
  BY <1>1, EmitOne
<1>4. ~HasError
  BY DEF ErrorIsLast
<1>5. ErrorFits(frames)
  BY <1>1, <1>2, <1>4 DEF ErrorFits
<1>6. CallsFit(frames)
  BY <1>1, <1>2 DEF CallsFit
<1> QED BY <1>3, <1>5, <1>6 DEF Fits

LEMMA StepFits ==
  ASSUME Basic, Onward, ErrorIsLast, InTurn, Next
  PROVE  \E frames : Fits(frames)
<1>1. TypeOK /\ Named(calls, findings) /\ declaredTools' = declaredTools
  BY DEF Basic, Onward
<1>2. ASSUME NEW f \in CallFrame, NEW n \in Sizes, AddCall(f, n) \/ HoldArgs(f, n)
      PROVE  \E frames : Fits(frames)
  BY <1>1, <1>2, NothingFits DEF AddCall, HoldArgs
<1>3. ASSUME NEW f \in CallFrame, NEW n \in Sizes, CloseItem(f, n)
      PROVE  \E frames : Fits(frames)
  <2>1. PICK c, fs : ClosedWith(f, c, fs)
    BY <1>1, <1>3, CloseItemIs
  <2>2. phase = "reading"
    BY <1>1, <1>3, ReceiveIs DEF CloseItem
  <2>3. ~Drops(c, fs) /\ upstream.orderly => Acceptable(f.name, f.args)
    BY <1>1, <1>3, <2>1, EndedCall
  <2>4. /\ Finalized(c, fs) /\ CallLike(c) /\ findings \subseteq fs
        /\ Declared(c.name) \/ IsHigh(fs)
        /\ \A q \in DOMAIN c.raw : c.raw[q] \in HeldFrame \/ c.raw[q] = f
        /\ Drops(c, fs) => phase' = "closing"
    BY <2>1 DEF ClosedWith, Closes, Returned
  <2> QED BY <1>1, <2>2, <2>3, <2>4, ReplayFits
<1>4. ASSUME NEW f \in OtherFrame, ForwardText(f) \/ ForwardError(f) \/ ForwardOther(f)
      PROVE  \E frames : Fits(frames)
  <2>1. Emit(<<f>>) /\ phase = "reading"
    BY <1>1, <1>4, ReceiveIs, OtherFrameIs DEF ForwardText, ForwardError, ForwardOther
  <2>2. f \in OutFrame /\ f # BlockedEvent /\ f.kind \notin {"item_done", "completed"}
    BY OtherFrameIs, BlockedIs
  <2> QED BY <1>1, <2>1, <2>2, OneFits
<1>5. ASSUME NEW f \in FinalFrames, StartFinal(f) PROVE \E frames : Fits(frames)
  BY <1>1, <1>5, NothingFits DEF StartFinal, stateVars
<1>6. CASE ResolveListed
  <2>1. ResolvedNow(Match)
    BY <1>1, <1>6, ResolveListedIs
  <2>2. PICK c, e : c = calls[Match] /\ e = BlockedEvent
    OBVIOUS
  <2>3. /\ Finalized(c, findings) /\ CallLike(c) /\ (Declared(c.name) \/ IsHigh(findings))
        /\ \A q \in DOMAIN c.raw : c.raw[q] \in HeldFrame \/ c.raw[q] = e
    BY <2>1, <2>2 DEF ResolvedNow
  <2>4. phase = "final" /\ (Drops(c, findings) => phase' = "closing")
    BY <1>6, <2>2 DEF ResolveListed, InFinal, Returned
  <2>5. e.kind # "item_done"
    BY <2>2, BlockedIs
  <2> QED BY <1>1, <2>3, <2>4, <2>5, ReplayFits
<1>7. CASE InspectListed
  <2>1. /\ phase = "final" /\ findings' = findings \cup Inspect(NextItem.args)
                                                   \cup CheckToolCall(NextItem.name)
        /\ Emit(IF InlineDrops(NextItem) THEN <<BlockedEvent>> ELSE <<>>)
        /\ phase' = IF InlineDrops(NextItem) THEN "closing" ELSE "final"
    BY <1>7 DEF InspectListed, InFinal
  <2>2. CASE InlineDrops(NextItem)
    <3>1. Emit(<<BlockedEvent>>)
      BY <2>1, <2>2
    <3>2. IsHigh(findings') \/ declaredTools = {}
      BY <2>1, <2>2, InlineIs, HighJoin
    <3>3. Bad'
      BY <1>1, <3>2 DEF Bad
    <3> QED BY <1>1, <2>1, <2>2, <3>1, <3>3, BlockedIs, OneFits
  <2>3. CASE ~InlineDrops(NextItem)
    <3>1. PICK g : g = <<>>
      OBVIOUS
    <3>2. g \in Seq(OutFrame) /\ Len(g) = 0 /\ Emit(g)
      BY <2>1, <2>3, <3>1
    <3>3. PICK k \in Nat : Adds(g, k)
      BY <1>1, <3>2, EmitAdds DEF TypeOK
    <3>4. Fits(g)
      <4>1. DOMAIN g = {}
        BY <3>1
      <4>2. ErrorFits(g) /\ CallsFit(g)
        BY <3>1, <4>1 DEF ErrorFits, CallsFit
      <4> QED BY <3>2, <3>3, <4>2 DEF Fits
    <3> QED BY <3>4
  <2> QED BY <2>2, <2>3
<1>8. CASE ForwardFinal
  <2>1. Emit(<<final.frame>>) /\ phase = "final"
    BY <1>8 DEF ForwardFinal
  <2>2. final.frame \in FinalFrame /\ final.frame \in OutFrame
    BY <1>1 DEF TypeOK, OutFrame
  <2>3. final.frame # BlockedEvent /\ final.frame.kind = "completed"
    BY <2>2, BlockedIs DEF FinalFrame
  <2> QED BY <1>1, <1>8, <2>1, <2>2, <2>3, OneFits
<1>9. CASE OnOversized
  <2>1. /\ phase = "reading" /\ findings' = findings \cup {"oversized-sse"}
        /\ Emit(<<BlockedEvent>>) /\ phase' = "closing"
    BY <1>9 DEF OnOversized
  <2>2. Bad'
    BY <2>1 DEF Bad, IsHigh, HighRules
  <2> QED BY <1>1, <2>1, <2>2, BlockedIs, OneFits
<1>10. CASE UpstreamEnds \/ Close
  BY <1>1, <1>10, NothingFits DEF UpstreamEnds, Close, stateVars
<1>11. CASE ResolveOpen
  <2>1. PICK k : ResolvedNow(k)
    BY <1>1, <1>11, ResolveOpenIs
  <2>2. PICK c, e : c = calls[k] /\ e = BlockedEvent
    OBVIOUS
  <2>3. /\ Finalized(c, findings) /\ CallLike(c) /\ (Declared(c.name) \/ IsHigh(findings))
        /\ \A q \in DOMAIN c.raw : c.raw[q] \in HeldFrame \/ c.raw[q] = e
    BY <2>1, <2>2 DEF ResolvedNow
  <2>4. phase = "closing" /\ phase' = "closing"
    BY <1>11 DEF ResolveOpen, Resolving
  <2>5. e.kind # "item_done"
    BY <2>2, BlockedIs
  <2> QED BY <1>1, <2>3, <2>4, <2>5, ReplayFits
<1> QED BY <1>2, <1>3, <1>4, <1>5, <1>6, <1>7, <1>8, <1>9, <1>10, <1>11 DEF Next, OnEvent

\* The frames written, after the m that were.
Joins(frames, k, m) ==
  /\ k \in 0..Len(frames) /\ m \in Nat /\ out \in Seq(OutFrame)
  /\ out' \in Seq(OutFrame) /\ Len(out') = m + k
  /\ \A q \in 1..m : out'[q] = out[q]
  /\ \A j \in 1..k : out'[m + j] = frames[j]

LEMMA AddsFrames ==
  ASSUME TypeOK, NEW frames, NEW k \in Nat, Adds(frames, k), NEW m, m = Len(out)
  PROVE  Joins(frames, k, m)
<1>1. out \in Seq(OutFrame) /\ m \in Nat
  BY DEF TypeOK
<1>2. k \in 0..Len(frames) /\ out' \in Seq(OutFrame)
  BY DEF Adds
<1>3. Len(out') = m + k
  BY DEF Adds
<1>4. \A q \in 1..m : out'[q] = out[q]
  BY DEF Adds
<1>5. \A j \in 1..k : out'[m + j] = frames[j]
  BY DEF Adds
<1> QED BY <1>1, <1>2, <1>3, <1>4, <1>5 DEF Joins

LEMMA ClosingStays ==
  ASSUME TypeOK, Next, phase \in {"closing", "done"}
  PROVE  phase' \in {"closing", "done"}
<1>1. phase # "reading" /\ phase # "final"
  OBVIOUS
<1>2. \A f : ~Receive(f)
  BY <1>1 DEF Receive, MaySend
<1>3. ~OnEvent
  BY <1>2 DEF OnEvent, AddCall, HoldArgs, CloseItem, ForwardText, ForwardError, ForwardOther,
              StartFinal
<1>4. ~ResolveListed /\ ~InspectListed /\ ~ForwardFinal /\ ~OnOversized /\ ~UpstreamEnds
  BY <1>1 DEF ResolveListed, InspectListed, InFinal, ForwardFinal, OnOversized, UpstreamEnds
<1>5. CASE ResolveOpen
  BY <1>5 DEF ResolveOpen
<1>6. CASE Close
  BY <1>6 DEF Close
<1> QED BY <1>3, <1>4, <1>5, <1>6 DEF Next

LEMMA ErrorKept ==
  ASSUME Basic, Onward, ErrorIsLast, InTurn, Next
  PROVE  ErrorIsLast'
<1>1. TypeOK
  BY DEF Basic
<1>2. PICK frames : Fits(frames)
  BY StepFits
<1>3. PICK k \in Nat : Adds(frames, k)
  BY <1>2 DEF Fits
<1>4. frames \in Seq(OutFrame) /\ ErrorFits(frames)
  BY <1>2 DEF Fits
<1>5. PICK m : m = Len(out)
  OBVIOUS
<1>6. /\ k \in 0..Len(frames) /\ m \in Nat /\ out \in Seq(OutFrame)
      /\ out' \in Seq(OutFrame) /\ Len(out') = m + k
      /\ \A p \in 1..m : out'[p] = out[p]
      /\ \A j \in 1..k : out'[m + j] = frames[j]
  <2>1. Joins(frames, k, m)
    BY <1>1, <1>3, <1>5, AddsFrames
  <2> QED BY <2>1 DEF Joins
<1>7. DOMAIN out' = 1..(m + k) /\ DOMAIN out = 1..m
  BY <1>5, <1>6
<1>8. ASSUME NEW p \in DOMAIN out', p > m
      PROVE  \E j \in 1..k : p = m + j /\ out'[p] = frames[j] /\ j \in DOMAIN frames
  <2>1. p - m \in 1..k /\ p = m + (p - m)
    BY <1>6, <1>7, <1>8
  <2>2. p - m \in DOMAIN frames
    BY <1>4, <1>6, <2>1
  <2> QED BY <1>6, <2>1, <2>2
<1>9. CASE frames = <<BlockedEvent>> /\ phase' \in {"closing", "done"} /\ Bad'
  <2>1. \A p \in DOMAIN out' : p > m => IsBlocked(p)'
    <3>1. \A j \in DOMAIN frames : frames[j] = BlockedEvent
      BY <1>9
    <3> QED BY <1>8, <3>1 DEF IsBlocked
  <2>2. \A p, q \in DOMAIN out' : p < q /\ IsBlocked(p)' => IsBlocked(q)'
    <3> SUFFICES ASSUME NEW p \in DOMAIN out', NEW q \in DOMAIN out', p < q, IsBlocked(p)'
                 PROVE  IsBlocked(q)'
      OBVIOUS
    <3>1. CASE q > m
      BY <2>1, <3>1
    <3>2. CASE q <= m
      <4>1. p \in DOMAIN out /\ q \in DOMAIN out /\ out'[p] = out[p] /\ out'[q] = out[q]
        BY <1>6, <1>7, <3>2
      <4>2. IsBlocked(p)
        BY <4>1 DEF IsBlocked
      <4>3. IsBlocked(q)
        BY <4>1, <4>2 DEF ErrorIsLast, NoFrameAfterError
      <4> QED BY <4>1, <4>3 DEF IsBlocked
    <3> QED BY <1>6, <1>7, <3>1, <3>2
  <2>3. NoFrameAfterError'
    BY <2>2 DEF NoFrameAfterError
  <2> QED BY <1>9, <2>3 DEF ErrorIsLast
<1>10. CASE (\A q \in DOMAIN frames : frames[q] # BlockedEvent) /\ (HasError => frames = <<>>)
  <2>1. ASSUME NEW p \in DOMAIN out', IsBlocked(p)'
        PROVE  p \in DOMAIN out /\ IsBlocked(p) /\ HasError /\ k = 0
    <3>1. p <= m
      <4> SUFFICES ASSUME p > m PROVE FALSE
        BY <1>6, <1>7, <2>1
      <4>1. PICK j \in 1..k : out'[p] = frames[j] /\ j \in DOMAIN frames
        BY <1>8, <2>1
      <4> QED BY <1>10, <2>1, <4>1 DEF IsBlocked
    <3>2. p \in DOMAIN out /\ IsBlocked(p)
      BY <1>6, <1>7, <2>1, <3>1 DEF IsBlocked
    <3>3. HasError
      BY <3>2 DEF HasError
    <3>4. Len(frames) = 0
      BY <1>10, <3>3
    <3> QED BY <1>6, <3>2, <3>3, <3>4
  <2>2. ASSUME HasError' PROVE phase' \in {"closing", "done"} /\ Bad'
    <3>1. HasError
      BY <2>1, <2>2 DEF HasError
    <3>2. phase \in {"closing", "done"} /\ Bad
      BY <3>1 DEF ErrorIsLast
    <3>3. Bad'
      BY <3>2 DEF Bad, Onward, IsHigh
    <3> QED BY <1>1, <3>2, <3>3, ClosingStays
  <2>3. NoFrameAfterError'
    <3> SUFFICES ASSUME NEW p \in DOMAIN out', NEW q \in DOMAIN out', p < q, IsBlocked(p)'
                 PROVE  IsBlocked(q)'
      BY DEF NoFrameAfterError
    <3>1. p \in DOMAIN out /\ IsBlocked(p) /\ k = 0
      BY <2>1
    <3>2. q \in DOMAIN out /\ out'[q] = out[q]
      BY <1>6, <1>7, <3>1
    <3>3. IsBlocked(q)
      BY <3>1, <3>2 DEF ErrorIsLast, NoFrameAfterError
    <3> QED BY <3>2, <3>3 DEF IsBlocked
  <2> QED BY <2>2, <2>3 DEF ErrorIsLast
<1> QED BY <1>4, <1>9, <1>10 DEF ErrorFits

LEMMA VerifiedKept ==
  ASSUME Basic, Onward, ErrorIsLast, InTurn, Judged, SentCallsVerified, Next
  PROVE  SentCallsVerified'
<1>1. TypeOK
  BY DEF Basic
<1> SUFFICES ASSUME upstream.orderly, NEW p \in DOMAIN out'
             PROVE  /\ out'[p].kind = "item_done" => Acceptable(out'[p].name, out'[p].args)
                    /\ out'[p].kind = "completed" =>
                         \A i \in DOMAIN out'[p].items :
                           Acceptable(out'[p].items[i].name, out'[p].items[i].args)
  BY DEF SentCallsVerified, Acceptable, Onward
<1>2. PICK frames : Fits(frames)
  BY StepFits
<1>3. PICK k \in Nat : Adds(frames, k)
  BY <1>2 DEF Fits
<1>4. frames \in Seq(OutFrame) /\ CallsFit(frames)
  BY <1>2 DEF Fits
<1>5. PICK m : m = Len(out)
  OBVIOUS
<1>6. /\ k \in 0..Len(frames) /\ m \in Nat /\ out \in Seq(OutFrame)
      /\ out' \in Seq(OutFrame) /\ Len(out') = m + k
      /\ \A q \in 1..m : out'[q] = out[q]
      /\ \A j \in 1..k : out'[m + j] = frames[j]
  <2>1. Joins(frames, k, m)
    BY <1>1, <1>3, <1>5, AddsFrames
  <2> QED BY <2>1 DEF Joins
<1>7. p \in 1..(m + k) /\ DOMAIN out = 1..m
  BY <1>5, <1>6
<1>8. CASE p <= m
  <2>1. p \in DOMAIN out /\ out'[p] = out[p]
    BY <1>6, <1>7, <1>8
  <2> QED BY <2>1 DEF SentCallsVerified
<1>9. CASE p > m
  <2>1. PICK j : j = p - m
    OBVIOUS
  <2>2. j \in 1..k /\ p = m + j
    BY <1>6, <1>7, <1>9, <2>1
  <2>3. out'[p] = frames[j] /\ j \in DOMAIN frames
    BY <1>4, <1>6, <2>2
  <2>4. ASSUME out'[p].kind = "completed"
        PROVE  \A i \in DOMAIN out'[p].items :
                 Acceptable(out'[p].items[i].name, out'[p].items[i].args)
    <3>1. frames = <<final.frame>> /\ ForwardFinal
      BY <1>4, <2>3, <2>4 DEF CallsFit
    <3>2. out'[p] = final.frame
      BY <2>3, <3>1
    <3>3. phase = "final" /\ ~InFinal
      BY <3>1 DEF ForwardFinal
    <3>4. final.frame.items \in Seq(ListItem) /\ final.next \in Nat
      BY <1>1 DEF TypeOK, FinalFrame
    <3>5. DOMAIN final.frame.items \subseteq 1..(final.next - 1)
      BY <3>3, <3>4 DEF InFinal
    <3> QED BY <3>2, <3>3, <3>5 DEF Judged
  <2>5. out'[p].kind = "item_done" => Acceptable(out'[p].name, out'[p].args)
    BY <1>4, <2>3 DEF CallsFit
  <2> QED BY <2>4, <2>5
<1> QED BY <1>6, <1>7, <1>8, <1>9

-----------------------------------------------------------------------------
(* The calls keep in turn with the items *)

\* Steps that send no frame of a call.
LEMMA TurnStays ==
  ASSUME Onward, InTurn,
         upstream.orderly => upstream'.items = upstream.items,
         \A k \in DOMAIN calls' : k \in DOMAIN calls /\ calls'[k] = calls[k],
         upstream.orderly /\ phase' = "reading" /\ ~upstream'.final =>
           DOMAIN calls' = DOMAIN calls /\ phase = "reading" /\ ~upstream.final,
         upstream.orderly /\ phase' = "final" => upstream'.final
  PROVE  InTurn'
<1>1. upstream'.orderly = upstream.orderly
  BY DEF Onward
<1> SUFFICES ASSUME upstream.orderly
             PROVE  /\ Listed(upstream'.items) /\ Tracked(calls', upstream'.items)
                    /\ phase' = "reading" /\ ~upstream'.final =>
                         AllHeld(calls', upstream'.items)
                    /\ phase' = "final" => upstream'.final
  BY <1>1 DEF InTurn
<1>2. Listed(upstream.items) /\ Tracked(calls, upstream.items)
  BY DEF InTurn
<1>3. Tracked(calls', upstream.items)
  BY <1>2 DEF Tracked
<1>4. phase' = "reading" /\ ~upstream'.final => AllHeld(calls', upstream.items)
  BY DEF InTurn, AllHeld
<1> QED BY <1>2, <1>3, <1>4

LEMMA AddedListed ==
  ASSUME NEW items \in Seq(StreamItem), Listed(items), NEW f, f.name # NoName,
         f.key \in Id \cup {Len(items)}, \A i \in DOMAIN items : items[i].key # f.key,
         NEW new \in Seq(StreamItem), Extends(items, f, new)
  PROVE  Listed(new)
<1>1. PICK m : m = Len(items)
  OBVIOUS
<1>2. m \in Nat /\ DOMAIN items = 1..m /\ DOMAIN new = 1..(m + 1)
      /\ f.key \in Id \cup {m}
      /\ (\A i \in 1..m : new[i] = items[i])
      /\ new[m + 1].key = f.key /\ new[m + 1].name = f.name
  BY <1>1 DEF Extends
<1>3. ASSUME NEW i \in 1..(m + 1)
      PROVE  new[i].name # NoName /\ new[i].key \in Id \cup {i - 1}
  <2>1. CASE i \in 1..m
    BY <1>2, <2>1 DEF Listed
  <2>2. CASE i = m + 1
    <3>1. i - 1 = m
      BY <1>2, <2>2
    <3> QED BY <1>2, <2>2, <3>1
  <2> QED BY <1>2, <2>1, <2>2
<1>4. ASSUME NEW i \in 1..(m + 1), NEW j \in 1..(m + 1), new[i].key = new[j].key
      PROVE  i = j
  <2>1. CASE i \in 1..m /\ j \in 1..m
    BY <1>2, <1>4, <2>1 DEF Listed
  <2>2. CASE i \in 1..m /\ j = m + 1
    BY <1>2, <1>4, <2>2
  <2>3. CASE i = m + 1 /\ j \in 1..m
    BY <1>2, <1>4, <2>3
  <2>4. CASE i = m + 1 /\ j = m + 1
    BY <2>4
  <2> QED BY <1>2, <2>1, <2>2, <2>3, <2>4
<1> QED BY <1>2, <1>3, <1>4 DEF Listed

LEMMA AddCallTurn ==
  ASSUME Basic, Onward, InTurn, NEW f \in CallFrame, NEW n \in Sizes, AddCall(f, n)
  PROVE  InTurn'
<1>1. TypeOK
  BY DEF Basic
<1>2. upstream'.orderly = upstream.orderly /\ phase' = phase /\ f.kind = "added"
  BY DEF Onward, AddCall
<1> SUFFICES ASSUME upstream.orderly
             PROVE  /\ Listed(upstream'.items) /\ Tracked(calls', upstream'.items)
                    /\ AllHeld(calls', upstream'.items)
                    /\ phase' # "final"
  BY <1>2 DEF InTurn
<1>3. /\ phase = "reading" /\ ~upstream.final /\ ConformingCall(f)
      /\ upstream'.items = ItemsAfter(f)
  BY <1>1, ReceiveIs DEF AddCall
<1>4. PICK new : new = upstream'.items
  OBVIOUS
<1>5. PICK items : items = upstream.items
  OBVIOUS
<1>6. new \in Seq(StreamItem) /\ Extends(items, f, new) /\ items \in Seq(StreamItem)
  BY <1>1, <1>2, <1>3, <1>4, <1>5, AddedItem DEF TypeOK, Upstreams
<1>7. /\ \A i \in DOMAIN items : items[i].key # f.key
      /\ f.args = <<>> /\ f.name # NoName /\ f.key \in Id \cup {Len(items)}
  BY <1>2, <1>3, <1>5 DEF ConformingCall, ItemsOf
<1>8. Listed(items) /\ Tracked(calls, items) /\ AllHeld(calls, items)
  BY <1>3, <1>5 DEF InTurn
<1>9. Listed(new)
  BY <1>6, <1>7, <1>8, AddedListed
<1>10. PICK c \in HeldCall : Keeps(NewCall(f.name), f, f.args, c) /\ Holds(f.key, c, calls')
  BY <1>1, AddCallIs
<1>11. PICK m : m = Len(items) + 1
  OBVIOUS
<1>12. /\ m \in DOMAIN new /\ new[m].key = f.key /\ new[m].name = f.name /\ new[m].args = <<>>
       /\ new[m].stage = "open"
       /\ \A i \in DOMAIN items : i \in DOMAIN new /\ new[i] = items[i]
       /\ \A i \in DOMAIN new : i \in DOMAIN items \/ i = m
  BY <1>6, <1>11 DEF Extends
<1>13. Stands(c, new[m])
  <2>1. f.name \in Name /\ opened \in Nat
    BY <1>1, <1>2, CallFrameIs DEF TypeOK
  <2>2. c.name = f.name /\ c.gotDelta = FALSE /\ (~c.oversized => c.args = <<>> \o f.args)
    BY <1>10, <2>1, NewCallIs DEF Keeps
  <2>3. <<>> \o f.args = <<>>
    BY <1>7
  <2> QED BY <1>12, <2>2, <2>3 DEF Stands
<1>14. Tracked(calls', new)
  <2> SUFFICES ASSUME NEW k \in DOMAIN calls'
               PROVE  \E i \in DOMAIN new : new[i].key = k /\ Stands(calls'[k], new[i])
    BY DEF Tracked
  <2>1. CASE k = f.key
    BY <1>10, <1>12, <1>13, <2>1 DEF Holds
  <2>2. CASE k # f.key
    <3>1. k \in DOMAIN calls /\ calls'[k] = calls[k]
      BY <1>10, <2>2 DEF Holds
    <3> QED BY <1>8, <1>12, <3>1 DEF Tracked
  <2> QED BY <2>1, <2>2
<1>15. AllHeld(calls', new)
  <2> SUFFICES ASSUME NEW i \in DOMAIN new, new[i].stage # "done"
               PROVE  new[i].key \in DOMAIN calls'
    BY DEF AllHeld
  <2>1. CASE i \in DOMAIN items
    BY <1>8, <1>10, <1>12, <2>1 DEF AllHeld, Holds
  <2>2. CASE i = m
    BY <1>10, <1>12, <2>2 DEF Holds
  <2>3. i \in DOMAIN items \/ i = m
    BY <1>12
  <2> QED BY <2>1, <2>2, <2>3
<1> QED BY <1>2, <1>3, <1>4, <1>9, <1>14, <1>15

\* The items after a frame of a call that was added.
LEMMA ChangedListed ==
  ASSUME NEW items, Listed(items), NEW f, f.kind \in {"args_delta", "args_done", "item_done"},
         NEW new, Changes(items, f, new)
  PROVE  /\ Listed(new)
         /\ \A i \in DOMAIN items :
              items[i].key # f.key => i \in DOMAIN new /\ new[i] = items[i]
         /\ \A i \in DOMAIN new : i \in DOMAIN items /\ new[i].key = items[i].key
<1>1. \A i \in DOMAIN items : new[i].key = items[i].key /\ new[i].name = items[i].name
  BY DEF Changes
<1> QED BY <1>1 DEF Changes, Listed

LEMMA TakenStands ==
  ASSUME NEW f \in CallFrame, f.kind \in {"args_delta", "args_done"},
         NEW b, NEW c, TakesArgs(b, f, c), b \in HeldCall,
         NEW e \in StreamItem, Stands(b, e), e.stage = "open",
         f.kind = "args_done" => e.args \in {<<>>, f.args},
         NEW d, d.name = e.name,
         f.kind = "args_delta" => d.args = e.args \o f.args /\ d.stage = e.stage,
         f.kind = "args_done" => d.args = f.args /\ d.stage = "filled"
  PROVE  Stands(c, d)
<1>1. f.args \in Seq(Frag) /\ e.args \in Seq(Frag) /\ b.args \in Seq(Frag)
  BY CallFrameIs DEF StreamItem, HeldCall
<1>2. d.stage # "done" /\ c.name = d.name
  BY DEF TakesArgs, Stands
<1>3. CASE f.kind = "args_delta"
  <2>1. c.gotDelta
    BY <1>3 DEF TakesArgs
  <2>2. ~c.oversized => c.args = d.args
    BY <1>3 DEF TakesArgs, Stands
  <2>3. d.args # <<>>
    BY <1>1, <1>3, CallFrameIs, Joined
  <2> QED BY <1>2, <2>1, <2>2, <2>3 DEF Stands
<1>4. CASE f.kind = "args_done" /\ b.gotDelta
  <2>1. e.args = f.args /\ f.args # <<>>
    BY <1>4 DEF Stands
  <2>2. c.gotDelta /\ (~c.oversized => c.args = b.args /\ ~b.oversized)
    BY <1>4 DEF TakesArgs
  <2> QED BY <1>2, <1>4, <2>1, <2>2 DEF Stands
<1>5. CASE f.kind = "args_done" /\ ~b.gotDelta
  <2>1. e.args = <<>>
    BY <1>5 DEF Stands
  <2>2. ~c.gotDelta /\ (~c.oversized => c.args = b.args \o f.args /\ ~b.oversized)
    BY <1>5 DEF TakesArgs
  <2>3. ~b.oversized => b.args = <<>>
    BY <2>1 DEF Stands
  <2>4. <<>> \o f.args = f.args
    BY <1>1, Joined
  <2>5. ~c.oversized => c.args = d.args
    BY <1>5, <2>2, <2>3, <2>4
  <2> QED BY <1>2, <1>5, <2>2, <2>5 DEF Stands
<1> QED BY <1>3, <1>4, <1>5

LEMMA HoldArgsTurn ==
  ASSUME Basic, Onward, InTurn, NEW f \in CallFrame, NEW n \in Sizes, HoldArgs(f, n)
  PROVE  InTurn'
<1>1. TypeOK
  BY DEF Basic
<1>2. /\ upstream'.orderly = upstream.orderly /\ phase' = phase
      /\ f.kind \in {"args_delta", "args_done"} /\ Receive(f)
  BY DEF Onward, HoldArgs
<1> SUFFICES ASSUME upstream.orderly
             PROVE  /\ Listed(upstream'.items) /\ Tracked(calls', upstream'.items)
                    /\ AllHeld(calls', upstream'.items)
                    /\ phase' # "final"
  BY <1>2 DEF InTurn
<1>3. /\ phase = "reading" /\ ~upstream.final /\ ConformingCall(f)
      /\ upstream'.items = ItemsAfter(f)
  BY <1>1, <1>2, ReceiveIs
<1>4. PICK new : new = upstream'.items
  OBVIOUS
<1>5. PICK items : items = upstream.items
  OBVIOUS
<1>6. Changes(items, f, new)
  BY <1>1, <1>2, <1>3, <1>4, <1>5, ChangedItem DEF TypeOK
<1>7. Listed(items) /\ Tracked(calls, items) /\ AllHeld(calls, items)
  BY <1>3, <1>5 DEF InTurn
<1>8. /\ Listed(new)
      /\ \A i \in DOMAIN items :
           items[i].key # f.key => i \in DOMAIN new /\ new[i] = items[i]
      /\ \A i \in DOMAIN new : i \in DOMAIN items /\ new[i].key = items[i].key
  BY <1>2, <1>6, <1>7, ChangedListed
<1>9. PICK i : Known(f, i)
  BY <1>1, <1>2, KnownCall
<1>10. PICK b : b = calls[f.key]
  OBVIOUS
<1>11. PICK e : e = items[i]
  OBVIOUS
<1>12. /\ i \in DOMAIN items /\ e.key = f.key /\ At(f.key) = e /\ e \in StreamItem
       /\ Pending(f.key) /\ Stands(b, e) /\ b \in HeldCall
  BY <1>5, <1>9, <1>10, <1>11 DEF Known
<1>13. e.stage = "open" /\ (f.kind = "args_done" => e.args \in {<<>>, f.args})
  BY <1>2, <1>3, <1>12 DEF ConformingCall
<1>14. PICK c : TakesArgs(CallAt(f.key, NoName), f, c) /\ Holds(f.key, c, calls')
  BY <1>1, HoldArgsIs
<1>15. TakesArgs(b, f, c)
  BY <1>10, <1>12, <1>14 DEF CallAt
<1>16. PICK d : d = new[i]
  OBVIOUS
<1>17. /\ i \in DOMAIN new /\ d.key = f.key /\ d.name = e.name
       /\ f.kind = "args_delta" => d.args = e.args \o f.args /\ d.stage = e.stage
       /\ f.kind = "args_done" => d.args = f.args /\ d.stage = "filled"
  BY <1>6, <1>11, <1>12, <1>16 DEF Changes
<1>18. Stands(c, d)
  BY <1>2, <1>12, <1>13, <1>15, <1>17, TakenStands
<1>19. Tracked(calls', new)
  <2> SUFFICES ASSUME NEW k \in DOMAIN calls'
               PROVE  \E j \in DOMAIN new : new[j].key = k /\ Stands(calls'[k], new[j])
    BY DEF Tracked
  <2>1. CASE k = f.key
    BY <1>14, <1>16, <1>17, <1>18, <2>1 DEF Holds
  <2>2. CASE k # f.key
    <3>1. k \in DOMAIN calls /\ calls'[k] = calls[k]
      BY <1>14, <2>2 DEF Holds
    <3>2. PICK j \in DOMAIN items : items[j].key = k /\ Stands(calls[k], items[j])
      BY <1>7, <3>1 DEF Tracked
    <3>3. j \in DOMAIN new /\ new[j] = items[j]
      BY <1>8, <2>2, <3>2
    <3> QED BY <3>1, <3>2, <3>3
  <2> QED BY <2>1, <2>2
<1>20. AllHeld(calls', new)
  <2> SUFFICES ASSUME NEW j \in DOMAIN new, new[j].stage # "done"
               PROVE  new[j].key \in DOMAIN calls'
    BY DEF AllHeld
  <2>1. CASE new[j].key = f.key
    BY <1>14, <2>1 DEF Holds
  <2>2. CASE new[j].key # f.key
    <3>1. new[j] = items[j] /\ j \in DOMAIN items
      BY <1>8, <2>2
    <3> QED BY <1>7, <1>14, <3>1 DEF AllHeld, Holds
  <2> QED BY <2>1, <2>2
<1> QED BY <1>2, <1>3, <1>4, <1>8, <1>19, <1>20

LEMMA CloseItemTurn ==
  ASSUME Basic, Onward, InTurn, NEW f \in CallFrame, NEW n \in Sizes, CloseItem(f, n)
  PROVE  InTurn'
<1>1. TypeOK /\ Named(calls, findings)
  BY DEF Basic
<1>2. /\ upstream'.orderly = upstream.orderly /\ phase' # "final"
      /\ f.kind = "item_done" /\ Receive(f)
  BY DEF Onward, CloseItem
<1> SUFFICES ASSUME upstream.orderly
             PROVE  /\ Listed(upstream'.items) /\ Tracked(calls', upstream'.items)
                    /\ AllHeld(calls', upstream'.items)
  BY <1>2 DEF InTurn
<1>3. /\ phase = "reading" /\ ~upstream.final
      /\ upstream'.items = ItemsAfter(f)
  BY <1>1, <1>2, ReceiveIs
<1>4. PICK new : new = upstream'.items
  OBVIOUS
<1>5. PICK items : items = upstream.items
  OBVIOUS
<1>6. Changes(items, f, new)
  BY <1>1, <1>2, <1>3, <1>4, <1>5, ChangedItem DEF TypeOK
<1>7. Listed(items) /\ Tracked(calls, items) /\ AllHeld(calls, items)
  BY <1>3, <1>5 DEF InTurn
<1>8. /\ Listed(new)
      /\ \A i \in DOMAIN items :
           items[i].key # f.key => i \in DOMAIN new /\ new[i] = items[i]
      /\ \A i \in DOMAIN new : i \in DOMAIN items /\ new[i].key = items[i].key
  BY <1>2, <1>6, <1>7, ChangedListed
<1>9. Removes(f.key, calls')
  BY <1>1, CloseItemIs DEF ClosedWith
<1>10. Tracked(calls', new)
  <2> SUFFICES ASSUME NEW k \in DOMAIN calls'
               PROVE  \E j \in DOMAIN new : new[j].key = k /\ Stands(calls'[k], new[j])
    BY DEF Tracked
  <2>1. k # f.key /\ k \in DOMAIN calls /\ calls'[k] = calls[k]
    BY <1>9 DEF Removes
  <2>2. PICK j \in DOMAIN items : items[j].key = k /\ Stands(calls[k], items[j])
    BY <1>7, <2>1 DEF Tracked
  <2>3. j \in DOMAIN new /\ new[j] = items[j]
    BY <1>8, <2>1, <2>2
  <2> QED BY <2>1, <2>2, <2>3
<1>11. AllHeld(calls', new)
  <2> SUFFICES ASSUME NEW j \in DOMAIN new, new[j].stage # "done"
               PROVE  new[j].key \in DOMAIN calls'
    BY DEF AllHeld
  <2>1. new[j].key # f.key
    BY <1>2, <1>6, <1>8 DEF Changes
  <2>2. new[j] = items[j] /\ j \in DOMAIN items
    BY <1>8, <2>1
  <2> QED BY <1>7, <1>9, <2>1, <2>2 DEF AllHeld, Removes
<1> QED BY <1>4, <1>8, <1>10, <1>11

LEMMA ItemsUnchanged ==
  ASSUME NEW f, f.kind \notin {"added", "args_delta", "args_done", "item_done"}
  PROVE  ItemsAfter(f) = upstream.items
BY DEF ItemsAfter

LEMMA TurnNext ==
  ASSUME Basic, Onward, InTurn, Next
  PROVE  InTurn'
<1>1. TypeOK /\ Named(calls, findings)
  BY DEF Basic
<1>2. ASSUME NEW f \in CallFrame, NEW n \in Sizes,
             AddCall(f, n) \/ HoldArgs(f, n) \/ CloseItem(f, n)
      PROVE  InTurn'
  BY <1>2, AddCallTurn, HoldArgsTurn, CloseItemTurn
<1>3. ASSUME NEW f \in OtherFrame, ForwardText(f) \/ ForwardError(f) \/ ForwardOther(f)
      PROVE  InTurn'
  <2>1. Receive(f) /\ calls' = calls /\ phase' # "final"
    BY <1>3 DEF ForwardText, ForwardError, ForwardOther, Proceed
  <2>2. f.kind \notin {"added", "args_delta", "args_done", "item_done"}
    BY OtherFrameIs
  <2>3. phase = "reading" /\ (upstream.orderly =>
          ~upstream.final /\ upstream'.items = upstream.items)
    BY <1>1, <2>1, <2>2, ReceiveIs, ItemsUnchanged
  <2> QED BY <2>1, <2>3, TurnStays
<1>4. ASSUME NEW f \in FinalFrames, StartFinal(f) PROVE InTurn'
  <2>1. Receive(f) /\ calls' = calls /\ phase' = "final"
    BY <1>4 DEF StartFinal
  <2>2. f.kind = "completed"
    BY <1>1, FinalFrameIs
  <2>3. upstream.orderly => upstream'.final /\ upstream'.items = upstream.items
    BY <1>1, <2>1, <2>2, ReceiveIs, ItemsUnchanged
  <2> QED BY <2>1, <2>3, TurnStays
<1>5. CASE ResolveListed
  <2>1. phase = "final" /\ phase' # "reading" /\ upstream' = upstream
    BY <1>5 DEF ResolveListed, InFinal
  <2>2. \A k \in DOMAIN calls' : k \in DOMAIN calls /\ calls'[k] = calls[k]
    BY <1>1, <1>5, ResolveListedIs DEF ResolvedNow, Removes
  <2> QED BY <2>1, <2>2, TurnStays DEF InTurn
<1>6. CASE InspectListed
  <2>1. phase = "final" /\ phase' # "reading" /\ upstream' = upstream /\ calls' = calls
    BY <1>6 DEF InspectListed, InFinal
  <2> QED BY <2>1, TurnStays DEF InTurn
<1>7. CASE ForwardFinal
  <2>1. phase = "final" /\ phase' # "final" /\ upstream' = upstream /\ calls' = calls
    BY <1>7 DEF ForwardFinal, Proceed
  <2> QED BY <2>1, TurnStays DEF InTurn
<1>8. CASE OnOversized
  <2>1. phase' = "closing" /\ upstream' = upstream /\ calls' = <<>>
    BY <1>8 DEF OnOversized
  <2>2. DOMAIN calls' = {}
    BY <2>1, NoCalls
  <2> QED BY <2>1, <2>2, TurnStays
<1>9. CASE UpstreamEnds
  BY <1>9, TurnStays DEF UpstreamEnds
<1>10. CASE Close
  <2>1. phase' = "done" /\ upstream' = upstream /\ (calls' = calls \/ calls' = <<>>)
    BY <1>10 DEF Close
  <2>2. \A k \in DOMAIN calls' : k \in DOMAIN calls /\ calls'[k] = calls[k]
    BY <2>1, NoCalls
  <2> QED BY <2>1, <2>2, TurnStays
<1>11. CASE ResolveOpen
  <2>1. phase' = "closing" /\ upstream' = upstream
    BY <1>11 DEF ResolveOpen, Resolving
  <2>2. \A k \in DOMAIN calls' : k \in DOMAIN calls /\ calls'[k] = calls[k]
    BY <1>1, <1>11, ResolveOpenIs DEF ResolvedNow, Removes
  <2> QED BY <2>1, <2>2, TurnStays
<1> QED BY <1>2, <1>3, <1>4, <1>5, <1>6, <1>7, <1>8, <1>9, <1>10, <1>11 DEF Next, OnEvent

-----------------------------------------------------------------------------
(* The items of the final frame *)

\* The call a listed item stands for is the one streamed in its place.
LEMMA MatchIsNext ==
  ASSUME TypeOK, Named(calls, findings), InTurn, Judged, upstream.orderly, ResolveListed
  PROVE  /\ Match \in DOMAIN calls /\ final.next \in DOMAIN upstream.items
         /\ upstream.items[final.next].key = Match
         /\ Stands(calls[Match], upstream.items[final.next])
         /\ Reports(final.frame.items, upstream.items)
<1>1. InFinal /\ phase = "final"
  BY DEF ResolveListed, InFinal
<1>2. PICK k : k = Match
  OBVIOUS
<1>3. PICK n : n = final.next
  OBVIOUS
<1>4. PICK items : items = upstream.items
  OBVIOUS
<1>5. PICK list : list = final.frame.items
  OBVIOUS
<1>6. k \in DOMAIN calls /\ k \in {NextItem.id, n - 1} /\ k \in Key
  BY <1>2, <1>3, ResolveListedIs DEF ResolvedNow, TypeOK, CallsTyped
<1>7. n \in 1..Len(list) /\ list \in Seq(ListItem) /\ NextItem = list[n]
  BY <1>1, <1>3, <1>5, InFinalIs DEF NextItem, FinalFrame
<1>8. Listed(items) /\ Tracked(calls, items) /\ items \in Seq(StreamItem)
  BY <1>4 DEF InTurn, TypeOK, Upstreams
<1>9. PICK i \in DOMAIN items : items[i].key = k /\ Stands(calls[k], items[i])
  BY <1>6, <1>8 DEF Tracked
<1>10. Reports(list, items)
  <2>1. items # <<>>
    BY <1>9
  <2> QED BY <1>1, <1>4, <1>5, <2>1 DEF Judged
<1>11. n \in DOMAIN items /\ i \in Nat
  BY <1>7, <1>8, <1>10 DEF Reports
<1>12. k # NoId
  BY <1>6, IdAssumption DEF Key, OutputIndex
<1>13. i = n
  <2>1. CASE k = NextItem.id
    <3>1. items[n].key = k
      BY <1>7, <1>10, <1>11, <1>12, <2>1 DEF Reports
    <3> QED BY <1>8, <1>9, <1>11, <3>1 DEF Listed
  <2>2. CASE k = n - 1
    <3>1. k \in Nat /\ k \notin Id
      BY <1>7, <2>2, IdAssumption
    <3>2. k = i - 1
      BY <1>8, <1>9, <3>1 DEF Listed
    <3> QED BY <1>7, <1>11, <2>2, <3>2
  <2> QED BY <1>6, <2>1, <2>2
<1> QED BY <1>2, <1>3, <1>4, <1>5, <1>6, <1>9, <1>10, <1>11, <1>13

\* What is judged item by item: list, next item, calls that are left.
JudgedTo(list, n, cs) ==
  /\ n <= Len(list) + 1
  /\ upstream.items # <<>> => Reports(list, upstream.items)
  /\ \A i \in 1..(n - 1) : Acceptable(list[i].name, list[i].args)
  /\ KeepsIds(list) =>
       \A k \in DOMAIN cs : \E i \in DOMAIN upstream.items :
         upstream.items[i].key = k /\ i >= n

LEMMA JudgedIs ==
  ASSUME Judged, upstream.orderly, phase = "final"
  PROVE  JudgedTo(final.frame.items, final.next, calls)
BY DEF Judged, JudgedTo

LEMMA JudgedNow ==
  ASSUME Onward, upstream'.items = upstream.items, NEW list, list = final'.frame.items,
         NEW n, n = final'.next, NEW cs, cs = calls', JudgedTo(list, n, cs)
  PROVE  Judged'
BY DEF Onward, Judged, JudgedTo, KeepsIds, Acceptable

\* One more item: the call is left, or is no call at all.
LEMMA OneMore ==
  ASSUME NEW list, NEW n \in 1..Len(list), JudgedTo(list, n, calls), Len(list) \in Nat,
         Acceptable(list[n].name, list[n].args), upstream.items \in Seq(StreamItem),
         NEW cs, DOMAIN cs \subseteq DOMAIN calls,
         KeepsIds(list) /\ n \in DOMAIN upstream.items =>
           upstream.items[n].key \notin DOMAIN cs
  PROVE  JudgedTo(list, n + 1, cs)
<1>1. n + 1 <= Len(list) + 1
  OBVIOUS
<1>2. \A i \in 1..((n + 1) - 1) : Acceptable(list[i].name, list[i].args)
  <2>1. \A i \in 1..((n + 1) - 1) : i \in 1..(n - 1) \/ i = n
    OBVIOUS
  <2> QED BY <2>1 DEF JudgedTo
<1>3. ASSUME KeepsIds(list), NEW k \in DOMAIN cs
      PROVE  \E i \in DOMAIN upstream.items : upstream.items[i].key = k /\ i >= n + 1
  <2>1. PICK i \in DOMAIN upstream.items : upstream.items[i].key = k /\ i >= n
    BY <1>3 DEF JudgedTo
  <2>2. i # n
    BY <1>3, <2>1
  <2>3. i >= n + 1
    BY <2>1, <2>2
  <2> QED BY <2>1, <2>3
<1> QED BY <1>1, <1>2, <1>3 DEF JudgedTo

LEMMA StartFinalJudged ==
  ASSUME Basic, Onward, InTurn, NEW f \in FinalFrames, StartFinal(f)
  PROVE  Judged'
<1>1. TypeOK /\ upstream'.orderly = upstream.orderly
  BY DEF Basic, Onward
<1> SUFFICES ASSUME upstream.orderly PROVE Judged'
  BY <1>1 DEF Judged
<1>2. Receive(f) /\ final' = [frame |-> f, next |-> 1] /\ calls' = calls
  BY DEF StartFinal
<1>3. /\ f \in FinalFrame /\ f.kind = "completed"
      /\ upstream.items # <<>> => Reports(f.items, upstream.items)
  BY <1>1, FinalFrameIs
<1>4. upstream'.items = upstream.items
  BY <1>1, <1>2, <1>3, ReceiveIs, ItemsUnchanged
<1>5. f.items \in Seq(ListItem) /\ upstream.items \in Seq(StreamItem)
  BY <1>1, <1>3 DEF FinalFrame, TypeOK, Upstreams
<1>6. JudgedTo(f.items, 1, calls)
  <2>1. 1 <= Len(f.items) + 1 /\ 1..(1 - 1) = {}
    BY <1>5
  <2>2. \A k \in DOMAIN calls : \E i \in DOMAIN upstream.items :
          upstream.items[i].key = k /\ i >= 1
    BY <1>5 DEF InTurn, Tracked
  <2> QED BY <1>3, <2>1, <2>2 DEF JudgedTo
<1>7. PICK list : list = f.items
  OBVIOUS
<1>8. PICK cs : cs = calls'
  OBVIOUS
<1>9. list = final'.frame.items /\ 1 = final'.next /\ JudgedTo(list, 1, cs)
  BY <1>2, <1>6, <1>7, <1>8
<1> QED BY <1>4, <1>8, <1>9, JudgedNow

LEMMA ResolveListedJudged ==
  ASSUME Basic, Onward, InTurn, Judged, ResolveListed
  PROVE  Judged'
<1>1. TypeOK /\ Named(calls, findings) /\ upstream'.orderly = upstream.orderly
  BY DEF Basic, Onward
<1> SUFFICES ASSUME upstream.orderly, phase' = "final" PROVE Judged'
  BY <1>1 DEF Judged
<1>2. /\ InFinal /\ phase = "final" /\ upstream' = upstream
      /\ final' = [final EXCEPT !.next = final.next + 1]
      /\ ~Drops(calls[Match], findings)
  BY DEF ResolveListed, InFinal, Advance, Returned
<1>3. PICK k : k = Match
  OBVIOUS
<1>4. PICK c : c = calls[k]
  OBVIOUS
<1>5. PICK n : n = final.next
  OBVIOUS
<1>6. PICK list : list = final.frame.items
  OBVIOUS
<1>7. PICK e : e = upstream.items[n]
  OBVIOUS
<1>8. CallLike(c) /\ (Declared(c.name) \/ IsHigh(findings)) /\ Removes(k, calls')
  BY <1>1, <1>3, <1>4, ResolveListedIs DEF ResolvedNow
<1>9. Clean(c) /\ ~c.oversized
  BY <1>2, <1>3, <1>4, <1>8, DropsIs
<1>10. /\ n \in DOMAIN upstream.items /\ e.key = k /\ Stands(c, e)
       /\ Reports(list, upstream.items)
  BY <1>1, <1>3, <1>4, <1>5, <1>6, <1>7, MatchIsNext
<1>11. list[n].name = c.name /\ list[n].args = c.args
  BY <1>7, <1>9, <1>10 DEF Stands, Reports
<1>12. Acceptable(list[n].name, list[n].args)
  BY <1>9, <1>11 DEF Clean, Acceptable
<1>13. n \in 1..Len(list) /\ list \in Seq(ListItem) /\ upstream.items \in Seq(StreamItem)
  BY <1>1, <1>2, <1>5, <1>6, InFinalIs DEF FinalFrame, TypeOK, Upstreams
<1>14. PICK cs : cs = calls'
  OBVIOUS
<1>15. DOMAIN cs \subseteq DOMAIN calls /\ upstream.items[n].key \notin DOMAIN cs
  BY <1>7, <1>8, <1>10, <1>14 DEF Removes
<1>16. JudgedTo(list, n, calls)
  BY <1>2, <1>5, <1>6, JudgedIs
<1>17. JudgedTo(list, n + 1, cs)
  BY <1>12, <1>13, <1>15, <1>16, OneMore
<1>18. PICK m : m = n + 1
  OBVIOUS
<1>19. list = final'.frame.items /\ m = final'.next
  BY <1>1, <1>2, <1>5, <1>6, <1>18 DEF TypeOK
<1> QED BY <1>2, <1>14, <1>17, <1>18, <1>19, JudgedNow

LEMMA InspectListedJudged ==
  ASSUME Basic, Onward, InTurn, Judged, InspectListed
  PROVE  Judged'
<1>1. TypeOK /\ upstream'.orderly = upstream.orderly
  BY DEF Basic, Onward
<1> SUFFICES ASSUME upstream.orderly, phase' = "final" PROVE Judged'
  BY <1>1 DEF Judged
<1>2. /\ InFinal /\ phase = "final" /\ upstream' = upstream /\ calls' = calls
      /\ final' = [final EXCEPT !.next = final.next + 1]
      /\ ~InlineDrops(NextItem) /\ Matches = {}
  BY DEF InspectListed, InFinal, Advance
<1>3. PICK n : n = final.next
  OBVIOUS
<1>4. PICK list : list = final.frame.items
  OBVIOUS
<1>5. /\ n \in 1..Len(list) /\ list \in Seq(ListItem) /\ upstream.items \in Seq(StreamItem)
      /\ NextItem = list[n]
  BY <1>1, <1>2, <1>3, <1>4, InFinalIs DEF FinalFrame, TypeOK, Upstreams, NextItem
<1>6. Acceptable(list[n].name, list[n].args)
  BY <1>2, <1>5, InlineIs
<1>7. list[n].id \notin DOMAIN calls /\ n - 1 \notin DOMAIN calls
  BY <1>2, <1>3, <1>5 DEF Matches, Pending
<1>8. KeepsIds(list) /\ n \in DOMAIN upstream.items =>
        upstream.items[n].key \notin DOMAIN calls
  <2> SUFFICES ASSUME KeepsIds(list), n \in DOMAIN upstream.items
               PROVE  upstream.items[n].key \notin DOMAIN calls
    OBVIOUS
  <2>1. upstream.items[n].key \in Id \cup {n - 1}
    BY DEF InTurn, Listed
  <2>2. upstream.items[n].key \in Id => list[n].id = upstream.items[n].key
    BY DEF KeepsIds
  <2> QED BY <1>7, <2>1, <2>2
<1>9. JudgedTo(list, n, calls)
  BY <1>2, <1>3, <1>4, JudgedIs
<1>10. JudgedTo(list, n + 1, calls)
  BY <1>5, <1>6, <1>8, <1>9, OneMore
<1>11. PICK m : m = n + 1
  OBVIOUS
<1>12. PICK cs : cs = calls'
  OBVIOUS
<1>13. list = final'.frame.items /\ m = final'.next /\ JudgedTo(list, m, cs)
  BY <1>1, <1>2, <1>3, <1>4, <1>10, <1>11, <1>12 DEF TypeOK
<1> QED BY <1>2, <1>12, <1>13, JudgedNow

LEMMA JudgedNext ==
  ASSUME Basic, Onward, InTurn, Judged, Next
  PROVE  Judged'
<1>1. TypeOK
  BY DEF Basic
<1>2. ASSUME phase' # "final" PROVE Judged'
  BY <1>2 DEF Judged
<1>3. ASSUME NEW f \in CallFrame, NEW n \in Sizes,
             AddCall(f, n) \/ HoldArgs(f, n) \/ CloseItem(f, n)
      PROVE  phase' # "final"
  <2>1. phase = "reading"
    BY <1>1, <1>3, ReceiveIs DEF AddCall, HoldArgs, CloseItem
  <2> QED BY <1>3, <2>1 DEF AddCall, HoldArgs, CloseItem
<1>4. ASSUME NEW f \in OtherFrame, ForwardText(f) \/ ForwardError(f) \/ ForwardOther(f)
      PROVE  phase' # "final"
  BY <1>4 DEF ForwardText, ForwardError, ForwardOther, Proceed
<1>5. ASSUME NEW f \in FinalFrames, StartFinal(f) PROVE Judged'
  BY <1>5, StartFinalJudged
<1>6. CASE ForwardFinal \/ OnOversized \/ UpstreamEnds \/ Close \/ ResolveOpen
  <2>1. phase' # "final"
    BY <1>6 DEF ForwardFinal, Proceed, OnOversized, UpstreamEnds, Close, ResolveOpen, Resolving
  <2> QED BY <1>2, <2>1
<1> QED BY <1>2, <1>3, <1>4, <1>5, <1>6, ResolveListedJudged, InspectListedJudged
        DEF Next, OnEvent

-----------------------------------------------------------------------------
(* After the final frame *)

\* The final frame of an orderly upstream finds no call left, if it kept the ids.
LEMMA NoneLeft ==
  ASSUME TypeOK, InTurn, Judged, upstream.orderly, phase = "final", ~InFinal,
         KeepsIds(final.frame.items)
  PROVE  DOMAIN calls = {}
<1>1. PICK list : list = final.frame.items
  OBVIOUS
<1>2. PICK n : n = final.next
  OBVIOUS
<1>3. list \in Seq(ListItem) /\ n \in Nat /\ upstream.items \in Seq(StreamItem) /\ n > Len(list)
  <2>1. final.frame.items \in Seq(ListItem) /\ final.next \in Nat
    BY DEF TypeOK, FinalFrame
  <2>2. upstream.items \in Seq(StreamItem)
    BY DEF TypeOK, Upstreams
  <2>3. ~(final.next <= Len(final.frame.items))
    BY DEF InFinal
  <2> QED BY <1>1, <1>2, <2>1, <2>2, <2>3
<1>4. JudgedTo(list, n, calls)
  BY <1>1, <1>2, JudgedIs
<1> SUFFICES ASSUME NEW k \in DOMAIN calls PROVE FALSE
  OBVIOUS
<1>5. PICK i \in DOMAIN upstream.items : upstream.items[i].key = k /\ i >= n
  BY <1>1, <1>4 DEF JudgedTo
<1>6. Reports(list, upstream.items)
  <2>1. upstream.items # <<>>
    BY <1>5
  <2> QED BY <1>4, <2>1 DEF JudgedTo
<1>7. i <= Len(list)
  BY <1>3, <1>5, <1>6 DEF Reports
<1> QED BY <1>3, <1>5, <1>7

\* Once the final frame is out only the end is left.
LEMMA AfterFinal ==
  ASSUME TypeOK, upstream.orderly, upstream.final, phase # "final", Next
  PROVE  UpstreamEnds \/ ResolveOpen \/ Close
<1>1. \A f \in CallFrame : ~Receive(f)
  BY ReceiveIs
<1>2. \A f \in OtherFrame : ~Receive(f)
  BY ReceiveIs, OtherFrameIs
<1>3. \A f \in FinalFrames : ~Receive(f)
  BY ReceiveIs, FinalFrameIs
<1>4. ~OnEvent
  BY <1>1, <1>2, <1>3 DEF OnEvent, AddCall, HoldArgs, CloseItem, ForwardText, ForwardError,
                         ForwardOther, StartFinal
<1>5. ~ResolveListed /\ ~InspectListed /\ ~ForwardFinal /\ ~OnOversized
  BY DEF ResolveListed, InspectListed, InFinal, ForwardFinal, OnOversized
<1> QED BY <1>4, <1>5 DEF Next

LEMMA FinishedNext ==
  ASSUME Basic, Onward, ErrorIsLast, InTurn, Judged, Finished, Next
  PROVE  Finished'
<1>1. TypeOK /\ upstream'.orderly = upstream.orderly
  BY DEF Basic, Onward
<1> SUFFICES ASSUME upstream.orderly, NEW p \in DOMAIN out', out'[p].kind = "completed"
             PROVE  /\ upstream'.final /\ phase' # "final"
                    /\ KeepsIds(out[p].items)' => DOMAIN calls' = {} /\ p = Len(out')
  BY <1>1 DEF Finished
<1>2. PICK frames : Fits(frames)
  BY StepFits
<1>3. PICK k \in Nat : Adds(frames, k)
  BY <1>2 DEF Fits
<1>4. frames \in Seq(OutFrame) /\ CallsFit(frames)
  BY <1>2 DEF Fits
<1>5. PICK m : m = Len(out)
  OBVIOUS
<1>6. /\ k \in 0..Len(frames) /\ m \in Nat /\ out \in Seq(OutFrame)
      /\ out' \in Seq(OutFrame) /\ Len(out') = m + k
      /\ \A q \in 1..m : out'[q] = out[q]
      /\ \A j \in 1..k : out'[m + j] = frames[j]
  <2>1. Joins(frames, k, m)
    BY <1>1, <1>3, <1>5, AddsFrames
  <2> QED BY <2>1 DEF Joins
<1>7. p \in 1..(m + k) /\ DOMAIN out = 1..m
  BY <1>5, <1>6
<1>8. CASE p <= m
  <2>1. p \in DOMAIN out /\ out'[p] = out[p]
    BY <1>6, <1>7, <1>8
  <2>2. /\ upstream.final /\ phase # "final"
        /\ KeepsIds(out[p].items) => DOMAIN calls = {} /\ p = Len(out)
    BY <2>1 DEF Finished
  <2>3. UpstreamEnds \/ ResolveOpen \/ Close
    BY <1>1, <2>2, AfterFinal
  <2>4. upstream' = upstream /\ phase' # "final"
    BY <2>3 DEF UpstreamEnds, ResolveOpen, Resolving, Close
  <2>5. ASSUME KeepsIds(out[p].items)' PROVE DOMAIN calls' = {} /\ p = Len(out')
    <3>1. KeepsIds(out[p].items)
      BY <2>1, <2>4, <2>5 DEF KeepsIds
    <3>2. DOMAIN calls = {} /\ p = Len(out)
      BY <2>2, <3>1
    <3>3. UpstreamEnds \/ Close
      BY <2>3, <3>2 DEF ResolveOpen, Resolving
    <3>4. out' = out /\ (calls' = calls \/ calls' = <<>>)
      BY <3>3 DEF UpstreamEnds, Close, stateVars
    <3> QED BY <3>2, <3>4, NoCalls
  <2> QED BY <2>2, <2>4, <2>5
<1>9. CASE p > m
  <2>1. PICK j : j = p - m
    OBVIOUS
  <2>2. j \in 1..k /\ p = m + j
    BY <1>6, <1>7, <1>9, <2>1
  <2>3. out'[p] = frames[j] /\ j \in DOMAIN frames
    BY <1>4, <1>6, <2>2
  <2>4. frames = <<final.frame>> /\ ForwardFinal
    BY <1>4, <2>3 DEF CallsFit
  <2>5. out'[p] = final.frame /\ p = Len(out')
    <3>1. Len(frames) = 1
      BY <2>4
    <3>2. j = 1 /\ k = 1
      BY <1>6, <2>2, <3>1
    <3> QED BY <1>6, <2>2, <2>3, <2>4, <3>2
  <2>6. phase = "final" /\ ~InFinal /\ phase' # "final" /\ upstream' = upstream /\ calls' = calls
    BY <2>4 DEF ForwardFinal, Proceed
  <2>7. upstream.final
    BY <2>6 DEF InTurn
  <2>8. ASSUME KeepsIds(out[p].items)' PROVE DOMAIN calls' = {}
    <3>1. KeepsIds(final.frame.items)
      BY <2>5, <2>6, <2>8 DEF KeepsIds
    <3> QED BY <1>1, <2>6, <3>1, NoneLeft
  <2> QED BY <2>5, <2>6, <2>7, <2>8
<1> QED BY <1>6, <1>7, <1>8, <1>9

-----------------------------------------------------------------------------
(* The invariant *)

LEMMA InitIs ==
  ASSUME Init
  PROVE  IInv
<1>1. /\ declaredTools \in SUBSET ToolName /\ findings = {} /\ sawTool = FALSE
      /\ blocked = FALSE /\ out = <<>> /\ failed = FALSE /\ phase = "reading"
      /\ calls = <<>> /\ final = [frame |-> Completed(<<>>), next |-> 1]
      /\ dropped = FALSE /\ stopped = FALSE /\ terminated = FALSE /\ text = <<>>
      /\ opened = 0 /\ ledger = <<>>
  BY DEF Init, StateInit
<1>2. PICK orderly \in BOOLEAN : upstream = UpstreamInit(orderly)
  BY DEF Init
<1>3. DOMAIN calls = {} /\ DOMAIN ledger = {} /\ DOMAIN out = {}
  BY <1>1
<1>4. PICK none : none = <<>>
  OBVIOUS
<1>5. none \in Seq(ListItem) /\ none \in Seq(StreamItem) /\ DOMAIN none = {}
  BY <1>4
<1>6. final \in [frame : FinalFrame, next : Nat \ {0}]
  <2>1. Completed(none) \in FinalFrame
    BY <1>5, CompletedIs
  <2>2. final = [frame |-> Completed(none), next |-> 1]
    BY <1>1, <1>4
  <2> QED BY <2>1, <2>2
<1>7. upstream \in Upstreams /\ upstream.items = none
  BY <1>2, <1>4, <1>5 DEF UpstreamInit, Upstreams
<1>8. CallsTyped(calls) /\ LedgerTyped(ledger)
  BY <1>3 DEF CallsTyped, LedgerTyped
<1>9. out \in Seq(OutFrame) /\ text \in Seq(Frag)
  BY <1>1
<1>10. TypeOK
  BY <1>1, <1>6, <1>7, <1>8, <1>9 DEF TypeOK
<1>11. Serials(calls, opened, ledger) /\ Named(calls, findings)
  BY <1>3 DEF Serials, Named
<1>12. Remembered
  BY <1>1, <1>3 DEF Remembered, IsDropped
<1>13. ErrorIsLast
  BY <1>3 DEF ErrorIsLast, HasError, NoFrameAfterError
<1>14. InTurn
  BY <1>1, <1>3, <1>5, <1>7 DEF InTurn, Listed, Tracked, AllHeld
<1>15. Judged /\ Finished /\ SentCallsVerified
  BY <1>1, <1>3 DEF Judged, Finished, SentCallsVerified
<1> QED BY <1>10, <1>11, <1>12, <1>13, <1>14, <1>15 DEF IInv

LEMMA StepIs ==
  ASSUME IInv, Next
  PROVE  IInv' /\ Onward
<1>1. /\ Basic /\ ErrorIsLast /\ InTurn /\ Judged /\ Finished /\ SentCallsVerified
  BY DEF IInv, Basic
<1>2. Basic' /\ Onward
  BY <1>1, BasicNext
<1>3. ErrorIsLast' /\ InTurn' /\ Judged' /\ Finished' /\ SentCallsVerified'
  BY <1>1, <1>2, ErrorKept, TurnNext, JudgedNext, FinishedNext, VerifiedKept
<1> QED BY <1>2, <1>3 DEF IInv, Basic

LEMMA StutterIs ==
  ASSUME IInv, UNCHANGED vars
  PROVE  IInv'
<1>1. UNCHANGED <<declaredTools, findings, sawTool, blocked, out, failed, phase, calls, final,
                  stopped, terminated, dropped, text, upstream, opened, ledger>>
  BY DEF vars, stateVars, loopVars, history
<1>2. TypeOK'
  BY <1>1 DEF IInv, TypeOK
<1>3. Serials(calls, opened, ledger)' /\ Named(calls, findings)' /\ Remembered'
  BY <1>1 DEF IInv, Serials, Named, Declared, Remembered, IsDropped
<1>4. ErrorIsLast' /\ InTurn' /\ Judged' /\ Finished' /\ SentCallsVerified'
  BY <1>1 DEF IInv, ErrorIsLast, HasError, IsBlocked, Bad, NoFrameAfterError, InTurn, Judged,
              Finished, SentCallsVerified, Acceptable, KeepsIds
<1> QED BY <1>2, <1>3, <1>4 DEF IInv

\* Every behaviour of the handler keeps the invariant.
LEMMA Inductive == Spec => []IInv
<1>1. IInv /\ [Next]_vars => IInv'
  BY StepIs, StutterIs
<1> QED BY InitIs, <1>1, PTL DEF Spec

-----------------------------------------------------------------------------
(* Theorems *)

\* The state of the handler: frames written, withheld calls, the size of each
\* within its cap, the final frame and the history (responses.go:63-107, 127-152).
THEOREM TypesHold == Spec => []TypeOK
<1>1. IInv => TypeOK
  BY DEF IInv
<1> QED BY <1>1, Inductive, PTL

\* When the upstream is orderly, every call a client reads, item by item or in the
\* final frame, has a declared name and arguments without the high-severity
\* signature (responses.go:170-172, 305-345).
THEOREM CallsAreVerified == Spec => []SentCallsVerified
<1>1. IInv => SentCallsVerified
  BY DEF IInv
<1> QED BY <1>1, Inductive, PTL

\* Whatever the upstream sends, no frame follows the error event: neither a later
\* frame, nor a withheld call that is resolved at the end (responses.go:167-176).
THEOREM NothingAfterError == Spec => []NoFrameAfterError
<1>1. IInv => NoFrameAfterError
  BY DEF IInv, ErrorIsLast
<1> QED BY <1>1, Inductive, PTL

\* A response.completed that kept the ids of the items is the last frame of an
\* orderly response: no withheld call is resolved after it (responses.go:305-351).
THEOREM CompletedComesLast == Spec => []CompletedIsLast
<1>1. IInv => CompletedIsLast
  BY DEF IInv, Finished, CompletedIsLast
<1> QED BY <1>1, Inductive, PTL

-----------------------------------------------------------------------------
(* The calls of an orderly upstream are held, released only when clean, settled *)
(* for good and reported                                                        *)

HIds(cs)      == {cs[k].serial : k \in DOMAIN cs}
FIds(l, fate) == {s \in DOMAIN l : l[s].fate = fate}
TIds(cs, l)   ==
  {s \in DOMAIN l : ~l[s].clean} \cup {cs[k].serial : k \in {j \in DOMAIN cs : ~Clean(cs[j])}}

\* What may become of the calls in one step.
Moves(h, f, d, t, hh, ff, dd, tt) ==
  /\ hh \subseteq Nat /\ ff \subseteq Nat /\ dd \subseteq Nat
  /\ f \subseteq ff /\ d \subseteq dd /\ h \subseteq hh \cup ff \cup dd
  /\ hh \cap ff = {} /\ hh \cap dd = {} /\ ff \cap dd = {}
  /\ t \subseteq tt /\ tt \subseteq hh \cup ff \cup dd
  /\ (tt \ t) \cap (f \cup d) = {} /\ (ff \ f) \cap tt = {}

\* A call stays, no cleaner than it was, or is entered as it was judged.
Stays(c, cs)  == \E j \in DOMAIN cs : cs[j].serial = c.serial /\ (Clean(cs[j]) => Clean(c))
Settles(c, l) == c.serial \in DOMAIN l /\ (l[c.serial].clean => Clean(c))

Follows(cs, l) ==
  /\ \A s \in DOMAIN ledger : s \in DOMAIN l /\ l[s] = ledger[s]
  /\ \A s \in DOMAIN l \ DOMAIN ledger : l[s].fate = "sent" => l[s].clean
  /\ \A k \in DOMAIN calls : Stays(calls[k], cs) \/ Settles(calls[k], l)

LEMMA FollowsMoves ==
  ASSUME TypeOK, NEW cs, CallsTyped(cs), NEW l, LedgerTyped(l), NEW n, Serials(cs, n, l),
         Follows(cs, l)
  PROVE  Moves(HIds(calls), FIds(ledger, "sent"), FIds(ledger, "dropped"), TIds(calls, ledger),
               HIds(cs), FIds(l, "sent"), FIds(l, "dropped"), TIds(cs, l))
<1>1. /\ DOMAIN l \subseteq Nat /\ \A s \in DOMAIN l : l[s].fate \in {"sent", "dropped"}
  BY DEF LedgerTyped, Resolved
<1>2. \A k \in DOMAIN cs : cs[k].serial \in Nat /\ cs[k].serial \notin DOMAIN l
  BY DEF CallsTyped, HeldCall, Serials
<1>3. DOMAIN l = FIds(l, "sent") \cup FIds(l, "dropped")
  BY <1>1 DEF FIds
<1>4. HIds(cs) \subseteq Nat /\ HIds(cs) \cap DOMAIN l = {}
  BY <1>2 DEF HIds
<1>5. FIds(l, "sent") \cap FIds(l, "dropped") = {}
  BY DEF FIds
<1>6. FIds(ledger, "sent") \subseteq FIds(l, "sent")
      /\ FIds(ledger, "dropped") \subseteq FIds(l, "dropped")
  BY DEF FIds, Follows
<1>7. HIds(calls) \subseteq HIds(cs) \cup DOMAIN l
  BY DEF HIds, Follows, Stays, Settles
<1>8. TIds(calls, ledger) \subseteq TIds(cs, l)
  <2>1. ASSUME NEW s \in DOMAIN ledger, ~ledger[s].clean PROVE s \in TIds(cs, l)
    BY <2>1 DEF Follows, TIds
  <2>2. ASSUME NEW k \in DOMAIN calls, ~Clean(calls[k]) PROVE calls[k].serial \in TIds(cs, l)
    <3>1. CASE Stays(calls[k], cs)
      <4>1. PICK j \in DOMAIN cs : cs[j].serial = calls[k].serial /\ ~Clean(cs[j])
        BY <2>2, <3>1 DEF Stays
      <4> QED BY <4>1 DEF TIds
    <3>2. CASE Settles(calls[k], l)
      BY <2>2, <3>2 DEF Settles, TIds
    <3> QED BY <3>1, <3>2 DEF Follows
  <2> QED BY <2>1, <2>2 DEF TIds
<1>9. TIds(cs, l) \subseteq HIds(cs) \cup DOMAIN l
  BY DEF TIds, HIds
<1>10. ASSUME NEW s \in DOMAIN ledger, s \in TIds(cs, l) PROVE s \in TIds(calls, ledger)
  <2>1. s \in DOMAIN l /\ l[s] = ledger[s]
    BY DEF Follows
  <2>2. ~l[s].clean
    BY <1>2, <1>10, <2>1 DEF TIds
  <2> QED BY <2>1, <2>2 DEF TIds
<1>11. ASSUME NEW s \in FIds(l, "sent"), s \notin FIds(ledger, "sent"), s \in TIds(cs, l)
       PROVE  FALSE
  <2>1. s \in DOMAIN l /\ l[s].fate = "sent"
    BY DEF FIds
  <2>2. s \notin DOMAIN ledger
    BY <1>11, <2>1 DEF FIds, Follows
  <2>3. l[s].clean
    BY <2>1, <2>2 DEF Follows
  <2> QED BY <1>2, <1>11, <2>1, <2>3 DEF TIds
<1>12. FIds(ledger, "sent") \cup FIds(ledger, "dropped") \subseteq DOMAIN ledger
  BY DEF FIds
<1> QED BY <1>1, <1>3, <1>4, <1>5, <1>6, <1>7, <1>8, <1>9, <1>10, <1>11, <1>12 DEF Moves

LEMMA HoldsFollows ==
  ASSUME NEW k, NEW c, NEW cs, Holds(k, c, cs), Pending(k) => c.serial = calls[k].serial,
         Pending(k) => (Clean(c) => Clean(calls[k]))
  PROVE  Follows(cs, ledger)
<1> SUFFICES ASSUME NEW j \in DOMAIN calls PROVE Stays(calls[j], cs)
  BY DEF Follows
<1>1. CASE j = k
  BY <1>1 DEF Holds, Pending, Stays
<1>2. CASE j # k
  BY <1>2 DEF Holds, Stays
<1> QED BY <1>1, <1>2

LEMMA RemovesFollows ==
  ASSUME TypeOK, Serials(calls, opened, ledger), NEW k \in DOMAIN calls, NEW c,
         NEW cs, cs = calls', Removes(k, cs),
         c.serial = calls[k].serial, Clean(c) => Clean(calls[k]), NEW fs,
         ~Drops(c, fs) => Clean(c), NEW l, l = ledger', Entered(c.serial, Clean(c), FateOf(c, fs))
  PROVE  Follows(cs, l)
<1>1. c.serial \notin DOMAIN ledger
  BY DEF Serials
<1>2. /\ DOMAIN l = DOMAIN ledger \cup {c.serial}
      /\ \A s \in DOMAIN ledger \ {c.serial} : l[s] = ledger[s]
      /\ l[c.serial].clean = Clean(c) /\ l[c.serial].fate = FateOf(c, fs)
  BY DEF Entered
<1>3. \A s \in DOMAIN ledger : s \in DOMAIN l /\ l[s] = ledger[s]
  BY <1>1, <1>2
<1>4. \A s \in DOMAIN l \ DOMAIN ledger : l[s].fate = "sent" => l[s].clean
  BY <1>2 DEF FateOf
<1>5. ASSUME NEW j \in DOMAIN calls PROVE Stays(calls[j], cs) \/ Settles(calls[j], l)
  <2>1. CASE j = k
    BY <1>2, <2>1 DEF Settles
  <2>2. CASE j # k
    BY <2>2 DEF Removes, Stays
  <2> QED BY <2>1, <2>2
<1> QED BY <1>3, <1>4, <1>5 DEF Follows

LEMMA LeftFollows ==
  ASSUME TypeOK, Serials(calls, opened, ledger), NEW s \in BOOLEAN, NEW l, Left(s, l)
  PROVE  Follows(<<>>, l)
<1>1. \A t \in DOMAIN ledger : t \in DOMAIN l /\ l[t] = ledger[t]
  BY DEF Left
<1>2. ASSUME NEW k \in DOMAIN calls
      PROVE  /\ calls[k].serial \in DOMAIN l /\ l[calls[k].serial].fate = "dropped"
             /\ l[calls[k].serial].clean => Clean(calls[k])
  BY DEF Left, Serials
<1>3. \A t \in DOMAIN l \ DOMAIN ledger : l[t].fate = "sent" => l[t].clean
  <2> SUFFICES ASSUME NEW t \in DOMAIN l, t \notin DOMAIN ledger PROVE l[t].fate = "dropped"
    OBVIOUS
  <2>1. PICK k \in DOMAIN calls : t = calls[k].serial
    BY DEF Left
  <2> QED BY <1>2, <2>1
<1> QED BY <1>1, <1>2, <1>3 DEF Follows, Settles

LEMMA SameFollows == Follows(calls, ledger)
BY DEF Follows, Stays

\* A call that is not clean stays so while the upstream is orderly.
LEMMA TakenClean ==
  ASSUME NEW b, NEW f, NEW c, TakesArgs(b, f, c), Clean(c)
  PROVE  Clean(b)
BY DEF TakesArgs, Clean

LEMMA ClosedClean ==
  ASSUME NEW b, NEW f, NEW c, Closes(b, f, c), Clean(c), f.name = b.name
  PROVE  Clean(b)
BY DEF Closes, Clean

LEMMA CallFollows ==
  ASSUME Basic, InTurn, upstream.orderly, NEW f \in CallFrame, NEW n \in Sizes,
         AddCall(f, n) \/ HoldArgs(f, n) \/ CloseItem(f, n),
         NEW cs, cs = calls', NEW l, l = ledger'
  PROVE  Follows(cs, l)
<1>1. /\ TypeOK /\ Named(calls, findings) /\ Serials(calls, opened, ledger)
      /\ f.key \in Key /\ NoName \in Name
  BY CallFrameIs DEF Basic, Name
<1>2. Receive(f)
  BY DEF AddCall, HoldArgs, CloseItem
<1>3. CASE AddCall(f, n)
  <2>1. PICK c \in HeldCall : Holds(f.key, c, cs)
    BY <1>1, <1>3, AddCallIs
  <2>2. l = ledger /\ f.kind = "added"
    BY <1>3 DEF AddCall
  <2>3. ~Pending(f.key)
    <3>1. phase = "reading" /\ ConformingCall(f) /\ Tracked(calls, upstream.items)
      BY <1>1, <1>2, ReceiveIs DEF InTurn
    <3>2. ItemsOf(f.key) = {}
      BY <2>2, <3>1 DEF ConformingCall
    <3> QED BY <3>1, <3>2 DEF ItemsOf, Pending, Tracked
  <2> QED BY <2>1, <2>2, <2>3, HoldsFollows
<1>4. CASE HoldArgs(f, n)
  <2>1. PICK c : TakesArgs(CallAt(f.key, NoName), f, c) /\ Holds(f.key, c, cs)
    BY <1>1, <1>4, HoldArgsIs
  <2>2. l = ledger /\ f.kind # "added"
    BY <1>4 DEF HoldArgs
  <2>3. PICK i : Known(f, i)
    BY <1>1, <1>2, <2>2, KnownCall
  <2>4. PICK b : b = calls[f.key]
    OBVIOUS
  <2>5. TakesArgs(b, f, c)
    BY <2>1, <2>3, <2>4 DEF CallAt, Known
  <2>6. Clean(c) => Clean(b)
    BY <2>5, TakenClean
  <2>7. c.serial = b.serial
    BY <2>5 DEF TakesArgs
  <2> QED BY <2>1, <2>2, <2>4, <2>6, <2>7, HoldsFollows
<1>5. CASE CloseItem(f, n)
  <2>1. PICK c, fs : ClosedWith(f, c, fs)
    BY <1>1, <1>5, CloseItemIs
  <2>2. f.kind = "item_done"
    BY <1>5 DEF CloseItem
  <2>3. PICK i : Known(f, i)
    BY <1>1, <1>2, <2>2, KnownCall
  <2>4. PICK b : b = calls[f.key]
    OBVIOUS
  <2>5. Closes(b, f, c)
    BY <2>1, <2>3, <2>4 DEF CallAt, Known, ClosedWith
  <2>6. f.name = b.name
    <3>1. ConformingCall(f)
      BY <1>1, <1>2, ReceiveIs
    <3> QED BY <2>2, <2>3, <2>4, <3>1 DEF ConformingCall, Known, Stands
  <2>7. Clean(c) => Clean(b)
    BY <2>5, <2>6, ClosedClean
  <2>8. /\ c.serial = b.serial /\ f.key \in DOMAIN calls
        /\ Removes(f.key, cs) /\ Entered(c.serial, Clean(c), FateOf(c, fs))
        /\ CallLike(c) /\ (Declared(c.name) \/ IsHigh(fs))
    BY <2>1, <2>3, <2>5 DEF Closes, ClosedWith, Known, Pending, Finalized
  <2>9. ~Drops(c, fs) => Clean(c)
    BY <2>8, DropsIs
  <2> QED BY <1>1, <2>4, <2>7, <2>8, <2>9, RemovesFollows
<1> QED BY <1>3, <1>4, <1>5

LEMMA NowFollows ==
  ASSUME Basic, NEW k, ResolvedNow(k), NEW cs, cs = calls', NEW l, l = ledger'
  PROVE  Follows(cs, l)
<1>1. TypeOK /\ Serials(calls, opened, ledger)
  BY DEF Basic
<1>2. PICK c : c = calls[k]
  OBVIOUS
<1>3. PICK fs : fs = findings
  OBVIOUS
<1>4. /\ k \in DOMAIN calls /\ CallLike(c) /\ (Declared(c.name) \/ IsHigh(fs))
      /\ Removes(k, cs) /\ Entered(c.serial, Clean(c), FateOf(c, fs))
  BY <1>2, <1>3 DEF ResolvedNow, Finalized
<1>5. ~Drops(c, fs) => Clean(c)
  BY <1>4, DropsIs
<1> QED BY <1>1, <1>2, <1>4, <1>5, RemovesFollows

LEMMA StepFollows ==
  ASSUME Basic, InTurn, upstream.orderly, Next, NEW cs, cs = calls', NEW l, l = ledger'
  PROVE  Follows(cs, l)
<1>1. TypeOK /\ Named(calls, findings) /\ Serials(calls, opened, ledger)
  BY DEF Basic
<1>2. ASSUME calls' = calls, ledger' = ledger PROVE Follows(cs, l)
  BY <1>2, SameFollows
<1>3. ASSUME NEW s \in BOOLEAN, calls' = <<>>, ledger' = Leave(s) PROVE Follows(cs, l)
  <2>1. Left(s, l)
    BY <1>1, <1>3, LeaveLeft
  <2>2. Follows(<<>>, l)
    BY <1>1, <2>1, LeftFollows
  <2> QED BY <1>3, <2>2
<1>4. ASSUME NEW f \in CallFrame, NEW n \in Sizes,
             AddCall(f, n) \/ HoldArgs(f, n) \/ CloseItem(f, n)
      PROVE  Follows(cs, l)
  BY <1>4, CallFollows
<1>5. ASSUME NEW f \in OtherFrame, ForwardText(f) \/ ForwardError(f) \/ ForwardOther(f)
      PROVE  Follows(cs, l)
  BY <1>2, <1>5 DEF ForwardText, ForwardError, ForwardOther, history
<1>6. ASSUME NEW f \in FinalFrames, StartFinal(f) PROVE Follows(cs, l)
  BY <1>2, <1>6 DEF StartFinal, history
<1>7. CASE ResolveListed
  BY <1>1, <1>7, ResolveListedIs, NowFollows
<1>8. CASE ResolveOpen
  BY <1>1, <1>8, ResolveOpenIs, NowFollows
<1>9. CASE InspectListed \/ ForwardFinal \/ UpstreamEnds
  BY <1>2, <1>9 DEF InspectListed, ForwardFinal, UpstreamEnds, history
<1>10. CASE OnOversized
  BY <1>3, <1>10 DEF OnOversized
<1>11. CASE Close
  BY <1>2, <1>3, <1>11 DEF Close
<1> QED BY <1>4, <1>5, <1>6, <1>7, <1>8, <1>9, <1>10, <1>11 DEF Next, OnEvent

\* The response ends with the last step, which leaves no call and reports the drops.
LEMMA EndsWith ==
  ASSUME IInv, Next, phase' = "done"
  PROVE  (DOMAIN calls' = {} \/ failed') /\ (dropped' => blocked')
<1>1. TypeOK /\ Remembered
  BY DEF IInv
<1>2. Close
  <2>1. ASSUME NEW f \in CallFrame, NEW n \in Sizes,
               AddCall(f, n) \/ HoldArgs(f, n) \/ CloseItem(f, n)
        PROVE  FALSE
    <3>1. phase = "reading"
      BY <1>1, <2>1, ReceiveIs DEF AddCall, HoldArgs, CloseItem
    <3> QED BY <2>1, <3>1 DEF AddCall, HoldArgs, CloseItem
  <2>2. ASSUME NEW f \in OtherFrame, ForwardText(f) \/ ForwardError(f) \/ ForwardOther(f)
        PROVE  FALSE
    BY <2>2 DEF ForwardText, ForwardError, ForwardOther, Proceed
  <2>3. ASSUME NEW f \in FinalFrames, StartFinal(f) PROVE FALSE
    BY <2>3 DEF StartFinal
  <2>4. ~ResolveListed /\ ~InspectListed /\ ~ForwardFinal /\ ~OnOversized /\ ~UpstreamEnds
        /\ ~ResolveOpen
    BY DEF ResolveListed, InspectListed, ForwardFinal, Proceed, OnOversized, UpstreamEnds,
           ResolveOpen, Resolving
  <2> QED BY <2>1, <2>2, <2>3, <2>4 DEF Next, OnEvent
<1>3. /\ ~Resolving /\ phase = "closing" /\ blocked' = (blocked \/ dropped)
      /\ dropped' = dropped /\ failed' = failed
      /\ dropped => calls' = <<>>
      /\ ~dropped => calls' = calls
  BY <1>2 DEF Close, loopVars
<1>4. dropped \in BOOLEAN /\ blocked \in BOOLEAN
  BY <1>1 DEF TypeOK
<1>5. CASE dropped
  BY <1>3, <1>5, NoCalls
<1>6. CASE ~dropped
  <2>1. DOMAIN calls = {} \/ failed
    BY <1>1, <1>3, <1>6 DEF Resolving, Remembered
  <2> QED BY <1>3, <1>6, <2>1
<1> QED BY <1>5, <1>6

LEMMA GuardInit ==
  ASSUME Init
  PROVE  Guard!Init
<1>1. DOMAIN calls = {} /\ DOMAIN ledger = {}
  BY DEF Init
<1>2. blocked = FALSE /\ failed = FALSE /\ (phase = "done") = FALSE
  BY DEF Init, StateInit
<1>3. Settled("sent") = {} /\ Settled("dropped") = {} /\ Tainted = {}
      /\ {calls[k].serial : k \in DOMAIN calls} = {}
  BY <1>1 DEF Settled, Tainted
<1> QED BY <1>2, <1>3 DEF Guard!Init, OfOrderly

\* The sets of the guard, now and in the next state.
LEMMA SetsAre ==
  /\ Settled("sent") = FIds(ledger, "sent") /\ Settled("dropped") = FIds(ledger, "dropped")
  /\ Tainted = TIds(calls, ledger) /\ {calls[k].serial : k \in DOMAIN calls} = HIds(calls)
BY DEF Settled, Tainted, FIds, TIds, HIds

LEMMA SetsBecome ==
  ASSUME declaredTools' = declaredTools, NEW cs, cs = calls', NEW l, l = ledger'
  PROVE  /\ Settled("sent")' = FIds(l, "sent") /\ Settled("dropped")' = FIds(l, "dropped")
         /\ Tainted' = TIds(cs, l) /\ {calls[k].serial : k \in DOMAIN calls}' = HIds(cs)
BY DEF Settled, Tainted, FIds, TIds, HIds, Clean

LEMMA GuardMoves ==
  ASSUME IInv, IInv', Onward, Next
  PROVE  Guard!Settle /\ Guard!Taint
<1>1. Basic /\ InTurn /\ TypeOK
  BY DEF IInv, Basic
<1>2. upstream'.orderly = upstream.orderly /\ declaredTools' = declaredTools
  BY DEF Onward
<1>3. PICK cs : cs = calls'
  OBVIOUS
<1>4. PICK l : l = ledger'
  OBVIOUS
<1>5. PICK n : n = opened'
  OBVIOUS
<1>6. CallsTyped(cs) /\ LedgerTyped(l) /\ Serials(cs, n, l)
  BY <1>3, <1>4, <1>5 DEF IInv, TypeOK
<1>7. CASE upstream.orderly
  <2>1. Follows(cs, l)
    BY <1>1, <1>3, <1>4, <1>7, StepFollows
  <2>2. Moves(HIds(calls), FIds(ledger, "sent"), FIds(ledger, "dropped"), TIds(calls, ledger),
              HIds(cs), FIds(l, "sent"), FIds(l, "dropped"), TIds(cs, l))
    BY <1>1, <1>6, <2>1, FollowsMoves
  <2>3. /\ \A s : OfOrderly(s) = s
        /\ \A s : (IF upstream'.orderly THEN s ELSE {}) = s
    BY <1>2, <1>7 DEF OfOrderly
  <2>4. /\ Settled("sent") = FIds(ledger, "sent") /\ Settled("dropped") = FIds(ledger, "dropped")
        /\ Tainted = TIds(calls, ledger) /\ {calls[k].serial : k \in DOMAIN calls} = HIds(calls)
        /\ Settled("sent")' = FIds(l, "sent") /\ Settled("dropped")' = FIds(l, "dropped")
        /\ Tainted' = TIds(cs, l) /\ {calls[k].serial : k \in DOMAIN calls}' = HIds(cs)
    BY <1>2, <1>3, <1>4, SetsAre, SetsBecome
  <2>5. /\ OfOrderly({calls[k].serial : k \in DOMAIN calls}) = HIds(calls)
        /\ OfOrderly(Settled("sent")) = FIds(ledger, "sent")
        /\ OfOrderly(Settled("dropped")) = FIds(ledger, "dropped")
        /\ OfOrderly(Tainted) = TIds(calls, ledger)
    BY <2>3, <2>4
  <2>6. /\ OfOrderly({calls[k].serial : k \in DOMAIN calls})' = HIds(cs)
        /\ OfOrderly(Settled("sent"))' = FIds(l, "sent")
        /\ OfOrderly(Settled("dropped"))' = FIds(l, "dropped")
        /\ OfOrderly(Tainted)' = TIds(cs, l)
    BY <1>2, <1>7, <2>4 DEF OfOrderly
  <2>7. Guard!Settle
    <3>1. Guard!Disjoint'
      BY <2>2, <2>6 DEF Moves, Guard!Disjoint
    <3>2. OfOrderly({calls[k].serial : k \in DOMAIN calls}) \subseteq Guard!Known'
      BY <2>2, <2>5, <2>6 DEF Moves, Guard!Known
    <3>3. /\ OfOrderly({calls[k].serial : k \in DOMAIN calls})' \subseteq Nat
          /\ OfOrderly(Settled("sent"))' \subseteq Nat
          /\ OfOrderly(Settled("dropped"))' \subseteq Nat
      BY <2>2, <2>6 DEF Moves
    <3>4. /\ OfOrderly(Settled("sent")) \subseteq OfOrderly(Settled("sent"))'
          /\ OfOrderly(Settled("dropped")) \subseteq OfOrderly(Settled("dropped"))'
      BY <2>2, <2>5, <2>6 DEF Moves
    <3> QED BY <3>1, <3>2, <3>3, <3>4 DEF Guard!Settle
  <2>8. Guard!Taint
    BY <2>2, <2>5, <2>6 DEF Moves, Guard!Taint, Guard!Known
  <2> QED BY <2>7, <2>8
<1>8. CASE ~upstream.orderly
  <2>1. /\ OfOrderly({calls[k].serial : k \in DOMAIN calls})' = {}
        /\ OfOrderly(Settled("sent"))' = {} /\ OfOrderly(Settled("dropped"))' = {}
        /\ OfOrderly(Tainted)' = {}
    BY <1>2, <1>8 DEF OfOrderly
  <2>2. /\ OfOrderly({calls[k].serial : k \in DOMAIN calls}) = {}
        /\ OfOrderly(Settled("sent")) = {} /\ OfOrderly(Settled("dropped")) = {}
        /\ OfOrderly(Tainted) = {}
    BY <1>8 DEF OfOrderly
  <2> QED BY <2>1, <2>2 DEF Guard!Settle, Guard!Taint, Guard!Disjoint, Guard!Known
<1> QED BY <1>7, <1>8

LEMMA GuardNext ==
  ASSUME IInv, IInv', Onward, Next
  PROVE  Guard!Next
<1>1. Guard!Settle /\ Guard!Taint
  BY GuardMoves
<1>2. phase # "done" /\ (failed => failed') /\ (blocked => blocked')
  BY DEF Onward
<1>3. failed \in BOOLEAN /\ failed' \in BOOLEAN /\ blocked \in BOOLEAN /\ blocked' \in BOOLEAN
  BY DEF IInv, TypeOK
<1>4. CASE phase' # "done"
  <2>1. Guard!Read
    BY <1>1, <1>2, <1>3, <1>4 DEF Guard!Read
  <2> QED BY <1>2, <2>1 DEF Guard!Next
<1>5. CASE phase' = "done"
  <2>1. (DOMAIN calls' = {} \/ failed') /\ (dropped' => blocked')
    BY <1>5, EndsWith
  <2>2. DOMAIN calls' = {} => OfOrderly({calls[k].serial : k \in DOMAIN calls})' = {}
    BY DEF OfOrderly
  <2>3. OfOrderly(Settled("dropped"))' # {} => blocked'
    <3>1. OfOrderly(Settled("dropped"))' # {} => IsDropped(ledger')
      BY DEF OfOrderly, Settled, IsDropped
    <3>2. IsDropped(ledger') => dropped'
      BY DEF IInv, Remembered, IsDropped
    <3> QED BY <2>1, <3>1, <3>2
  <2>4. Guard!End
    BY <1>1, <1>2, <1>3, <1>5, <2>1, <2>2, <2>3 DEF Guard!End
  <2> QED BY <1>2, <2>4 DEF Guard!Next
<1> QED BY <1>4, <1>5

\* streamResponsesBlock keeps the promise of block mode for the calls that an
\* orderly upstream streams (responses.go:144-204, 221-277, 305-387): a call enters held, leaves the
\* hold sent or dropped and for good, is released only if nothing was found against it,
\* and the response ends with none held, unless the client is gone, and with every drop
\* reported.
THEOREM ImplementsGuard == Spec => GuardSpec
<1>1. Init => Guard!Init
  BY GuardInit
<1>2. IInv /\ IInv' /\ [Next]_vars => [Guard!Next]_Guard!guardVars
  <2>1. ASSUME IInv, IInv', Next PROVE Guard!Next
    BY <2>1, StepIs, GuardNext
  <2>2. ASSUME UNCHANGED vars PROVE UNCHANGED Guard!guardVars
    <3>1. UNCHANGED <<declaredTools, calls, ledger, failed, phase, blocked, upstream>>
      BY <2>2 DEF vars, stateVars, history
    <3> QED BY <3>1 DEF Guard!guardVars, OfOrderly, Settled, Tainted, Clean
  <2> QED BY <2>1, <2>2
<1> QED BY <1>1, <1>2, Inductive, PTL DEF Spec, GuardSpec, Guard!Spec
=============================================================================
