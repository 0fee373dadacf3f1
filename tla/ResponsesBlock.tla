--------------------------- MODULE ResponsesBlock ---------------------------
(***************************************************************************)
(* Block mode for an OpenAI Responses stream: streamResponsesBlock in      *)
(* internal/proxy/responses.go.  Every function call has its own buffer;   *)
(* a call that is not released ends the response with an error event.      *)
(***************************************************************************)
EXTENDS StreamState

CONSTANTS
  Id,                 \* item ids a frame may carry
  NoId,               \* no id: the output index is used instead
  Contents,           \* whole argument strings a frame may carry
  Sizes,              \* bytes of a frame together with the arguments in it
  MaxToolCallBytes,   \* cap on the held-back data of one call
  MaxItems,           \* bound on the output items of a response
  MaxFrames,          \* bound on the frames of an orderly upstream
  MaxFreeFrames,      \* bound on the frames of any other upstream
  Finals,             \* output lists of a response that streamed no call
  ErrorContents       \* contents of error frames

ASSUME IdAssumption == NoId \notin Id \cup Nat /\ Id \cap Nat = {}
ASSUME SizeAssumption == MaxToolCallBytes \in Nat /\ Sizes \subseteq Nat
ASSUME ContentAssumption ==
  /\ Contents \subseteq Seq(Frag)
  /\ Finals \subseteq Seq([id : Id \cup {NoId}, name : Name, args : Seq(Frag)])
ASSUME BoundAssumption ==
  /\ MaxItems \in Nat /\ MaxFrames \in Nat /\ MaxFreeFrames \in Nat

\* responsesKey: the id of the item, or its output index.
OutputIndex == 0..(MaxItems - 1)
Key == Id \cup OutputIndex

VARIABLES
  phase,       \* "reading", "final" (in the loop over the final frame's
               \* items), "closing" (readSSE returned), "done"
  calls,       \* the withheld calls, by key
  final,       \* the final frame being processed and the next item in it
  dropped,     \* a call was not released
  stopped,     \* the loop over calls left open at the end was left
  terminated,  \* ended by an oversized line
  text,        \* assistant text given to the text inspector
  upstream,    \* what the upstream has sent
  opened,      \* history: number of calls so far, the serial of the next
  ledger       \* history: resolved calls by serial, clean or not, sent or dropped

loopVars == <<final, stopped, terminated>>
history  == <<opened, ledger>>
vars == <<stateVars, phase, calls, loopVars, dropped, text, upstream, history>>

-----------------------------------------------------------------------------
(* Frames *)

Completed(s) == [kind |-> "completed", items |-> s]
Other        == [kind |-> "other"]
BlockedEvent == [kind |-> "blocked"]   \* responsesErrorFrame

Item(i, n, a) == [id |-> i, name |-> n, args |-> a]

\* output_item.added and .done, function_call_arguments.delta and .done
CallFrame ==
  [kind : {"added", "item_done"}, key : Key, name : Name, args : Contents]
  \cup [kind : {"args_delta"}, key : Key, args : {<<g>> : g \in Frag}]
  \cup [kind : {"args_done"}, key : Key, args : Contents]

OtherFrame ==
  [kind : {"text_delta"}, frag : Frag] \cup [kind : {"error"}, args : ErrorContents]
  \cup {Other}

-----------------------------------------------------------------------------
(* The upstream *)

\* An orderly upstream adds, fills, closes and finally reports each call once,
\* in this order; another one sends frames in any order.
UpstreamInit(orderly) ==
  [items |-> <<>>, final |-> FALSE, sent |-> 0, orderly |-> orderly]

ItemsOf(k) == {i \in DOMAIN upstream.items : upstream.items[i].key = k}
At(k)      == upstream.items[CHOOSE i \in ItemsOf(k) : TRUE]

ConformingCall(f) ==
  CASE f.kind = "added" ->
         /\ ItemsOf(f.key) = {} /\ f.args = <<>> /\ f.name # NoName
         /\ Len(upstream.items) < MaxItems
         /\ f.key \in Id \cup {Len(upstream.items)}
    [] f.kind = "args_delta" -> ItemsOf(f.key) # {} /\ At(f.key).stage = "open"
    [] f.kind = "args_done" ->
         /\ ItemsOf(f.key) # {} /\ At(f.key).stage = "open"
         /\ At(f.key).args \in {<<>>, f.args}
    [] OTHER ->
         /\ ItemsOf(f.key) # {} /\ At(f.key).stage # "done"
         /\ f.name = At(f.key).name /\ f.args = At(f.key).args

MaySend(f) ==
  /\ phase = "reading"
  /\ IF upstream.orderly
     THEN /\ upstream.sent < MaxFrames
          /\ ~upstream.final /\ (f \in CallFrame => ConformingCall(f))
     ELSE upstream.sent < MaxFreeFrames

ItemsAfter(f) ==
  CASE f.kind = "added" ->
         Append(upstream.items,
                [key |-> f.key, name |-> f.name, args |-> <<>>, stage |-> "open"])
    [] f.kind \in {"args_delta", "args_done", "item_done"} ->
         [i \in DOMAIN upstream.items |->
            LET e == upstream.items[i] IN
            IF e.key # f.key THEN e
            ELSE [e EXCEPT !.args  = IF f.kind = "args_delta" THEN @ \o f.args ELSE f.args,
                           !.stage = CASE f.kind = "args_done" -> "filled"
                                       [] f.kind = "item_done" -> "done"
                                       [] OTHER -> @]]
    [] OTHER -> upstream.items

Receive(f) ==
  /\ MaySend(f)
  /\ upstream' = IF ~upstream.orderly THEN [upstream EXCEPT !.sent = @ + 1] ELSE
       [ upstream EXCEPT !.items = ItemsAfter(f),
                         !.final = @ \/ f.kind = "completed",
                         !.sent  = @ + 1 ]

\* The final frame lists the items that were streamed, with or without their ids,
\* or, of a server that streams none, any list.
FinalFrames ==
  IF upstream.items = <<>> THEN {Completed(s) : s \in Finals}
  ELSE IF \E i \in DOMAIN upstream.items : upstream.items[i].stage = "open" THEN {}
  ELSE {Completed([i \in DOMAIN upstream.items |->
          LET e == upstream.items[i] IN
          Item(IF e.key \in ids THEN e.key ELSE NoId, e.name, e.args)]) : ids \in {{}, Id}}

Proceed == phase' = IF failed' THEN "closing" ELSE "reading"

-----------------------------------------------------------------------------
(* Withheld calls *)

\* newResponsesCall
NewCall(n) == [name |-> n, args |-> <<>>, raw |-> <<>>, bytes |-> 0,
               gotDelta |-> FALSE, oversized |-> FALSE, serial |-> opened]

\* buffered: keep a frame of n bytes and the arguments a in it, up to the cap.
Buffered(c, f, a, n) ==
  IF c.oversized THEN c
  ELSE IF c.bytes + n > MaxToolCallBytes
  THEN [c EXCEPT !.oversized = TRUE, !.raw = <<>>, !.bytes = 0]
  ELSE [c EXCEPT !.bytes = @ + n, !.raw = Append(@, f), !.args = @ \o a]

Pending(k) == k \in DOMAIN calls

With(k, c) == [j \in DOMAIN calls \cup {k} |-> IF j = k THEN c ELSE calls[j]]
Without(k) == [j \in DOMAIN calls \ {k} |-> calls[j]]

\* The call an event belongs to; one nobody added is opened by the event.
CallAt(k, n) == IF Pending(k) THEN calls[k] ELSE NewCall(n)
OpenedAt(k)  == IF Pending(k) THEN opened ELSE opened + 1
SawAt(k)     == sawTool \/ ~Pending(k)

Clean(c) ==
  /\ declaredTools # {} /\ c.name \in declaredTools \cup {NoName}
  /\ ~Signature(c.args) /\ ~c.oversized

Enter(serial, clean, fate) ==
  ledger' = [s \in DOMAIN ledger \cup {serial} |->
               IF s = serial THEN [clean |-> clean, fate |-> fate] ELSE ledger[s]]

\* Mutants: the arguments, or the size, do not count.
DropsUnread(c, fs) == IsHigh(fs) \/ declaredTools = {} \/ c.oversized
DropsAnySize(c, fs) ==
  IsHigh(Inspect(c.args)) \/ IsHigh(fs) \/ declaredTools = {}

\* finalizeCall: replay the frames of the call, or end with the error event.
\* fs is what has been found so far.
Drops(c, fs) ==
  IsHigh(Inspect(c.args)) \/ IsHigh(fs) \/ declaredTools = {} \/ c.oversized

FoundIn(c) == Inspect(c.args) \cup {r \in {"oversized-call"} : c.oversized}

FinalizeCall(c, fs) ==
  LET drop == Drops(c, fs) IN
  /\ findings' = fs \cup FoundIn(c)
  /\ Emit(IF drop THEN <<BlockedEvent>> ELSE c.raw)
  /\ dropped' = (dropped \/ drop)
  /\ Enter(c.serial, Clean(c), IF drop THEN "dropped" ELSE "sent")

\* Mutant: a dropped call does not end the stream.
ReturnedOnWrite(c, fs) == failed'

\* finalizeCall returned an error: the call was dropped or a write failed.
Returned(c, fs) == Drops(c, fs) \/ failed'
-----------------------------------------------------------------------------
(* Frame handlers *)

AddCall(f, n) ==
  /\ f.kind = "added"
  /\ Receive(f)
  /\ calls' = With(f.key, Buffered(NewCall(f.name), f, f.args, n))
  /\ findings' = findings \cup CheckToolCall(f.name)
  /\ sawTool' = TRUE
  /\ opened' = opened + 1
  /\ UNCHANGED <<declaredTools, blocked, out, failed, phase, loopVars, dropped,
                 text, ledger>>

\* A fragment, or the whole arguments when no fragment came before.
HoldArgs(f, n) ==
  LET c     == CallAt(f.key, NoName)
      delta == f.kind = "args_delta"
      a     == IF delta \/ ~c.gotDelta THEN f.args ELSE <<>>
  IN
  /\ f.kind \in {"args_delta", "args_done"}
  /\ Receive(f)
  /\ calls' = With(f.key, Buffered([c EXCEPT !.gotDelta = @ \/ delta], f, a, n))
  /\ findings' = findings \cup IF Pending(f.key) THEN {} ELSE CheckToolCall(NoName)
  /\ sawTool' = SawAt(f.key)
  /\ opened' = OpenedAt(f.key)
  /\ UNCHANGED <<declaredTools, blocked, out, failed, phase, loopVars, dropped,
                 text, ledger>>

\* The call is complete: a new name is checked, then the call is resolved.
CloseItem(f, n) ==
  LET c0      == CallAt(f.key, f.name)
      renamed == f.name # NoName /\ c0.name # f.name
      c       == Buffered([c0 EXCEPT !.name = IF renamed THEN f.name ELSE @], f,
                          IF c0.gotDelta THEN <<>> ELSE f.args, n)
      fs      == findings \cup IF renamed \/ ~Pending(f.key)
                               THEN CheckToolCall(f.name) ELSE {}
  IN
  /\ f.kind = "item_done"
  /\ Receive(f)
  /\ calls' = Without(f.key)
  /\ FinalizeCall(c, fs)
  /\ phase' = IF Returned(c, fs) THEN "closing" ELSE "reading"
  /\ sawTool' = (SawAt(f.key) \/ renamed)
  /\ opened' = OpenedAt(f.key)
  /\ UNCHANGED <<declaredTools, blocked, loopVars, text>>

ForwardText(f) ==
  /\ f.kind = "text_delta"
  /\ Receive(f)
  /\ text' = Append(text, f.frag)
  /\ Emit(<<f>>)
  /\ Proceed
  /\ UNCHANGED <<declaredTools, findings, sawTool, blocked, calls, loopVars,
                 dropped, history>>

ForwardError(f) ==
  /\ f.kind = "error"
  /\ Receive(f)
  /\ findings' = findings \cup Inspect(f.args)
  /\ Emit(<<f>>)
  /\ Proceed
  /\ UNCHANGED <<declaredTools, sawTool, blocked, calls, loopVars, dropped,
                 text, history>>

ForwardOther(f) ==
  /\ f.kind = "other"
  /\ Receive(f)
  /\ Emit(<<f>>)
  /\ Proceed
  /\ UNCHANGED <<declaredTools, findings, sawTool, blocked, calls, loopVars,
                 dropped, text, history>>

-----------------------------------------------------------------------------
(* The final frame: one step per function call it lists, then the frame *)

StartFinal(f) ==
  /\ Receive(f)
  /\ phase' = "final"
  /\ final' = [frame |-> f, next |-> 1]
  /\ UNCHANGED <<stateVars, calls, stopped, terminated, dropped, text, history>>

InFinal  == phase = "final" /\ final.next <= Len(final.frame.items)
NextItem == final.frame.items[final.next]
Advance  == final' = [final EXCEPT !.next = @ + 1]

\* Mutant: items are matched by id only.
MatchesById == {k \in {NextItem.id} : Pending(k)}

\* The streamed call an item stands for: by id, else by output index.
Matches == {k \in {NextItem.id, final.next - 1} : Pending(k)}
Match   == IF NextItem.id \in Matches THEN NextItem.id ELSE final.next - 1

ResolveListed ==
  /\ InFinal
  /\ Matches # {}
  /\ calls' = Without(Match)
  /\ FinalizeCall(calls[Match], findings)
  /\ phase' = IF Returned(calls[Match], findings) THEN "closing" ELSE "final"
  /\ Advance
  /\ UNCHANGED <<declaredTools, sawTool, blocked, stopped, terminated, text,
                 upstream, opened>>

\* A call that is not withheld is judged by what the final frame says of it.
InlineDrops(it) ==
  IsHigh(Inspect(it.args) \cup CheckToolCall(it.name)) \/ declaredTools = {}

InspectListed ==
  /\ InFinal
  /\ Matches = {}
  /\ findings' = findings \cup Inspect(NextItem.args)
                          \cup CheckToolCall(NextItem.name)
  /\ sawTool' = TRUE
  /\ dropped' = (dropped \/ InlineDrops(NextItem))
  /\ Emit(IF InlineDrops(NextItem) THEN <<BlockedEvent>> ELSE <<>>)
  /\ phase' = IF InlineDrops(NextItem) THEN "closing" ELSE "final"
  /\ Advance
  /\ UNCHANGED <<declaredTools, blocked, calls, stopped, terminated, text,
                 upstream, history>>

ForwardFinal ==
  /\ phase = "final" /\ ~InFinal
  /\ Emit(<<final.frame>>)
  /\ Proceed
  /\ UNCHANGED <<declaredTools, findings, sawTool, blocked, calls, loopVars,
                 dropped, text, upstream, history>>

-----------------------------------------------------------------------------
(* Oversized input and the end of the stream *)

Leave(s) ==
  LET left == {calls[k] : k \in DOMAIN calls} IN
  [n \in DOMAIN ledger \cup {c.serial : c \in left} |->
     IF n \in DOMAIN ledger THEN ledger[n]
     ELSE [clean |-> s /\ \A c \in left : c.serial = n => Clean(c),
           fate |-> "dropped"]]

OnOversized ==
  /\ phase = "reading"
  /\ ~upstream.final
  /\ findings' = findings \cup {"oversized-sse"}
  /\ blocked' = TRUE
  /\ dropped' = TRUE
  /\ terminated' = TRUE
  /\ calls' = <<>>
  /\ ledger' = Leave(FALSE)
  /\ Emit(<<BlockedEvent>>)
  /\ phase' = "closing"
  /\ UNCHANGED <<declaredTools, sawTool, final, stopped, text, upstream, opened>>

\* The upstream body ends, or reading it fails.
UpstreamEnds ==
  /\ phase = "reading"
  /\ phase' = "closing"
  /\ UNCHANGED <<stateVars, calls, loopVars, dropped, text, upstream, history>>

\* Calls still open are resolved one after the other, in the order of their
\* keys (any order here), until one returns an error.
Resolving == phase = "closing" /\ ~terminated /\ ~stopped /\ DOMAIN calls # {}

ResolveOpen ==
  /\ Resolving
  /\ \E k \in DOMAIN calls :
       /\ calls' = Without(k)
       /\ FinalizeCall(calls[k], findings)
       /\ stopped' = Returned(calls[k], findings)
  /\ UNCHANGED <<declaredTools, sawTool, blocked, phase, final, terminated, text,
                 upstream, opened>>

\* The calls the loop did not reach are left out with the one that ended it.
Close ==
  /\ phase = "closing" /\ ~Resolving
  /\ findings' = findings \cup Inspect(text)
  /\ blocked' = (blocked \/ dropped)
  /\ phase' = "done"
  /\ IF dropped THEN calls' = <<>> /\ ledger' = Leave(TRUE)
     ELSE UNCHANGED <<calls, ledger>>
  /\ UNCHANGED <<declaredTools, sawTool, out, failed, loopVars, dropped, text,
                 upstream, opened>>

-----------------------------------------------------------------------------

Init ==
  /\ StateInit
  /\ phase = "reading"
  /\ calls = <<>>
  /\ final = [frame |-> Completed(<<>>), next |-> 1]
  /\ dropped = FALSE /\ stopped = FALSE /\ terminated = FALSE
  /\ text = <<>>
  /\ \E orderly \in BOOLEAN : upstream = UpstreamInit(orderly)
  /\ opened = 0 /\ ledger = <<>>

OnEvent ==
  \/ \E f \in CallFrame, n \in Sizes :
       AddCall(f, n) \/ HoldArgs(f, n) \/ CloseItem(f, n)
  \/ \E f \in OtherFrame : ForwardText(f) \/ ForwardError(f) \/ ForwardOther(f)
  \/ \E f \in FinalFrames : StartFinal(f)

Next ==
  \/ OnEvent
  \/ ResolveListed \/ InspectListed \/ ForwardFinal
  \/ OnOversized \/ UpstreamEnds \/ ResolveOpen \/ Close

Spec == Init /\ [][Next]_vars

-----------------------------------------------------------------------------
(* Properties *)

\* When the upstream is orderly every call the client receives, item by item or
\* in the final frame, has a declared name and arguments without the
\* high-severity signature (responses.go:170-172).
Acceptable(n, a) ==
  declaredTools # {} /\ n \in declaredTools \cup {NoName} /\ ~Signature(a)

SentCallsVerified ==
  upstream.orderly =>
    \A p \in DOMAIN out :
      /\ out[p].kind = "item_done" => Acceptable(out[p].name, out[p].args)
      /\ out[p].kind = "completed" =>
           \A i \in DOMAIN out[p].items :
             Acceptable(out[p].items[i].name, out[p].items[i].args)

IsBlocked(p) == p \in DOMAIN out /\ out[p] = BlockedEvent

\* No frame of the upstream, withheld or new, follows the error event
\* (responses_test.go:103-104).
NoFrameAfterError ==
  \A p, q \in DOMAIN out : p < q /\ IsBlocked(p) => IsBlocked(q)

\* response.completed is the last thing a client reads of an orderly response:
\* every call was resolved before.  The calls of the final frame are matched with
\* the withheld ones by id, or by output index where neither has one
\* (responses.go:310-311), so a list that leaves out ids it streamed is excepted.
KeepsIds(list) ==
  \A i \in DOMAIN upstream.items :
    upstream.items[i].key \in Id => list[i].id = upstream.items[i].key
CompletedIsLast ==
  upstream.orderly =>
    \A p \in DOMAIN out :
      out[p].kind = "completed" /\ KeepsIds(out[p].items) => p = Len(out)

-----------------------------------------------------------------------------
(* The abstract promise, for the calls that are streamed: by serial number *)

OfOrderly(serials) == IF upstream.orderly THEN serials ELSE {}

Settled(fate) == {s \in DOMAIN ledger : ledger[s].fate = fate}
Tainted ==
  {s \in DOMAIN ledger : ~ledger[s].clean}
    \cup {calls[k].serial : k \in {j \in DOMAIN calls : ~Clean(calls[j])}}

Guard == INSTANCE CallGuard WITH
  Call    <- Nat,
  held    <- OfOrderly({calls[k].serial : k \in DOMAIN calls}),
  sent    <- OfOrderly(Settled("sent")),
  dropped <- OfOrderly(Settled("dropped")),
  tainted <- OfOrderly(Tainted),
  gone    <- failed,
  ended   <- phase = "done",
  blocked <- blocked

\* The calls of an orderly upstream are held, released only when clean, settled
\* for good and reported.
GuardSpec == Guard!Spec
=============================================================================
