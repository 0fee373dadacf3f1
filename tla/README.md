# TLA+ specifications of holone

holone is a local proxy between an AI client and a model provider. It forwards
requests, inspects every response, and in *block* mode withholds tool calls until
they have been judged. A dashboard process can start and stop such a proxy, keeps
the provider profiles and shows an activity feed.

A scanner judges an endpoint from a few probes, and a sentinel watches the host.

This directory models the parts of holone that decide what a client receives and
what the operator is told, checks them with TLC, and proves some of the results
with TLAPS. `PROJECT.json` lists the components, runs, mutants, hazards and
theorems, and maps every definition to the lines it was translated from.

Paths below are relative to `src/`; `proxy/` stands for `internal/proxy/` and
`dashboard/` for `internal/dashboard/`.

## 1. Inventory

| Component | State | Operations | Module |
|---|---|---|---|
| Streaming inspector, `proxy/window.go` | pending bytes, findings so far | `Write`, `Finish` | `StreamInspector` |
| Per-request state, `proxy/proxy.go` (`streamState`) | declared tools, findings, `sawTool`, `blocked` | `checkToolCall`, `add`, `report` | `StreamState` |
| Anthropic block mode, `proxy/anthropic.go` | one held call, `droppedTool`, text inspector | one frame, oversized input, end | `AnthropicBlock` |
| OpenAI chat block mode, `proxy/openai.go` | held chunks shared by all calls, an inspector and a name per index | the same | `OpenAIBlock` |
| OpenAI Responses block mode, `proxy/responses.go` | one buffer per call, keyed by id or output index | the same, plus the loop over the final frame | `ResponsesBlock` |
| SSE reader, `proxy/sse.go` | frame buffer, `skipFrame`, `reported` | `readSSE`, `readSSELine` | `SSEReader` |
| Request path, `proxy/proxy.go`, `proxy/body.go` | one request: body, decoded response, verdict | `ServeHTTP`, `serveStream`, `serveBuffered`, `report` | `ProxyRequest` |
| Proxy manager, `dashboard/dashboard.go`, `dashboard/server.go` | mutex, current server, listeners, requests in flight | `Start`, `Stop`, `Status`, serving goroutines | `ProxyManager` |
| Provider store, `dashboard/dashboard.go` | list in memory, next id, `providers.json` | `Add`, `Remove`, `Update`, `ReplaceAll`, load | `ProviderStore` |
| Monitor-mode stream handlers, the same files and `proxy/generic.go` | an inspector per block or call, one for text | one frame, oversized input, end | `MonitorStream` |
| Inspection engine, `internal/inspect` | none after loading | `Inspect`, with groups of rules in goroutines for large texts | `Engine` |
| Scanner, `internal/scanner` | a slot per probe, the report | `Scan`: structural checks, discovery, probes, score | `Scanner` |
| Activity log, `dashboard/dashboard.go` | ring buffer, counters | `Add`, `Recent`, `Stats`, `Clear` | `ActivityLog` |
| Decision log (`Logger`) and what follows it | a file, a mutex per process | `report`, `Log`, `recordDecision` | `AuditLog` |
| Sentinel, `internal/sentinel` | status last seen of each check | `Audit`, `Monitor` | `Sentinel` |
| Dashboard and sentinel commands, `cmd/holone/main.go` | | wiring of the three above | `Operator` |
| CLI, update check, page, installers, mock provider, rules | | | not modelled, see 8 |

How they interact:

- `ServeHTTP` reads the request under a limit, asks the upstream, opens the body
  and calls `serveStream` or `serveBuffered`. A stream is read by `readSSE`,
  which calls back into a protocol handler for every frame (`onEvent`) and for
  the first line or frame over a cap (`onOversized`). A callback that returns an
  error stops the reader; the handler then resolves what is still held.
- A handler writes tool arguments and text to streaming inspectors and names to
  `checkToolCall`. Both add to the findings of the request, from which `report`
  forms one verdict, for the log and for the dashboard.
- The dashboard's handlers call the manager and the store. The manager runs each
  proxy in a goroutine of its own, and holds its mutex while it waits for the
  requests of the old proxy. Requests report through a callback that captured the
  provider when the proxy was started.
- The store rewrites its file on every change, in place.
- `report` writes each decision to the log; a dashboard and a standalone proxy
  append to the same file by default. Decisions that are not clean go on to the
  activity log, which requests, scans and audits feed as well, and which the API
  reads and clears.
- The scanner and the proxy share the inspection engine; audits and the sentinel
  share the checks of the host.

What is hard here: a call is spread over many frames and judged at its end, while
the stream may stop, overflow, or lose its client anywhere between; a window cut
may fall inside a signature; several API calls, serving goroutines and requests
interleave around one mutex; a file is truncated before it is rewritten, another
is appended to by two processes; probes are answered in any order or not at all;
and the checks of the sentinel are read one by one while the host changes.
`PROJECT.json` lists these under `hazards`, each at its line.

What makes each component correct:

- *Inspector*: no cut of the stream loses a signature the overlap can hold; the
  loop ends.
- *Block-mode handlers*: a call reaches the client only if its whole name and
  arguments are acceptable; every held call is settled, once; what the client
  reads stays well formed and complete; the verdict admits what was dropped.
- *SSE reader*: a frame is delivered whole or not at all; an overflow costs its
  own frame only, and is reported.
- *Request path*: bodies pass whole or are refused, with headers true of them;
  verdict and protection level are true of what the client got.
- *Manager*: one server accepts; decisions name the right provider; the feed
  agrees with the manager; ports are released, and calls answered unless a start
  waits for a request that never ends.
- *Monitor handlers*: what was forwarded was inspected, but for losses that can be
  listed, and every call compared with the tools the client declared.
- *Engine and scanner*: findings do not depend on scheduling; the report lists the
  right probes, its verdict is one they justify, and a scan ends.
- *Activity log and decision log*: readers get the newest entries; a decision that
  is shown is in the log, whole, and counted.
- *Sentinel*: what comes and stays is told, once; what comes back is told again.
- *Store*: ids are unique; what was reported survives a restart; what failed
  leaves no trace.

## 2. Modules

```
StreamState <-- AnthropicBlock <-- MCAnthropicBlock, AnthropicBlockProofs
            <-- OpenAIBlock    <-- MCOpenAIBlock, OpenAIBlockProofs
            <-- ResponsesBlock <-- MCResponsesBlock, ResponsesBlockProofs
            <-- MonitorStream  <-- MCMonitorStream, MonitorStreamProofs
CallGuard       <-- instantiated by the three block handlers  (abstract specification)
StreamInspector <-- MCStreamInspector
CallGuard, StreamInspector, SSEReader, ProxyRequest <-- FoundationProofs
ProviderStore, ProxyManager                         <-- DashboardProofs
Engine      <-- Scanner       <-- MCScanner, ScannerProofs
ActivityLog <-- AuditLog, Sentinel <-- Operator <-- OperatorProofs
```

A module of proofs may be about several components. For that, the specification of
`StreamInspector` is called `InspectorSpec`, that of `SSEReader` `ReaderSpec` and
that of `ProviderStore` `StoreSpec` (their initial and next-state predicates
likewise), so that they can stand beside `Spec` of `ProxyRequest` and of `ProxyManager`.

The levels fit together by what they assume of each other. `StreamInspector`
shows that windowing loses no signature, so the handlers use `Inspect(content)`
on whole content. `SSEReader` shows that frames arrive whole and in order,
so the handlers take frames as units; an overflow is reported (`NoOtherFrameLost`),
and once (`ReaderTypeOK`), so `OnOversized` is one action. `ProxyRequest` takes from the handlers what they
find and whether they altered the stream; `AuditLog` takes from it that every
request ends in one `report`. `Scanner` builds on `Engine`, and `Operator` joins
the feed, the log and the sentinel.

### StreamInspector (`window.go`)

Bytes are positions. `pending` is the stretch `base..total-1`, and a signature is
a stretch that a rule matches, known in advance only to the rules. `Write`,
`ScanWindow` (one turn of the loop) and `Finish` are `Write`, its loop and
`Finish`. `cuts` is a history variable: `Finish` empties the inspector, and a
signature torn by an earlier `Finish` is not one the windows could keep.

### StreamState and CallGuard

`StreamState` holds what the handlers share: the fields of `streamState`, and the
client's side (`out`, the frames written, and `failed`). `Emit` writes frames one
by one and may stop after any of them; from then on nothing is written. Findings
are reduced to rules, and content to fragments, with one high-severity signature
(`head` followed by `tail`) that no single fragment shows.

`CallGuard` is the abstract promise of block mode, independent of the protocol.
Calls are *held*, then *sent* or *dropped*, for good. A call found unacceptable
(*tainted*) is never sent. The response ends with nothing held, unless the client
is gone, and with `blocked` if anything was dropped. Each handler defines what a
call is in its protocol and TLC checks that it implements `Guard!Spec`.

### AnthropicBlock (`streamAnthropicBlock`)

Variables keep the names of the code. One action per branch of the callback:
`PassUnparsed`, `HoldFrame` and `ResolveHeld` (while a call is held),
`StartTool`, `ForwardText`, `ForwardMessageDelta`, `ForwardError`,
`ForwardOther`; then `OnOversized`, `UpstreamEnds` and `Close`, which is the code
after `readSSE`. `ledger` is history: the resolved calls, judged from their
content and not from the handler's own findings, so that a stale finding that
decides about the wrong call shows (`NoCleanCallDropped`).

Three properties are about what the client reads in `out`. `InBlock(p, q)` is the
block opened at `p` as the client sees it, up to its first stop; `NextArg` names two
fragments of its arguments with no third between them, so that `SentCallsVerified`
speaks of the arguments the client puts together. `NoToolUseAfterNote` excepts the
frame that an upstream out of order sends inside a later call.

### OpenAIBlock (block half of `streamOpenAI`)

Text goes through at once; chunks with tool data are held together until a finish
chunk or the end resolves all of them (`ResolveChunk`, `Close`). A chunk may mix
text, a tool delta and a finish reason, and carries at most one tool delta. When
calls are replaced their chunks' text is delivered after text that arrived later
and was not held: `TextDelivered` counts text and does not state its order.

### ResponsesBlock (`streamResponsesBlock`)

A call may be reported up to four times: added, deltas, done, and in the list of
the final frame. `calls` maps a key (id, else output index) to the buffer. The
loop over the final frame is one step per item (`ResolveListed`,
`InspectListed`), followed by `ForwardFinal`. Calls left open at the end are
resolved in any order; the code sorts their keys. The cap counts frame and
arguments together, per call.

The three handlers take their frames from two kinds of upstream, chosen in `Init`
by `upstream.orderly`: one that follows its protocol, whose streams are long
enough for two calls and text, and one that sends any frames in any order, whose
streams are shorter. Properties that hold for the first only say so.

### SSEReader (`readSSE`, `readSSELine`)

A line is its length and whether it is blank; a frame is the list of the numbers
of its lines, so a delivered frame can be compared with the stream. The mode,
chosen in `Init`, decides whether the first report ends the reading (block) or
the reader goes on (monitor), and which callbacks can fail. A last line that is
cut by a read error is delivered in the last frame like any other. `lines` and
`offset` are history: the lines of the stream and the bytes up to the end of each,
from which `Size` takes what a frame measures.

### ProxyRequest (`ServeHTTP` and what it calls)

One request, with `pc` as the position in the handler. A body is a length;
`ReadPast` is `io.LimitReader(r, limit+1)` with 64-bit wrap-around, scaled down.
Each path of the code that returns is an action of its own: rejected request,
redirects, upstream failure, encodings that are decoded, refused or forwarded,
buffered and streamed responses, `report`. With `Managed = TRUE` the request first
passes the dashboard's activity recorder. Writers that cannot flush do not occur
with `net/http` and are left out. Of the stream handlers only this is left: a stream
may be altered when a call in it is not to be sent, or ends after something of high
severity was found, whatever that was found in (`MayAlter`), and must be when a call
is not to be sent (`MustAlter`). `reply` has the encoding and length headers.

### ProxyManager

`op[c]` is the API call that caller `c` is in and its position; `mu` is the
mutex's holder. `Lock`, `NothingToStop`, `BeginStop`, `Drained`, `GiveUp`,
`Listen` and `ListenFails` are the stretches of `Start` and `Stop` between the
points at which others can act. A server has a listener, a goroutine that has not
begun to serve, serves, or has returned, and whether it was shut down. A start or
stop that succeeded answers with `Status`, so it takes the mutex a second time
(`Succeed`). `net/http`
is modelled from how it is used: `Shutdown` closes a listener only when `Serve`
has registered it, and `Serve` on a server that was shut down closes its listener
and returns. `Arrive` is the acceptance of a connection with its request.

### ProviderStore

The store's mutex is held for a whole operation, so each is one step; the outcome
of the rewrite inside it is nondeterministic. A failed write leaves the old file,
an empty one or a torn one; a crash may also leave the new one. A torn file keeps
the dashboard from starting. `serial` identifies a profile independently of its
id, and `agreed`, `trouble` and `disorder` are history.

### MonitorStream (monitor halves of the handlers, `streamGeneric`)

`protocol`, chosen in `Init`, selects the handler. A frame is forwarded and then
handled in one step (`Forward`), because the reader does both before it reads on;
when the write fails the frame is not handled and reading ends. Content is a set
of *pieces*, each named by the frame that brought it: the arguments of a closing frame
are a piece of their own, because a provider need not repeat the deltas in them. An
inspector is the set of the pieces written to it. A frame of kind `ignored` stands for
content the handlers do not read: other event types and fields, and data that is not
JSON. `Owed` states what a handler has to inspect of a frame, and so names what the
code forwards without inspecting it (section 3).

### Engine (`Inspect`) and Scanner (`Scan`)

A rule is a number, and a text is the rules that occur in it, those whose
keywords let them be tried, and the indicators it contains. `Matches` is the
serial loop, `GroupMatches` and `Merged` the parallel one, `Deduplicate` the `add`
function of `Inspect`, `Sorted` is `SortFindings`. `KeyOf` gives a finding the rule
id and the matched text, which different rules may share.

In `Scanner`, `pc` is the phase of `Scan` and `work[j]` the goroutine of a probe. A
probe with a large answer is inspected by `Groups` goroutines (`InspectGroup`), then
sorted and stored (`Store`); small answers are inspected in the step that receives
them. `Discover`, `Probe` and `Conclude` are the stretches between two
`WaitGroup.Wait`. An answer with a status of 400 or more, one over 4 MiB and a
missing one are errors: their findings are kept and not scored. A body may also break
off, at a reset or at the time limit; the code drops that error, so what was read of it
is scored (`Scored`).

### ActivityLog, AuditLog, Sentinel, Operator

`ActivityLog` is the Go slice of the ring buffer: `array`, `offset` and `length`.
Eviction moves `offset`, `Clear` shortens the slice and keeps its place, and
`Appended` writes into the array behind the end, or copies to a new one when it is
full. `fed` is history: what was added since the last clear.

`AuditLog` takes requests from `ServeHTTP` of the recorder to the end of `report`.
`Lock`, `WriteRecord` and `WriteNewline` are `Logger.Log`; the mutex is that of one
process, the file is shared. Both write errors are ignored, as in the code.
`Decided` hands the decision on.

`Sentinel` reads the host one check at a time (`RunCheck`), while `Change` lets
facts come and go and `Cancel` ends the context; a cancelled context makes the
checks that run a command report an error. `Printed` is the audit `cmdSentinel`
prints before `Monitor` makes its own, so what stands at the start is shown twice.
`readings` and `told` are history.

`Operator` is the command the user has started: `sentinel`, or `dashboard`, in which
requests, scans, audits and clearings feed one activity log.

## 3. Runs and what they show

All bounds are constants of the `.cfg` files.

| Run | Instance | Shows |
|---|---|---|
| `StreamInspector` | window 4, overlap 2, streams of 7 bytes, two signatures | `NothingLost`, `LoopEnds` |
| `Anthropic` | 2 indexes, 2 tool names, 2 fragments, cap 5; 7 orderly or 3 free frames | `TypeOK`, `SentCallsVerified`, `NoToolUseAfterNote`, `NoCleanCallDropped`, `NoteKeepsContiguity`, `GuardSpec` |
| `OpenAI` | 2 indexes, 2 tool names, cap 2; 5 orderly or 2 free chunks | `SentCallsVerified`, `TextDelivered`, `EndsCleanly`, `GuardSpec` |
| `Responses` | 2 ids, 2 items, cap 3; 5 orderly or 2 free frames | `SentCallsVerified`, `NoFrameAfterError`, `CompletedIsLast`, `GuardSpec` |
| `MonitorStream` | 2 keys, 2 tool names; 5, 4, 4 and 3 frames by protocol | `ForwardedIsInspected`, `CallsAreChecked` |
| `SSEReader` | line cap 2, frame cap 3, 6 lines of length 1 to 3, both modes | `ReaderTypeOK`, `FramesWhole`, `NoOtherFrameLost` |
| `ProxyRequest` | lengths 0, 3, 4, limits 2 and 3, all encodings, both modes, one redirect | `BodiesWhole`, `BlockModeDelivers`, `ReportMatchesReply` |
| `ProxyManager` | 2 callers, 2 providers, 1 port, 2 servers, 1 request | `OnlyCurrentAccepts`, `CreditedToItsProvider`, `StartsAndStopsAlternate`, `ListenersReleased`, `CallsAnswered` |
| `ProviderStore` | 3 profiles, imports of up to 2 entries with ids up to 2 or a word | `UniqueIds`, `ChangesSurvive`, `FailedUpdateUndone` |
| `Scanner` | 5 rules in 2 groups, 1 indicator, 8 kinds of answer, every mode | `FindingsAsSequential`, `ReportMatchesAnswers`, `VerdictJustified`, `ScanEnds` |
| `Operator` | feed of 2, 2 managed and 1 standalone request, one failing write, one call to the dashboard; 2 changes of the host, Windows checks | `ActivityKeepsLast`, `DecisionsRecorded`, `AlertsFollowReadings`, `FlaggedIsTold` |

The two type invariants that are checked hold the caps: what one Anthropic call and what
the frame buffer may keep. Runs with `CHECK_DEADLOCK FALSE` are of systems that
end: a response or a scan is over, a bound on the stream is reached, a file is
unreadable, the sentinel was stopped. `ProxyManager` checks for deadlock.

Why the bounds are enough for the interesting cases:

- *StreamInspector*: 7 bytes make three windows of 4 with an overlap of 2, so a
  signature can start in one and end in another, at every offset. The result is
  also proved for all sizes.
- *Anthropic*: a call of start, two deltas and stop, then the start of another
  block, the stop reason and the end fit into 7 frames; a cap of 5 is passed
  inside a call that is followed by others. Two indexes suffice because the
  handler holds one call and compares indexes for equality only.
- *OpenAI*: two interleaved calls and a finish chunk fit into 5; a cap of 2 is
  passed by the third tool chunk.
- *Responses*: one call added, filled, closed and listed, or two calls with the
  second left open, fit into 5; a cap of 3 is passed within a call.
- Free streams of 2 or 3 frames contain every pair (triple) of frames, so every
  branch is reached from every state that one (two) frames can make.
- *SSEReader*: 6 lines make an overflow, the rest of its frame, its blank line,
  and a whole frame after it; lengths 1 to 3 reach both caps exactly and exceed
  each by one.
- *ProxyRequest*: a length below, at and above a limit, with `MaxInt` above them.
- *ProxyManager*: the second server exists while the first still drains, and two
  callers suffice for one to wait for the other. Safety is proved for any number.
- *MonitorStream*: any frames in any order, closing frames with arguments of their
  own among them; 4 make a call that is added, filled, closed and listed, 5 a block
  that starts again with a delta in each.
- *Scanner*: the answers differ in everything the scoring tells apart: missing,
  rejected, a layout that wants a key, clean, a call nobody asked for, a large
  answer with findings, one over the limit, and one that breaks off; each probe may
  get each of them.
- *Operator*: a feed of 2 is overrun by the entries of two requests and a call, and
  cleared at any point; its property is proved for every size. Two changes let a
  fact come and go, or two kinds of one check follow each other. The Windows
  checks include the others.
- *ProviderStore*: three profiles allow add, import and add around a restart,
  which is what it takes to hand out an id twice.

One run expects a violation. It checks a sentence of the repository against what
the code does:

| Run | Sentence | What happens |
|---|---|---|
| `ProxyRequestRecorded` | "Bodies over the cap are rejected, never truncated." (`proxy/proxy.go:94-96`) | The activity recorder makes the first 4096 bytes of a request its body; a longer one is forwarded in part. |

Other places where code and intention part are stated as exceptions in the
properties or noted here:

- `proxy/anthropic.go:198`: between blocks, the note of an oversized line goes to
  index 0 even when other blocks came before (outside `NoteKeepsContiguity`).
- `proxy/openai.go:193`: text in chunks that arrive after the cap was passed is
  lost (outside `TextDelivered`).
- `proxy/openai.go:246`: `oversized` is never reset. When a call passed the cap, the
  finish chunk replaces it by a note and a finish chunk; the end of the stream does so
  again, and a second note and a second finish chunk follow `[DONE]`. The changelog of
  0.4.0 says that such a call is replaced by a safe note and no more
  (`CHANGELOG.md:81-83`). `EndsCleanly` describes what follows `[DONE]` in these
  streams and allows nothing else. An oversized line writes a finish chunk and `[DONE]`
  of its own, and after such a call the second replacement as well; streams with one
  are outside `EndsCleanly`.
- `proxy/responses.go:367`: after the error event, a call still open may write a
  second one (`NoFrameAfterError` allows it). `:368`: when the loop is left
  because the client is gone, calls stay unresolved (`CallGuard` allows it).
- `proxy/responses.go:312`: the fallback to the output index finds only calls that
  were keyed by it. When the final frame leaves out the id of a call that was
  streamed with one, the call is judged again from that frame and replayed after
  `response.completed` (outside `CompletedIsLast`).
- In a stream that is not orderly, a frame for another index that arrives while
  an Anthropic call is held is replayed with that call and is not judged itself;
  `SentCallsVerified` is about orderly streams. The same path
  (`proxy/anthropic.go:140-163`) replays a `message_delta` as it came: sent inside a
  held call, its `tool_use` reaches the client although an earlier call was
  replaced (`NoToolUseAfterNote` allows it). It takes five free frames; the run stops
  at three, and the attempt to prove the property showed it.
- `proxy/body.go:36`: `limit+1` wraps for the largest 64-bit limit; the runs keep
  limits below it.
- `dashboard/dashboard.go:473` and `:527`: when serving fails, `Status` goes on
  reporting the proxy as running.
- `proxy/proxy.go:403`: clean responses never reach the activity feed.
- `dashboard/dashboard.go:497`: `Stop` returns with the port still bound when the
  goroutine of a new proxy has not called `Serve` yet; the port is released later
  (`ListenersReleased`).
- `dashboard/dashboard.go:445`: a start waits for the old proxy's requests with
  `context.Background()`, while it holds the mutex. A streamed response has no time
  limit, so one that does not end keeps that start, and every other start, stop and
  status, from its answer for ever. `CallsAnswered` says that nothing else does.
- `internal/scanner/scanner.go:449`: the error of reading an answer is dropped. One
  broken off by a reset or by the 45 seconds of the client is scored for what was read
  of it and may yield `no-active-injection-detected`; `VerdictJustified` counts it as
  an answer, as the code does.
- Monitor mode forwards without inspecting (`Owed`): arguments of
  `function_call_arguments.done` and `output_item.done` for a call that had a delta,
  also when they differ from the deltas (`proxy/responses.go:122`, `:134`); those of
  the final list for a call still open (`:146-149`); those of a block or item that
  starts again while it is open (`proxy/anthropic.go:52`, `proxy/responses.go:112-114`);
  deltas for a call nobody announced; and frames or fields that the handlers do not
  read (`proxy/anthropic.go:44-47`, `proxy/responses.go:104-107`).
- `dashboard/dashboard.go:285`: an import that repeats an id, or names an id after
  an entry without one, may leave two profiles with one id (outside `UniqueIds`).
  `:221`: a profile that could not be saved stays in memory. `:235`: the error of
  the write is discarded, so a removal that was not written is undone by the next
  start.
- `proxy/responses.go:125-139`: in monitor mode an item that is closed under another
  name than it was announced with is not checked again (`CallsAreChecked` allows
  it).
- `proxy/proxy.go:762`: two processes may write their newlines out of turn, so a line
  of a shared log may hold a record of each (`DecisionsRecorded` allows it).
- `internal/scanner/scanner.go:657`: with no probe answered the verdict is
  `could-not-probe` even when the blocklist has a hit; the score still counts it.
- `cmd/holone/main.go:264` and `:357`: `holone audit` counts flagged checks only, the
  dashboard counts checks that could not run as well.

Each property of a passing run has a mutant: a changed definition (a dropped
guard, an off-by-one, a missing reset) under which TLC finds that property
violated. Mutated forms stand in the modules next to the definition they change,
under a comment that begins with "Mutant".

## 4. Fairness

- `StreamInspector`: weak fairness of `ScanWindow`. The loop in `Write` runs in
  the caller and has nothing to wait for.
- `ProxyManager` (`FairSpec`): weak fairness of the steps of the mutex's holder
  and of the serving goroutines, because the scheduler runs every goroutine that
  can run and the timer of `Stop` goes off; strong fairness of taking the mutex,
  because `sync.Mutex` hands itself over to whoever has waited a millisecond. That a
  request ends is not assumed: it takes the upstream and the client, and a stream has
  no time limit. So `CallsAnswered` is conditional: a call that is never answered
  waits for a start that waits for a request, for ever.

- `Scanner`: weak fairness of `Next`: while some goroutine can run, one does. That an
  endpoint always answers or fails is the client's timeout of 45 seconds and the
  dialer's of 10; `Answer` includes the failure.
- `Operator`: weak fairness of the sentinel's own steps, of the ticker, and of its
  `select`. A command ends within the eight seconds of `runCmd`. When a tick and
  the end of the context are both there, `select` may take either. The dashboard's
  side states no fairness, because its properties are invariants.

`Call`, `Arrive`, `AcceptFails`, `Change` and `Cancel` are not fair: nobody has to
ask, and nothing has to fail or change. The other runs check safety only.

## 5. Proofs

`tlapm` checks eight modules. No assumption is used beyond the named ones on
constants, and the hypotheses that two theorems about `ProxyRequest` state. Every
invariant was checked by TLC before it was proved.

Where a proof needs induction over the length of a sequence, the induction principle
is a lemma about sets of numbers (`Induct`, `Induction`), derived from the least
element; the provers can use it for the set of numbers for which a statement holds,
where the library's theorems take an operator. What a recursive function computes is
then proved from its existence (`Recursion`) and the definition by `CHOOSE`.

**AnthropicBlockProofs** (assumes `SizeAssumption`, `IndexAssumption`,
`FrameAssumption`, `BoundAssumption`), for any number of blocks, frames and names.
The properties speak of `out` and of `ledger`, which the handler never reads; it
decides on `bufRaw`, `bufInspect`, `bufName` and `nameFindings`. `IInv` ties them
together: the findings kept are those about the call that is held, and every
resolved call was sent if and only if clean (`Settled`); the held frames start with
the call, do not hold its end (`Holding`), and the inspector was given the fragments
in them, in their order (`OrderlyHolding`); the open block of an orderly upstream is
the one held (`InStep`); a note is remembered (`Noted`); what the client has seen of
calls is over (`CallsClosed`); the next block follows the last one the client saw
(`Contiguous`). Every step forwards one frame, holds one, replays a call, writes a
note or writes nothing, and the lemmas say what each of these preserves
(`ForwardKeepsOut`, `HoldKeepsHold`, `ReplayKeepsCalls`, `OpenerKeepsNumbers`, ...).
Theorems: `TypesHold`, `CallsAreVerified`, `StopReasonFollowsNote`,
`OnlyUncleanDropped`, `BlocksStayContiguous`.

The same module proves that the handler implements `CallGuard` (`ImplementsGuard`). A
step either leaves the calls alone, or opens one, or enters the held one into the
ledger (`NextOfCalls`); what was found against the held call stays found
(`NeverCleaner`); so every step is a `Read` of `CallGuard`, `Close` is its `End`
(`GuardNext`), and the theorems about `CallGuard` below hold for Anthropic streams.

**OpenAIBlockProofs** (assumes `SizeAssumption`, `FragAssumption`), for any number of calls in flight at once. The handler holds one
list of chunks for all calls and decides on an inspector and a name per index;
`CallInv` says that the inspector of a call was given the fragments that the held
chunks have of it, in their order (`Kept`), that a call is unclean exactly if its
inspector, the findings or the cap say so (`Followed`), and that beyond the cap
nothing is held (`Capped`). `Reported`: a dropped call is remembered until the verdict
has it. `InOrder`: an orderly upstream's finish chunk is never held, and until it comes
the client has read no call. `Open`: what the client reads has no end while the handler
reads and one after. `Delivered`: every text is written or held, counted over lists of
chunks of any length. Theorems: `CallsAreVerified`, `TextIsDelivered`,
`StreamEndsCleanly`, `TypesHold`, and `ImplementsGuard`, the refinement of `CallGuard`.

**ResponsesBlockProofs** (assumes `IdAssumption`: an item id is never taken for an
output index, as the code's key `#n` has it, and the empty id is no id;
`SizeAssumption`, `ContentAssumption`). The
handler reads only its table of calls; the properties speak of what the upstream and
the client know. `Serials`, `Named` and `Remembered`: a call is withheld or resolved,
never both, an undeclared name was reported, a drop is remembered. `ErrorIsLast`: the
error event is only written once something of high severity was found, which makes
every later call drop too; that is why the loop left with calls still open writes
nothing but a second error. `InTurn`: the calls withheld from an orderly upstream are
its items not done yet, with their names and, up to the cap, their arguments. `Judged`:
in the loop over the final frame the items before the next are acceptable and the calls
left stand at or after it, which needs the keys to be distinct. `Finished`: with the
final frame out no call is left. Theorems: `CallsAreVerified`, `NothingAfterError`,
`CompletedComesLast`, `TypesHold`, `ImplementsGuard`.

**MonitorStreamProofs** (no assumption), for streams of any length,
all four handlers. Both properties speak of the end of the stream. `Kept` says where the
content of a forwarded frame is until then: inspected, in the inspector of the text, or
in that of its call, which nothing has closed since. For that the handler's table of
open calls has to agree with what the client sees as open (`InStep`), and its
`gotDelta` with the deltas the client has received since the call opened
(`DeltasSeen`), because on that depends whether a closing frame is inspected. The OpenAI
handler compares a call by its index and not by its frame (`NamesChecked`,
`BegunChecked`). Theorems: `EverythingInspected`, `EveryCallChecked`, `TypesHold`.

**FoundationProofs** is about what the handlers of streams rest on.

*StreamInspector* (assumes `WindowAssumption`: the overlap is smaller than
the window, as `window.go` has it; `LengthAssumption`). `NothingLost` is not
inductive, because it speaks of the end only. The strengthening is
`WindowInv == InspectorTypeOK /\ OverlapKept /\ StillPending`: a signature not yet reported is
still wholly pending (`StillPending`), and in front of what comes next there is an
overlap, or the start of the stream or of what follows a `Finish` (`OverlapKept`).
One lemma per action: a signature that ends in new bytes cannot start before the
kept overlap (`WriteKeeps`); one that starts before the bytes kept ends inside the
window just scanned (`ScanKeeps`); `Finish` sees everything (`FinishKeeps`).
Theorems: `WindowsTyped`, `NoSignatureLost`, `NoSignatureInvented`.

*ProxyRequest* (assumes `NumberAssumption`). `IInv` says where a request can
be: nothing is sent or reported before it is served (`Unserved`), the handler that
serves it fits its response (`Dispatched`), and between serving and reporting the
blocked flag tells what the client got (`Resolved`). `VerdictsTell` holds as it
stands. `BlockModeKeepsWord` is proved under `Unwrapped`, limits other than the
largest 64-bit number, and `BodiesPassWhole` under `Unwrapped /\ ~Managed`: the first
hypothesis is the one the runs make as well, the second is the one the violation run
refutes.

*SSEReader* (assumes `CapAssumption`, `SizeAssumption`). The invariant `ReaderInv` says
what the reader's variables stand for: the buffer is the open frame from its first
line on, so far within the caps (`Holding`), or nothing is held and the open frame is
over a cap already (`Skipping`). Frames that their blank line has ended were
delivered if they fit (`NoneLost`), and no others were (`Delivered`, `InTurn`). While
nothing was reported, every frame so far has fit (`NothingSkipped`).
Theorems: `ReaderTypesHold`, `DeliveredWhole`, `OthersDelivered`.

*CallGuard* (no assumption): what any implementation of `CallGuard` inherits. A released
call was never found unacceptable (`OnlyCleanReleased`), and fates are final
(`FatesAreFinal`).

**DashboardProofs** is about the two parts of the dashboard that keep state.

*ProxyManager* (assumes `NoOneAssumption`, `BoundAssumption`).
`OnlyCurrentAccepts` is not inductive: it needs that a start finds no current
server when it listens, although it gave others time to run since it stopped the
old one. `IInv` adds: a call past the mutex holds it (`CallOK`), from its stop on
there is no current server, a server that was not shut down is the current one,
and one that was shut down takes no requests (`ServerOK`), whether its goroutine
began before or after. `RequestOK` and `DecisionOK` tie decisions to servers. One
lemma per action, or per group of actions that leave the servers alone. `FeedInv` says that
while the manager has a server, or one of its calls still stops one, the feed's last
switch is the start of that server's provider, and only then a start; with `IInv`,
`StartsAndStopsAlternate` follows. Theorems: `OneServerAccepts`,
`DecisionsCredited`, `StartsAndStopsInTurn`, `TypeCorrect`, for any number of callers,
servers and requests.

*ProviderStore* (assumes `ImportAssumption`). `UniqueIds` is not inductive: a new
profile gets the id `next`, which is free only because it is above every number in the list (`Below`), and after
a restart the list is the one in the file, which must have distinct ids too.
`ErrorsChangeNothing` needs also that a serial is given to one profile only
(`Serials`). The ids an import gives out are a recursion over its entries (`MaxAfter`).
Theorems: `IdsAreUnique`, `ReportedSurvives`, `ErrorsChangeNothing`, for lists and
imports of any length.

**OperatorProofs** (assumes `KeepAssumption`: the feed keeps at least one entry,
which `NewActivityLog` ensures). `ActivityKeepsLast` speaks of what readers get and
is not inductive. The strengthening `RingInv` is `SliceInArray` (the slice lies
inside its array) and `SliceEndsFed` (it holds the end of what was added since the
last clear, and all of it while there is room). One lemma says what `append` keeps,
whether it writes in place or copies (`AppendedKeeps`); from it follow `Add` with and
without eviction (`AddKeepsRing`) and `Clear`; `StepsOfFeed` shows that every step of
`Operator` leaves the feed alone or is one of the two. Theorem: `FeedKeepsLast`.

Its second part is the decision log (assumes `RequestAssumption`, with finitely many
managed requests, because the counters are compared with a cardinality). The holder
of a process's mutex is the one request of the process between its record and its
newline (`WritesAlone`), so that without a failed write the lines of that process are
ended when the next record is written; the counters move with the requests they
count (`CountsKept`). Theorem: `LogAgrees`.

The third is the sentinel, with the checks of both builds: the readings of the audit
under way are as many as it has run (`AuditFits`), and what was last seen of a check
is its last reading (`SeenIsLast`). Theorem: `AlertsAreReadings`.

**ScannerProofs** (assumes `EngineAssumption` and `AnswerAssumption`: an answer has a
status of three digits, or none and then shows nothing). For
`FindingsAsSequential` the groups of rules are shown to follow one another and to be
all the rules (`GroupsFollow`), so that what the first groups found is what the rules
up to the end of the last of them find (`MatchesJoin`, `MergedIsSequential`). The
invariant `ScanInv` says which probes may run in which phase (`Launched`), what has been found while a
probe runs and after (`ProbeOK`), and that the report is about probes that are
finished (`Reported`): a slot that was read is never written again, neither between
two phases nor after the report. For the verdict, the score is at least what any one
probe adds to it and nothing when none adds anything (`SumOfPoints`). Theorems:
`FindingsOfRules`, `ReportIsTrue`, `VerdictIsTrue`.

Only model-checked: the liveness properties (`LoopEnds`, `ListenersReleased`,
`CallsAnswered`, `ScanEnds`, `FlaggedIsTold`), because liveness under fairness is out
of the prover's reach. The type invariants of
`StreamInspector`, `ProxyManager`, `OpenAIBlock`, `ResponsesBlock` and `MonitorStream`
are proved and not part of a run.

## 6. Abstractions

- A finding is its rule; wording, line numbers and redaction are left out.
- Tool arguments and text are sequences of fragments; JSON, field order and the
  rewriting of frames are left out, except where a frame changes meaning (notes,
  stop reasons, finish chunks).
- A delta frame carries content. An empty one, which only notes that deltas came
  (`proxy/responses.go:116`), does not occur.
- Byte sizes are small numbers; the real caps are 4 MiB and more.
- A rule matches inside one window; patterns that match longer stretches than the
  overlap holds are outside `NothingLost` (`Short`).
- An import with an invalid entry is refused before anything changes, so it is
  not an action.
- `append` is taken to double an array that is full.
- Output of system commands is a set of facts about the host; request bodies,
  addresses and the wording of a scan's notes are left out.
- Client and upstream are the environment: any legal input, in any order, with
  failing writes and reads at any point.

## 7. Plan

Done, in the order of importance: the inspector, the abstract guard, the three
block-mode handlers, the reader, the request path, the manager, the store; then
the monitor handlers, the engine and the scanner, the feed, the log and the
sentinel; the proofs of section 5.

Next, modelling: the composition of `ProviderStore` with the start handler, which
passes on a copy of a profile (`dashboard/server.go:99`), and the cache of the
update check (`cmd/holone/update.go`).

## 8. Not modelled

- The rules, their patterns, their loading and redaction are data and text
  processing; the models take a rule as the stretches, or the texts, it matches.
- The dashboard page is presentation. The read-only API handlers call one function
  each; the local-only and token checks are conditions on one request.
- Installers and packaging are linear scripts; the mock provider is a test stub.
- Of the command line: flags, byte sizes and terminal output, which are conversions
  of one value each, and the update check, which reads a cache file and prints a
  line. The limits the flags set are inputs of `ProxyRequest`.

## 9. Running

```
tlc -config Anthropic.cfg MCAnthropicBlock.tla     # any run: its cfg and module
tlapm --stretch 3 DashboardProofs.tla              # any *Proofs module
```

Module and configuration of every run are in `PROJECT.json`. The longest run takes
about a minute on two workers, the longest proof about a minute.
