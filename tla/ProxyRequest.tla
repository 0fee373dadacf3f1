---------------------------- MODULE ProxyRequest ----------------------------
(***************************************************************************)
(* One request through the proxy: ServeHTTP, serveStream, serveBuffered    *)
(* and report in internal/proxy/proxy.go, with the body handling of        *)
(* body.go and, for a proxy the dashboard manages, the activity recorder   *)
(* in front of it (internal/dashboard/dashboard.go).                       *)
(*                                                                         *)
(* A body is its length; what a response says is the severity the rules    *)
(* give it and the kind of tool call it carries.  The stream handlers are  *)
(* modelled by what AnthropicBlock, OpenAIBlock and ResponsesBlock show of *)
(* their findings and verdict.                                             *)
(***************************************************************************)
EXTENDS Integers, FiniteSets

CONSTANTS
  MaxInt,          \* largest int64
  Lengths,         \* body lengths
  Limits,          \* values of --max-request-size and --max-response-size
  DefaultLimit,    \* the built-in caps
  RecordLimit,     \* bytes the activity recorder reads (4096)
  Managed,         \* TRUE: behind the dashboard's activity recorder
  MaxRedirects     \* maxRedirects

ASSUME NumberAssumption ==
  /\ MaxInt \in Nat \ {0} /\ DefaultLimit \in 1..MaxInt /\ RecordLimit \in 1..MaxInt
  /\ Lengths \subseteq 0..(MaxInt - 1) /\ Limits \subseteq 0..MaxInt
  /\ MaxRedirects \in Nat /\ Managed \in BOOLEAN

VARIABLES
  config,     \* mode, limits
  request,    \* what the client sends
  answer,     \* what the upstream answers
  pc,         \* where the handler is
  hops,       \* redirects followed
  seen,       \* what of the request body the proxy works with
  declares,   \* the declared tool names, as far as the proxy knows
  body,       \* openResponseBody: "plain", "decoded" or "undecodable"
  findings,
  blocked, streaming,
  reply,      \* what the client gets
  reports     \* verdicts given to the log

state == <<findings, blocked, streaming>>
vars  == <<config, request, answer, pc, hops, seen, declares, body, state,
           reply, reports>>

-----------------------------------------------------------------------------
(* Bodies *)

\* int64 addition wraps around.
Wrap(n) == IF n > MaxInt THEN n - 2 * (MaxInt + 1) ELSE n

Shorter(m, n) == IF m <= n THEN m ELSE n

\* io.LimitReader reads nothing once its budget is not positive.
Limited(n, limit) == IF limit <= 0 THEN 0 ELSE Shorter(n, limit)

\* Mutant: the reader stops at the limit instead of one byte past it.
ReadToLimit(n, limit) == Limited(n, limit)

\* readBodyLimit, up to its check of the length.
ReadPast(n, limit) == Limited(n, Wrap(limit + 1))

TooLarge(n, limit) == ReadPast(n, limit) > limit

FirstPositive(v) == IF v > 0 THEN v ELSE DefaultLimit

-----------------------------------------------------------------------------
(* What is known of the environment *)

\* "corrupt" cannot be decoded, "misnamed" is plain text under an encoding's name.
Encodings == {"identity", "gzip", "corrupt", "other", "misnamed"}

\* A body that is not whole breaks off after len bytes.
Requests == {q \in [len : Lengths, whole : BOOLEAN, tools : BOOLEAN,
                    path : {"known", "generic"}] : q.tools => q.len > 0}

\* severity is that of the text; a "harmful" call is declared, its arguments are
\* of high severity; "mentioned" is a call the proxy sees no name of; overflow is
\* a line or frame over the caps of SSEReader.
Answers ==
  {a \in [sse : BOOLEAN, enc : Encodings, len : Lengths, whole : BOOLEAN,
          severity : {"none", "medium", "high"}, overflow : BOOLEAN,
          call : {"none", "declared", "harmful", "undeclared", "mentioned"}] :
     /\ a.len = 0 => a.severity = "none" /\ a.call = "none" /\ ~a.overflow
     /\ a.overflow => a.sse
     /\ a.call = "mentioned" => ~a.sse}

NoReply == [status |-> "none", body |-> "none", len |-> 0, encoded |-> FALSE,
            length |-> "none"]

OwnReply == [status |-> "error", body |-> "own", len |-> 0, encoded |-> FALSE,
             length |-> "own"]

IsHigh(fs) == fs \cap {"high", "unsolicited", "undeclared", "oversized"} # {}

-----------------------------------------------------------------------------
(* The request *)

\* proxyActivityRecorder hands on what it read for its log.
Received == IF Managed THEN Limited(request.len, RecordLimit) ELSE request.len

\* The recorder also ignores that reading the body failed.
ReadFails == ~Managed /\ ~request.whole

RejectRequest ==
  /\ pc = "received"
  /\ TooLarge(Received, config.maxRequest) \/ ReadFails
  /\ reply' = OwnReply
  /\ pc' = "done"
  /\ UNCHANGED <<config, request, answer, hops, seen, declares, body, state, reports>>

\* The tools are declared in JSON, so only a whole body declares any.
ReadRequest ==
  /\ pc = "received"
  /\ ~TooLarge(Received, config.maxRequest) /\ ~ReadFails
  /\ seen' = ReadPast(Received, config.maxRequest)
  /\ declares' = (request.tools /\ seen' = request.len)
  /\ pc' = "asking"
  /\ UNCHANGED <<config, request, answer, hops, body, state, reply, reports>>

\* checkUpstreamRedirect; a chain that is too long, or leads to another origin,
\* is an upstream that fails.
MayFollow == hops < MaxRedirects

FollowRedirect ==
  /\ pc = "asking"
  /\ MayFollow
  /\ hops' = hops + 1
  /\ UNCHANGED <<config, request, answer, pc, seen, declares, body, state, reply, reports>>

UpstreamFails ==
  /\ pc = "asking"
  /\ reply' = OwnReply
  /\ pc' = "done"
  /\ UNCHANGED <<config, request, answer, hops, seen, declares, body, state, reports>>

-----------------------------------------------------------------------------
(* The response *)

Opened(a) == CASE a.enc = "identity" -> "plain"
               [] a.enc = "gzip"     -> "decoded"
               [] OTHER              -> "undecodable"

Dispatch == IF answer.sse THEN "streaming" ELSE "buffering"

OpenBody ==
  /\ pc = "asking"
  /\ Opened(answer) # "undecodable"
  /\ body' = Opened(answer)
  /\ pc' = Dispatch
  /\ UNCHANGED <<config, request, answer, hops, seen, declares, state, reply, reports>>

\* Mutant: block mode forwards it like monitor mode.
RefuseNever == FALSE

\* Block mode refuses what it cannot decode ...
Refuses == config.mode = "block"

RefuseEncoding ==
  /\ pc = "asking"
  /\ Opened(answer) = "undecodable" /\ Refuses
  /\ body' = "undecodable"
  /\ blocked' = TRUE
  /\ streaming' = answer.sse
  /\ reply' = OwnReply
  /\ pc' = "reporting"
  /\ UNCHANGED <<config, request, answer, hops, seen, declares, findings, reports>>

\* ... monitor mode forwards it as it is, and says so.
ForwardEncoded ==
  /\ pc = "asking"
  /\ Opened(answer) = "undecodable" /\ ~Refuses
  /\ body' = "undecodable"
  /\ findings' = findings \cup {"uninspected"}
  /\ pc' = Dispatch
  /\ UNCHANGED <<config, request, answer, hops, seen, declares, blocked, streaming,
                 reply, reports>>

\* What a call makes the proxy find; it finds none in a stream of a protocol it
\* does not know.
CallFindings(a) ==
  IF a.call = "none" \/ (a.sse /\ request.path = "generic") THEN {}
  ELSE IF ~declares THEN {"unsolicited"}
  ELSE {f \in {"undeclared"} : a.call = "undeclared"}

\* What a whole response makes it find; bytes left encoded tell it nothing.
Found(a) ==
  IF body = "undecodable" /\ a.enc # "misnamed" THEN {}
  ELSE ({a.severity} \ {"none"}) \cup {f \in {"high"} : a.call = "harmful"}
         \cup CallFindings(a)

\* writeResponseHeaders
Headers(len, stream) ==
  [status |-> "ok", body |-> "upstream", len |-> len,
   encoded |-> answer.enc # "identity" /\ body # "decoded",
   length |-> IF stream \/ body = "decoded" THEN "none" ELSE "upstream"]

\* The JSON error that stands in for a blocked body.
BlockedReply == [Headers(0, FALSE) EXCEPT !.body = "own", !.length = "own"]

BufferFails == ~answer.whole \/ TooLarge(answer.len, config.maxResponse)

RefuseBuffered ==
  /\ pc = "buffering"
  /\ BufferFails
  /\ reply' = OwnReply
  /\ pc' = "done"
  /\ UNCHANGED <<config, request, answer, hops, seen, declares, body, state, reports>>

ServeBuffered ==
  LET n  == ReadPast(answer.len, config.maxResponse)
      fs == findings \cup (IF n = answer.len THEN Found(answer) ELSE {})
      bl == config.mode = "block" /\ IsHigh(fs)
  IN
  /\ pc = "buffering"
  /\ ~BufferFails
  /\ findings' = fs
  /\ blocked' = bl
  /\ reply' = IF bl THEN BlockedReply ELSE [Headers(n, FALSE) EXCEPT !.length = "own"]
  /\ pc' = "reporting"
  /\ UNCHANGED <<config, request, answer, hops, seen, declares, body, streaming, reports>>

\* What of a stream is found: of one that broke off or overflowed, perhaps less.
StreamFindings ==
  IF answer.whole /\ ~answer.overflow THEN {Found(answer)}
  ELSE {fs \cup {f \in {"oversized"} : answer.overflow} : fs \in SUBSET Found(answer)}

\* What block mode replaces in a protocol it knows: a call it may not send, and one
\* that ends after something of high severity was found in the stream ...
Undue(fs) == fs \cap {"unsolicited", "undeclared", "oversized"} # {}
MayAlter(fs) ==
  /\ config.mode = "block" /\ request.path = "known"
  /\ Undue(fs) \/ (answer.call # "none" /\ "high" \in fs)

\* ... which text is, for the calls that end before it is inspected, too late.
MustAlter(fs) ==
  MayAlter(fs) /\ (Undue(fs) \/ (answer.call = "harmful" /\ answer.whole))

\* A stream is delivered as it arrives, and what breaks off goes unnoticed.  (The
\* writers net/http gives to the handler can always flush.)
ServeStream ==
  /\ pc = "streaming"
  /\ \E fs \in StreamFindings, altered \in BOOLEAN :
       /\ altered => MayAlter(fs)
       /\ MustAlter(fs) => altered
       /\ findings' = findings \cup fs
       /\ blocked' = altered
       /\ reply' = [Headers(answer.len, TRUE) EXCEPT
                       !.body = IF altered THEN "altered" ELSE "upstream"]
  /\ streaming' = TRUE
  /\ pc' = "reporting"
  /\ UNCHANGED <<config, request, answer, hops, seen, declares, body, reports>>

-----------------------------------------------------------------------------
(* report *)

\* Mutant: the findings come first.
AlertFirst ==
  IF findings # {} THEN "alert" ELSE IF blocked THEN "blocked" ELSE "clean"

Verdict ==
  IF blocked THEN "blocked" ELSE IF findings # {} THEN "alert" ELSE "clean"

\* protectionFor
Protection ==
  IF config.mode # "block" THEN "monitor-only"
  ELSE IF streaming /\ request.path = "generic" THEN "unsupported" ELSE "protected"

Report ==
  /\ pc = "reporting"
  /\ reports' = reports \cup {[verdict |-> Verdict, protection |-> Protection]}
  /\ pc' = "done"
  /\ UNCHANGED <<config, request, answer, hops, seen, declares, body, state, reply>>

-----------------------------------------------------------------------------

Init ==
  /\ \E m \in {"monitor", "block"}, q \in Limits, s \in Limits :
       config = [mode |-> m, maxRequest |-> FirstPositive(q),
                 maxResponse |-> FirstPositive(s)]
  /\ request \in Requests
  /\ answer \in Answers
  /\ pc = "received" /\ hops = 0 /\ seen = 0 /\ declares = FALSE /\ body = "plain"
  /\ findings = {} /\ blocked = FALSE /\ streaming = FALSE
  /\ reply = NoReply /\ reports = {}

Next ==
  \/ RejectRequest \/ ReadRequest \/ FollowRedirect \/ UpstreamFails
  \/ OpenBody \/ RefuseEncoding \/ ForwardEncoded
  \/ RefuseBuffered \/ ServeBuffered \/ ServeStream
  \/ Report

Spec == Init /\ [][Next]_vars

-----------------------------------------------------------------------------
(* Properties *)

\* What the upstream is asked is never a part of the request the client sent
\* (proxy.go:94-96).
NeverTruncated ==
  pc \notin {"received", "done"} /\ request.whole => seen = request.len

\* A body is passed on whole or not at all, in both directions: the request the
\* upstream is asked, and the buffered response the client gets (body.go:16-18).
\* What the client gets is labelled as encoded exactly when it still is, and never
\* with the upstream's Content-Length, which need not be that of the bytes sent.
BodiesWhole ==
  /\ NeverTruncated
  /\ pc \notin {"received", "done"} => request.whole
  /\ reply.body = "upstream" /\ ~streaming => answer.whole /\ reply.len = answer.len
  /\ reply.encoded <=> reply.body = "upstream" /\ body = "undecodable"
  /\ reply.length # "upstream"

\* In block mode the client gets nothing of a response the proxy could not read
\* and, of one reported as protected, no call it did not declare and none of high
\* severity, unless the stream broke off before the call was complete.
BlockModeDelivers ==
  config.mode = "block" /\ reply.body = "upstream" =>
    /\ body # "undecodable"
    /\ Protection = "protected" /\ answer.whole =>
         /\ answer.call \in {"none", "declared", "mentioned"}
         /\ answer.call # "none" => declares
         /\ ~answer.overflow

\* The client gets upstream data only with a report, and the verdict says
\* whether what it got is what the upstream sent.
Replaced == reply.body \in {"own", "altered"}
ReportMatchesReply ==
  pc = "done" =>
    /\ reply.body \in {"upstream", "altered"} => reports # {}
    /\ \A r \in reports : r.verdict = "blocked" <=> Replaced
    /\ \A r \in reports : r.verdict = "clean" => findings = {}
=============================================================================
