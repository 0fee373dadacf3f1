--------------------------- MODULE FoundationProofs ---------------------------
(***************************************************************************)
(* Proofs about the four parts that the handlers of streams rest on.       *)
(*                                                                         *)
(* ProxyRequest, for bodies and limits of any size: a verdict is given for *)
(* whatever is passed on, and is true of it (VerdictsTell); block mode     *)
(* lets through only what it claims to (BlockModeKeepsWord); bodies pass   *)
(* whole or not at all (BodiesPassWhole).  The last two need limits at     *)
(* which limit+1 does not wrap (Unwrapped): with the largest one ReadPast  *)
(* reads nothing and finds it short enough.  The last one also needs that  *)
(* no activity recorder cuts the request.  The invariant adds where a      *)
(* request can be: nothing is sent or reported before it is served         *)
(* (Unserved), it is served by the handler that fits its response          *)
(* (Dispatched), and between serving and reporting the blocked flag tells  *)
(* what the client got (Resolved).                                         *)
(*                                                                         *)
(* StreamInspector: the windows lose no signature and invent none, for     *)
(* every window size, overlap, stream and cutting of the stream into       *)
(* chunks.                                                                 *)
(*                                                                         *)
(* CallGuard (Promise): what the abstract promise of block mode entails,   *)
(* for any set of calls; each handler that implements it inherits it.      *)
(*                                                                         *)
(* SSEReader, for streams of any length and any caps: what is held never   *)
(* exceeds a frame (ReaderTypesHold), every frame delivered is one frame   *)
(* of the stream, whole and in its turn (DeliveredWhole), and an overflow  *)
(* costs its own frame and no other (OthersDelivered).  The invariant      *)
(* (ReaderInv) says what the reader's three variables stand for while it   *)
(* reads: the buffer is the open frame from its first line on, so far      *)
(* within the caps (Holding), or nothing is held and the open frame is     *)
(* over a cap already, which no further line can mend (Skipping).  Of the  *)
(* frames their blank line has ended, those within the caps were delivered *)
(* (NoneLost) and no others were (Delivered).  Once the reading is over    *)
(* only the two properties themselves remain.                              *)
(***************************************************************************)
EXTENDS ProxyRequest, StreamInspector, SSEReader, Integers, TLAPS

\* The calls of one response, and what became of them.
CONSTANT Call
VARIABLES held, sent, dropped, tainted, gone, ended, reported

Promise == INSTANCE CallGuard WITH blocked <- reported

-----------------------------------------------------------------------------
(* The request path: what the invariant says *)

\* The limits are below the largest 64-bit number, where limit+1 does not wrap.
Unwrapped == MaxInt \notin Limits /\ DefaultLimit # MaxInt

Positions == {"received", "asking", "streaming", "buffering", "reporting", "done"}

Types ==
  /\ config.mode \in {"monitor", "block"}
  /\ config.maxRequest \in 1..MaxInt /\ config.maxResponse \in 1..MaxInt
  /\ Unwrapped => config.maxRequest # MaxInt /\ config.maxResponse # MaxInt
  /\ request \in Requests /\ answer \in Answers
  /\ pc \in Positions
  /\ streaming \in BOOLEAN

\* Nothing was sent, found or reported before the response is served.
Unserved ==
  pc \in {"received", "asking", "streaming", "buffering"} =>
    reply.body = "none" /\ reports = {} /\ ~streaming

\* Only streams are streamed, and block mode serves nothing it could not decode.
Dispatched ==
  /\ pc = "streaming" => answer.sse
  /\ pc = "buffering" => ~answer.sse
  /\ pc \in {"streaming", "buffering"} => body = Opened(answer)
  /\ pc \in {"streaming", "buffering"} /\ config.mode = "block" => body # "undecodable"

\* A request that is still to be reported was blocked exactly when its response
\* was replaced; one that ended without a report got an error of the proxy.
Resolved ==
  /\ pc = "reporting" => reports = {} /\ (blocked = TRUE <=> Replaced)
  /\ pc = "done" /\ reports = {} => reply.body = "own"

IInv ==
  /\ Types /\ Unserved /\ Dispatched /\ Resolved
  /\ ReportMatchesReply
  /\ Unwrapped => BlockModeDelivers
  /\ Unwrapped /\ ~Managed => BodiesWhole
-----------------------------------------------------------------------------
(* Reading under a limit *)

\* What was read and not refused is the whole body (readBodyLimit, body.go:33-43).
LEMMA WholeRead ==
  ASSUME NEW n \in Lengths, NEW limit \in 1..MaxInt, limit # MaxInt,
         ~TooLarge(n, limit)
  PROVE  ReadPast(n, limit) = n
<1>1. /\ n \in Nat /\ limit \in Nat /\ 1 <= limit /\ limit + 1 <= MaxInt /\ MaxInt \in Nat
  BY NumberAssumption
<1>2. Wrap(limit + 1) = limit + 1
  BY <1>1 DEF Wrap
<1>3. ReadPast(n, limit) = IF n <= limit + 1 THEN n ELSE limit + 1
  BY <1>1, <1>2 DEF ReadPast, Limited, Shorter
<1>4. ~(ReadPast(n, limit) > limit)
  BY DEF TooLarge
<1> QED BY <1>1, <1>3, <1>4

LEMMA RequestFacts ==
  ASSUME request \in Requests
  PROVE  request.len \in Lengths /\ request.whole \in BOOLEAN
         /\ request.path \in {"known", "generic"}
  BY DEF Requests

LEMMA AnswerFacts ==
  ASSUME answer \in Answers
  PROVE  /\ answer.len \in Lengths
         /\ answer.call \in {"none", "declared", "harmful", "undeclared", "mentioned"}
         /\ answer.overflow => answer.sse
  BY DEF Answers

\* The label of an encoding stays on bytes that are still encoded, and on no others.
LEMMA EncodingLabel ==
  ASSUME body = Opened(answer)
  PROVE  (answer.enc # "identity" /\ body # "decoded") <=> body = "undecodable"
  BY DEF Opened

\* What a whole response makes the proxy find, where it could read it.
LEMMA CallsFound ==
  ASSUME body # "undecodable",
         ~(answer.sse /\ request.path = "generic")
  PROVE  /\ answer.call = "harmful" => "high" \in Found(answer)
         /\ answer.call = "undeclared" =>
              Found(answer) \cap {"unsolicited", "undeclared"} # {}
         /\ answer.call # "none" /\ ~declares => "unsolicited" \in Found(answer)
  BY DEF Found, CallFindings

-----------------------------------------------------------------------------
(* The steps *)

\* A request that is refused, or whose upstream fails, gets an error.
LEMMA RefusalKeeps ==
  ASSUME IInv, RejectRequest \/ UpstreamFails \/ RefuseBuffered
  PROVE  IInv'
<1>1. /\ reply' = OwnReply /\ pc' = "done"
      /\ UNCHANGED <<config, request, answer, body, streaming, reports>>
      /\ reports = {}
  BY DEF RejectRequest, UpstreamFails, RefuseBuffered, state, IInv, Unserved
<1>2. reply'.body = "own"
  BY <1>1 DEF OwnReply
<1>3. Types' /\ Unserved' /\ Dispatched' /\ Resolved'
  BY <1>1, <1>2 DEF IInv, Types, Positions, Unserved, Dispatched, Resolved
<1>4. ReportMatchesReply' /\ BlockModeDelivers'
  BY <1>1, <1>2 DEF ReportMatchesReply, BlockModeDelivers
<1>5. BodiesWhole'
  BY <1>1, <1>2 DEF BodiesWhole, NeverTruncated, OwnReply
<1> QED BY <1>3, <1>4, <1>5 DEF IInv

LEMMA ReadRequestKeeps ==
  ASSUME IInv, ReadRequest
  PROVE  IInv'
<1>1. /\ pc = "received" /\ pc' = "asking"
      /\ seen' = ReadPast(Received, config.maxRequest)
      /\ ~TooLarge(Received, config.maxRequest) /\ ~ReadFails
      /\ UNCHANGED <<config, request, answer, body, streaming, blocked, reply, reports>>
  BY DEF ReadRequest, state
<1>2. Types' /\ Unserved' /\ Dispatched' /\ Resolved'
  BY <1>1 DEF IInv, Types, Positions, Unserved, Dispatched, Resolved
<1>3. reply'.body = "none"
  BY <1>1 DEF IInv, Unserved
<1>4. ReportMatchesReply' /\ BlockModeDelivers'
  BY <1>1, <1>3 DEF ReportMatchesReply, BlockModeDelivers
<1>5. ASSUME Unwrapped, ~Managed PROVE BodiesWhole'
  <2>1. Received = request.len /\ request.whole
    BY <1>1, <1>5 DEF Received, ReadFails
  <2>2. seen' = request.len
    BY <1>1, <1>5, <2>1, WholeRead, RequestFacts DEF IInv, Types
  <2> QED BY <1>1, <1>3, <1>5, <2>1, <2>2 DEF IInv, BodiesWhole, NeverTruncated
<1> QED BY <1>2, <1>4, <1>5 DEF IInv

\* The response is opened and handed on, or another redirect is followed.
LEMMA DispatchKeeps ==
  ASSUME IInv, FollowRedirect \/ OpenBody \/ ForwardEncoded
  PROVE  IInv'
<1>1. /\ pc = "asking" /\ pc' \in {"asking", "streaming", "buffering"}
      /\ pc' = "streaming" => answer.sse
      /\ pc' = "buffering" => ~answer.sse
      /\ pc' # "asking" /\ config.mode = "block" => body' # "undecodable"
      /\ pc' # "asking" => body' = Opened(answer)
      /\ UNCHANGED <<config, request, answer, seen, declares, streaming, blocked,
                     reply, reports>>
  BY DEF FollowRedirect, OpenBody, ForwardEncoded, Dispatch, Refuses, state
<1>2. Types' /\ Unserved' /\ Dispatched' /\ Resolved'
  BY <1>1 DEF IInv, Types, Positions, Unserved, Dispatched, Resolved
<1>3. reply'.body = "none"
  BY <1>1 DEF IInv, Unserved
<1>4. ReportMatchesReply' /\ BlockModeDelivers'
  BY <1>1, <1>3 DEF ReportMatchesReply, BlockModeDelivers
<1>5. ASSUME BodiesWhole PROVE BodiesWhole'
  BY <1>1, <1>3, <1>5 DEF BodiesWhole, NeverTruncated
<1> QED BY <1>2, <1>4, <1>5 DEF IInv

LEMMA RefuseEncodingKeeps ==
  ASSUME IInv, RefuseEncoding
  PROVE  IInv'
<1>1. /\ pc = "asking" /\ pc' = "reporting" /\ blocked' = TRUE /\ streaming' = answer.sse
      /\ reply'.body = "own" /\ reply'.encoded = FALSE /\ reply'.length = "own"
      /\ UNCHANGED <<config, request, answer, seen, reports>>
  BY DEF RefuseEncoding, OwnReply
<1>2. answer.sse \in BOOLEAN
  BY DEF IInv, Types, Answers
<1>3. Types' /\ Unserved' /\ Dispatched' /\ Resolved'
  BY <1>1, <1>2 DEF IInv, Types, Positions, Unserved, Dispatched, Resolved, Replaced
<1>4. ReportMatchesReply' /\ BlockModeDelivers'
  BY <1>1 DEF ReportMatchesReply, BlockModeDelivers
<1>5. ASSUME BodiesWhole PROVE BodiesWhole'
  BY <1>1, <1>5 DEF BodiesWhole, NeverTruncated
<1> QED BY <1>3, <1>4, <1>5 DEF IInv

\* A buffered response passes whole and with a clean bill, or not at all.
LEMMA ServeBufferedKeeps ==
  ASSUME IInv, ServeBuffered
  PROVE  IInv'
<1> DEFINE n  == ReadPast(answer.len, config.maxResponse)
           fs == findings \cup (IF n = answer.len THEN Found(answer) ELSE {})
           bl == config.mode = "block" /\ IsHigh(fs)
<1>1. /\ pc = "buffering" /\ pc' = "reporting" /\ ~BufferFails
      /\ blocked' = bl
      /\ reply' = IF bl THEN BlockedReply ELSE [Headers(n, FALSE) EXCEPT !.length = "own"]
      /\ UNCHANGED <<config, request, answer, seen, declares, body, streaming, reports>>
  BY DEF ServeBuffered
<1>2. ~answer.sse /\ reports = {} /\ ~streaming
      /\ (config.mode = "block" => body # "undecodable")
  BY <1>1 DEF IInv, Dispatched, Unserved
<1>3. /\ bl => reply'.body = "own"
      /\ ~bl => reply'.body = "upstream" /\ reply'.len = n
  BY <1>1 DEF BlockedReply, Headers
<1>4. Types' /\ Unserved' /\ Dispatched'
  BY <1>1, <1>2 DEF IInv, Types, Positions, Unserved, Dispatched
<1>5. Resolved'
  <2>1. blocked' = TRUE <=> reply'.body \in {"own", "altered"}
    BY <1>1, <1>3
  <2> QED BY <1>1, <1>2, <2>1 DEF Resolved, Replaced
<1>6. ReportMatchesReply'
  BY <1>1 DEF ReportMatchesReply
<1>7. answer.whole /\ ~TooLarge(answer.len, config.maxResponse)
  BY <1>1 DEF BufferFails
<1>8. ASSUME Unwrapped PROVE n = answer.len
  BY <1>7, <1>8, WholeRead, AnswerFacts DEF IInv, Types
<1>9. ASSUME Unwrapped PROVE BlockModeDelivers'
  <2> SUFFICES ASSUME config'.mode = "block", reply'.body = "upstream"
               PROVE  /\ body' # "undecodable"
                      /\ /\ answer'.call \in {"none", "declared", "mentioned"}
                         /\ answer'.call # "none" => declares'
                         /\ ~answer'.overflow
    BY DEF BlockModeDelivers
  <2>1. ~bl /\ body # "undecodable"
    BY <1>1, <1>2, <1>3
  <2>2. Found(answer) \cap {"high", "unsolicited", "undeclared"} = {}
    <3>1. Found(answer) \subseteq fs
      BY <1>8, <1>9
    <3>2. fs \cap {"high", "unsolicited", "undeclared", "oversized"} = {}
      BY <1>1, <2>1 DEF IsHigh
    <3> QED BY <3>1, <3>2
  <2>3. /\ answer.call \notin {"harmful", "undeclared"}
        /\ answer.call # "none" => declares
    BY <1>2, <2>1, <2>2, CallsFound
  <2>4. ~answer.overflow
    BY <1>2, AnswerFacts DEF IInv, Types
  <2> QED BY <1>1, <2>1, <2>3, <2>4, AnswerFacts DEF IInv, Types
<1>10. ASSUME Unwrapped, ~Managed PROVE BodiesWhole'
  <2>1. reply'.body = "upstream" => answer.whole /\ reply'.len = answer.len
    BY <1>3, <1>7, <1>8, <1>10
  <2>2. /\ reply'.encoded = (answer.enc # "identity" /\ body # "decoded")
        /\ reply'.length = "own"
    BY <1>1 DEF BlockedReply, Headers
  <2>3. (answer.enc # "identity" /\ body # "decoded") <=> body = "undecodable"
    BY <1>1, EncodingLabel DEF IInv, Dispatched
  <2>4. bl => body # "undecodable"
    BY <1>2
  <2>5. reply'.encoded <=> reply'.body = "upstream" /\ body' = "undecodable"
    BY <1>1, <1>3, <2>2, <2>3, <2>4
  <2> QED BY <1>1, <1>10, <2>1, <2>2, <2>5 DEF IInv, BodiesWhole, NeverTruncated
<1> QED BY <1>4, <1>5, <1>6, <1>9, <1>10 DEF IInv

\* A stream that was not altered had nothing to alter, as far as it was read.
LEMMA ServeStreamKeeps ==
  ASSUME IInv, ServeStream
  PROVE  IInv'
<1>1. /\ pc = "streaming" /\ pc' = "reporting" /\ streaming' = TRUE
      /\ UNCHANGED <<config, request, answer, seen, declares, body, reports>>
  BY DEF ServeStream
<1>2. PICK fs \in StreamFindings, altered \in BOOLEAN :
        /\ altered => MayAlter(fs)
        /\ MustAlter(fs) => altered
        /\ blocked' = altered
        /\ reply' = [Headers(answer.len, TRUE) EXCEPT
                        !.body = IF altered THEN "altered" ELSE "upstream"]
  BY DEF ServeStream
<1>3. /\ reply'.body = IF altered THEN "altered" ELSE "upstream"
      /\ reply'.encoded = (answer.enc # "identity" /\ body # "decoded")
      /\ reply'.length = "none"
  BY <1>2 DEF Headers
<1>4. reports = {} /\ (config.mode = "block" => body # "undecodable")
  BY <1>1 DEF IInv, Dispatched, Unserved
<1>5. Types' /\ Unserved' /\ Dispatched'
  BY <1>1 DEF IInv, Types, Positions, Unserved, Dispatched
<1>6. Resolved'
  <2>1. blocked' = TRUE <=> reply'.body \in {"own", "altered"}
    BY <1>2, <1>3
  <2> QED BY <1>1, <1>4, <2>1 DEF Resolved, Replaced
<1>7. ReportMatchesReply'
  BY <1>1 DEF ReportMatchesReply
<1>8. BlockModeDelivers'
  <2> SUFFICES ASSUME config'.mode = "block", reply'.body = "upstream"
               PROVE  /\ body' # "undecodable"
                      /\ Protection' = "protected" /\ answer'.whole =>
                           /\ answer'.call \in {"none", "declared", "mentioned"}
                           /\ answer'.call # "none" => declares'
                           /\ ~answer'.overflow
    BY DEF BlockModeDelivers
  <2>1. ~MustAlter(fs) /\ body # "undecodable" /\ config.mode = "block"
    BY <1>1, <1>2, <1>3, <1>4
  <2> SUFFICES ASSUME Protection' = "protected", answer.whole
               PROVE  /\ answer.call \in {"none", "declared", "mentioned"}
                      /\ answer.call # "none" => declares
                      /\ ~answer.overflow
    BY <1>1, <2>1
  <2>2. request.path = "known"
    <3>1. request.path # "generic"
      BY <1>1, <2>1 DEF Protection
    <3> QED BY <3>1, RequestFacts DEF IInv, Types
  <2>3. /\ fs \cap {"unsolicited", "undeclared", "oversized"} = {}
        /\ ~(answer.call = "harmful" /\ "high" \in fs)
    BY <2>1, <2>2 DEF MustAlter, MayAlter, Undue
  <2>4. ~answer.overflow
    BY <2>3 DEF StreamFindings
  <2>5. fs = Found(answer)
    BY <2>4 DEF StreamFindings
  <2>6. /\ answer.call \notin {"harmful", "undeclared"}
        /\ answer.call # "none" => declares
    BY <2>1, <2>2, <2>3, <2>5, CallsFound
  <2> QED BY <2>4, <2>6, AnswerFacts DEF IInv, Types
<1>9. ASSUME BodiesWhole PROVE BodiesWhole'
  <2>1. reply'.encoded <=> body = "undecodable"
    BY <1>1, <1>3, EncodingLabel DEF IInv, Dispatched
  <2>2. altered => body # "undecodable"
    BY <1>2, <1>4 DEF MayAlter
  <2>3. reply'.encoded <=> reply'.body = "upstream" /\ body' = "undecodable"
    BY <1>1, <1>3, <2>1, <2>2
  <2> QED BY <1>1, <1>3, <1>9, <2>3 DEF BodiesWhole, NeverTruncated
<1> QED BY <1>5, <1>6, <1>7, <1>8, <1>9 DEF IInv

LEMMA ReportKeeps ==
  ASSUME IInv, Report
  PROVE  IInv'
<1>1. /\ pc = "reporting" /\ pc' = "done" /\ reports = {}
      /\ reports' = {[verdict |-> Verdict, protection |-> Protection]}
      /\ UNCHANGED <<config, request, answer, seen, declares, body, streaming, blocked,
                     findings, reply>>
  BY DEF Report, state, IInv, Resolved
<1>2. Types' /\ Unserved' /\ Dispatched' /\ Resolved'
  BY <1>1 DEF IInv, Types, Positions, Unserved, Dispatched, Resolved
<1>3. ReportMatchesReply'
  <2>1. /\ Verdict = "blocked" <=> Replaced
        /\ Verdict = "clean" => findings = {}
    BY <1>1 DEF IInv, Resolved, Verdict
  <2>2. Replaced' <=> Replaced
    BY <1>1 DEF Replaced
  <2> QED BY <1>1, <2>1, <2>2 DEF ReportMatchesReply
<1>4. ASSUME BlockModeDelivers PROVE BlockModeDelivers'
  BY <1>1, <1>4 DEF BlockModeDelivers, Protection
<1>5. ASSUME BodiesWhole PROVE BodiesWhole'
  BY <1>1, <1>5 DEF BodiesWhole, NeverTruncated
<1> QED BY <1>2, <1>3, <1>4, <1>5 DEF IInv

-----------------------------------------------------------------------------
(* The theorems *)

LEMMA Inductive == Spec => []IInv
<1>1. Init => IInv
  <2> SUFFICES ASSUME Init PROVE IInv
    OBVIOUS
  <2>1. PICK m \in {"monitor", "block"}, q \in Limits, s \in Limits :
          config = [mode |-> m, maxRequest |-> FirstPositive(q),
                    maxResponse |-> FirstPositive(s)]
    BY DEF Init
  <2>2. \A v \in Limits : /\ FirstPositive(v) \in 1..MaxInt
                          /\ Unwrapped => FirstPositive(v) # MaxInt
    BY NumberAssumption DEF FirstPositive, Unwrapped
  <2>3. Types
    BY <2>1, <2>2 DEF Init, Types, Positions
  <2>4. /\ reply.body = "none" /\ reply.encoded = FALSE /\ reply.length = "none"
        /\ reports = {} /\ pc = "received" /\ streaming = FALSE
    BY DEF Init, NoReply
  <2> QED BY <2>3, <2>4 DEF IInv, Unserved, Dispatched, Resolved, ReportMatchesReply,
                            BlockModeDelivers, BodiesWhole, NeverTruncated
<1>2. IInv /\ [Next]_vars => IInv'
  <2> SUFFICES ASSUME IInv, [Next]_vars PROVE IInv'
    OBVIOUS
  <2>1. CASE Next
    BY <2>1, RefusalKeeps, ReadRequestKeeps, DispatchKeeps, RefuseEncodingKeeps,
       ServeBufferedKeeps, ServeStreamKeeps, ReportKeeps DEF Next
  <2>2. CASE UNCHANGED vars
    BY <2>2 DEF vars, state, IInv, Types, Unserved, Dispatched, Resolved, Replaced,
                ReportMatchesReply, BlockModeDelivers, Protection, BodiesWhole,
                NeverTruncated
  <2> QED BY <2>1, <2>2
<1> QED BY <1>1, <1>2, PTL DEF Spec

\* Whoever gets upstream data has been reported, and the verdict tells whether the
\* response was replaced (serveStream to report, proxy.go:314-406), whatever the
\* limits are and whoever reads the request first.
THEOREM VerdictsTell == Spec => []ReportMatchesReply
<1>1. IInv => ReportMatchesReply
  BY DEF IInv
<1> QED BY <1>1, Inductive, PTL

\* What block mode lets through is what it claims to let through, with limits of
\* any size at which limit+1 does not wrap (proxy.go:272-378).
THEOREM BlockModeKeepsWord == Unwrapped => (Spec => []BlockModeDelivers)
<1>1. Unwrapped /\ IInv => BlockModeDelivers
  BY DEF IInv
<1>2. Unwrapped => []Unwrapped
  OBVIOUS
<1> QED BY <1>1, <1>2, Inductive, PTL

\* Bodies pass whole or not at all, with such limits and without the activity
\* recorder in front (body.go:33-43, proxy.go:215-226).
THEOREM BodiesPassWhole == Unwrapped /\ ~Managed => (Spec => []BodiesWhole)
<1>1. Unwrapped /\ ~Managed /\ IInv => BodiesWhole
  BY DEF IInv
<1>2. Unwrapped /\ ~Managed => [](Unwrapped /\ ~Managed)
  OBVIOUS
<1> QED BY <1>1, <1>2, Inductive, PTL

-----------------------------------------------------------------------------
(* The windows of StreamInspector *)

\* The inductive invariant: a short signature not yet reported is still wholly
\* pending, because the overlap is kept in front of what comes next.
WindowInv == InspectorTypeOK /\ OverlapKept /\ StillPending

USE WindowAssumption, LengthAssumption DEF Pending, Step

\* The position variables and the history have their types.
THEOREM WindowsTyped == InspectorSpec => []InspectorTypeOK
<1>1. InspectorInit => InspectorTypeOK
  BY DEF InspectorInit, InspectorTypeOK
<1>2. InspectorTypeOK /\ [InspectorNext]_inspectorVars => InspectorTypeOK'
  <2> SUFFICES ASSUME InspectorTypeOK, [InspectorNext]_inspectorVars PROVE InspectorTypeOK'
    OBVIOUS
  <2>1. \A lo, hi \in Nat : Reported(lo, hi) \subseteq Key
    BY DEF InspectorTypeOK, Reported, Sign
  <2>2. ASSUME NEW n \in 1..MaxLen, Write(n) PROVE InspectorTypeOK'
    BY <2>2 DEF InspectorTypeOK, Write
  <2>3. CASE ScanWindow
    <3>1. found' \subseteq Key
      BY <2>1, <2>3 DEF ScanWindow, InspectorTypeOK
    <3>2. base' \in Nat /\ base <= base' /\ base' <= total'
      BY <2>3 DEF ScanWindow, InspectorTypeOK
    <3> QED BY <2>3, <3>1, <3>2 DEF ScanWindow, InspectorTypeOK
  <2>4. CASE Finish
    <3>1. found' \subseteq Key
      BY <2>1, <2>4 DEF Finish, InspectorTypeOK
    <3> QED BY <2>4, <3>1 DEF Finish, InspectorTypeOK
  <2>5. CASE UNCHANGED inspectorVars
    BY <2>5 DEF inspectorVars, InspectorTypeOK
  <2> QED BY <2>2, <2>3, <2>4, <2>5 DEF InspectorNext
<1> QED BY <1>1, <1>2, PTL DEF InspectorSpec

\* Writing more bytes: a signature that ends in the new bytes starts in the
\* overlap or later.
LEMMA WriteKeeps ==
  ASSUME WindowInv, NEW n \in 1..MaxLen, Write(n)
  PROVE  OverlapKept' /\ StillPending'
<1>1. OverlapKept'
  BY DEF WindowInv, InspectorTypeOK, OverlapKept, Write
<1>2. ASSUME NEW s \in signs, s.hi <= total + n, Short(s), ~Torn(s)
      PROVE  s.key \in found \/ base <= s.lo
  <2>1. s.lo \in Nat /\ s.hi \in Nat
    BY DEF WindowInv, InspectorTypeOK, Sign
  <2>2. CASE s.hi <= total
    BY <1>2, <2>2 DEF WindowInv, StillPending
  <2>3. CASE total < s.hi /\ base = 0
    BY <2>1, <2>3
  <2>4. CASE total < s.hi /\ base \in cuts
    BY <1>2, <2>1, <2>4 DEF WindowInv, InspectorTypeOK, Torn
  <2>5. CASE total < s.hi /\ Overlap <= total - base
    BY <1>2, <2>1, <2>5 DEF WindowInv, InspectorTypeOK, Short
  <2> QED
    BY <2>1, <2>2, <2>3, <2>4, <2>5 DEF WindowInv, InspectorTypeOK, OverlapKept
<1>3. StillPending'
  BY <1>2 DEF StillPending, Write, Short, Torn
<1> QED BY <1>1, <1>3

\* Scanning a window: a signature that starts before the bytes kept for the next
\* window ends inside the one just scanned.
LEMMA ScanKeeps ==
  ASSUME WindowInv, ScanWindow
  PROVE  OverlapKept' /\ StillPending'
<1>1. OverlapKept'
  BY DEF WindowInv, InspectorTypeOK, OverlapKept, ScanWindow
<1>2. ASSUME NEW s \in signs, s.hi <= total, Short(s), ~Torn(s)
      PROVE  s.key \in found' \/ base' <= s.lo
  <2>1. s.lo \in Nat /\ s.hi \in Nat
    BY DEF WindowInv, InspectorTypeOK, Sign
  <2>2. CASE s.key \in found
    BY <2>2 DEF ScanWindow, Reported
  <2>3. CASE base <= s.lo /\ s.lo < base + (Window - Overlap)
    <3>1. s.hi <= base + Window
      BY <1>2, <2>1, <2>3 DEF WindowInv, InspectorTypeOK, Short
    <3> QED BY <2>3, <3>1 DEF ScanWindow, Reported
  <2>4. CASE base + (Window - Overlap) <= s.lo
    BY <2>4 DEF ScanWindow
  <2>5. s.key \in found \/ base <= s.lo
    BY <1>2 DEF WindowInv, StillPending
  <2> QED BY <2>1, <2>2, <2>3, <2>4, <2>5 DEF WindowInv, InspectorTypeOK
<1>3. StillPending'
  BY <1>2 DEF StillPending, ScanWindow, Short, Torn
<1> QED BY <1>1, <1>3

\* Finishing: everything pending is inspected at once.
LEMMA FinishKeeps ==
  ASSUME WindowInv, Finish
  PROVE  OverlapKept' /\ StillPending'
<1>1. OverlapKept'
  BY DEF OverlapKept, Finish
<1>2. ASSUME NEW s \in signs, s.hi <= total, Short(s), ~Torn(s)'
      PROVE  s.key \in found'
  <2>1. ~Torn(s)
    BY <1>2 DEF Torn, Finish
  <2>2. s.key \in found \/ base <= s.lo
    BY <1>2, <2>1 DEF WindowInv, StillPending
  <2> QED BY <1>2, <2>2 DEF Finish, Reported
<1>3. StillPending'
  BY <1>2 DEF StillPending, Finish, Short
<1> QED BY <1>1, <1>3

\* The inductive invariant holds of every behaviour.
THEOREM WindowsInductive == InspectorSpec => []WindowInv
<1>1. InspectorInit => WindowInv
  <2> SUFFICES ASSUME InspectorInit PROVE WindowInv
    OBVIOUS
  <2>1. InspectorTypeOK
    BY DEF InspectorInit, InspectorTypeOK
  <2>2. StillPending
    BY <2>1 DEF InspectorInit, StillPending, InspectorTypeOK, Sign
  <2> QED BY <2>1, <2>2 DEF InspectorInit, WindowInv, OverlapKept
<1>2. WindowInv /\ InspectorTypeOK' /\ [InspectorNext]_inspectorVars => WindowInv'
  <2> SUFFICES ASSUME WindowInv, InspectorTypeOK', [InspectorNext]_inspectorVars PROVE WindowInv'
    OBVIOUS
  <2>1. ASSUME NEW n \in 1..MaxLen, Write(n) PROVE WindowInv'
    BY <2>1, WriteKeeps DEF WindowInv
  <2>2. CASE ScanWindow
    BY <2>2, ScanKeeps DEF WindowInv
  <2>3. CASE Finish
    BY <2>3, FinishKeeps DEF WindowInv
  <2>4. CASE UNCHANGED inspectorVars
    BY <2>4 DEF inspectorVars, WindowInv, OverlapKept, StillPending, Short, Torn
  <2> QED BY <2>1, <2>2, <2>3, <2>4 DEF InspectorNext
<1> QED BY <1>1, <1>2, WindowsTyped, PTL DEF InspectorSpec

\* Once a stream is finished, every signature of it that fits the overlap plus a
\* byte, and that no earlier Finish tore apart, has been reported.
THEOREM NoSignatureLost == InspectorSpec => []NothingLost
<1>1. WindowInv => NothingLost
  <2> SUFFICES ASSUME WindowInv, Drained,
                      NEW s \in signs, s.hi <= total, Short(s), ~Torn(s)
               PROVE  s.key \in found
    BY DEF NothingLost
  <2>1. s.lo < s.hi /\ s.lo \in Nat /\ s.hi \in Nat
    BY DEF WindowInv, InspectorTypeOK, Sign
  <2>2. s.key \in found \/ base <= s.lo
    BY DEF WindowInv, StillPending
  <2> QED BY <2>1, <2>2 DEF WindowInv, InspectorTypeOK, Drained
<1> QED BY <1>1, WindowsInductive, PTL

\* What is reported is in the stream.
THEOREM NoSignatureInvented == InspectorSpec => []NothingInvented
<1>1. InspectorInit => NothingInvented
  BY DEF InspectorInit, NothingInvented
<1>2. InspectorTypeOK /\ InspectorTypeOK' /\ NothingInvented /\ [InspectorNext]_inspectorVars => NothingInvented'
  <2> SUFFICES ASSUME InspectorTypeOK, InspectorTypeOK', NothingInvented, [InspectorNext]_inspectorVars
               PROVE  NothingInvented'
    OBVIOUS
  <2>1. ASSUME NEW n \in 1..MaxLen, Write(n) PROVE NothingInvented'
    <3>1. \A s \in signs : s.hi <= total => s.hi <= total'
      BY <2>1 DEF Write, InspectorTypeOK, Sign
    <3> QED BY <2>1, <3>1 DEF Write, NothingInvented
  <2>2. CASE ScanWindow
    <3>1. \A s \in signs : s.hi <= base + Window => s.hi <= total
      BY <2>2 DEF ScanWindow, InspectorTypeOK, Sign
    <3> QED BY <2>2, <3>1 DEF ScanWindow, NothingInvented, Reported
  <2>3. CASE Finish
    BY <2>3 DEF Finish, NothingInvented, Reported
  <2>4. CASE UNCHANGED inspectorVars
    BY <2>4 DEF inspectorVars, NothingInvented
  <2> QED BY <2>1, <2>2, <2>3, <2>4 DEF InspectorNext
<1> QED BY <1>1, <1>2, WindowsTyped, PTL DEF InspectorSpec

-----------------------------------------------------------------------------
(* The promise of CallGuard *)

FatesTyped ==
  /\ held \subseteq Call /\ sent \subseteq Call /\ dropped \subseteq Call
  /\ tainted \subseteq Promise!Known
  /\ gone \in BOOLEAN /\ ended \in BOOLEAN /\ reported \in BOOLEAN

\* No call has two fates, and none that was released is tainted.
FatesInv == FatesTyped /\ Promise!Disjoint /\ Promise!ReleasedClean

LEMMA FateStepKeeps ==
  ASSUME FatesInv, Promise!Settle, Promise!Taint, gone' \in BOOLEAN, ended' \in BOOLEAN,
         reported' \in BOOLEAN
  PROVE  FatesInv'
<1>1. FatesTyped'
  BY DEF FatesInv, FatesTyped, Promise!Settle, Promise!Taint
<1>2. Promise!Disjoint'
  BY DEF Promise!Settle
<1>3. Promise!ReleasedClean'
  <2> SUFFICES ASSUME NEW c \in sent', c \in tainted' PROVE FALSE
    BY DEF Promise!ReleasedClean
  <2>1. CASE c \in sent
    \* It was not tainted when it was released, and is settled since.
    BY <2>1 DEF FatesInv, Promise!ReleasedClean, Promise!Taint
  <2>2. CASE c \notin sent
    BY <2>2 DEF Promise!Taint
  <2> QED BY <2>1, <2>2
<1> QED BY <1>1, <1>2, <1>3 DEF FatesInv

LEMMA FatesInductive == Promise!Spec => []FatesInv
<1>1. Promise!Init => FatesInv
  BY DEF Promise!Init, FatesInv, FatesTyped, Promise!Disjoint,
         Promise!ReleasedClean, Promise!Known
<1>2. FatesInv /\ [Promise!Next]_Promise!guardVars => FatesInv'
  <2> SUFFICES ASSUME FatesInv, [Promise!Next]_Promise!guardVars PROVE FatesInv'
    OBVIOUS
  <2>1. CASE Promise!Read
    <3>1. gone' \in BOOLEAN /\ ended' \in BOOLEAN /\ reported' \in BOOLEAN
      BY <2>1 DEF Promise!Read, FatesInv, FatesTyped
    <3> QED BY <2>1, <3>1, FateStepKeeps DEF Promise!Read
  <2>2. CASE Promise!End
    <3>1. gone' \in BOOLEAN /\ ended' \in BOOLEAN /\ reported' \in BOOLEAN
      BY <2>2 DEF Promise!End, FatesInv, FatesTyped
    <3> QED BY <2>2, <3>1, FateStepKeeps DEF Promise!End
  <2>3. CASE UNCHANGED Promise!guardVars
    BY <2>3 DEF Promise!guardVars, FatesInv, FatesTyped, Promise!Disjoint,
         Promise!ReleasedClean, Promise!Known
  <2> QED BY <2>1, <2>2, <2>3 DEF Promise!Next
<1> QED BY <1>1, <1>2, PTL DEF Promise!Spec

\* A call the client received is never one that was found unacceptable, neither
\* before it was released nor afterwards.
THEOREM OnlyCleanReleased == Promise!Spec => []Promise!ReleasedClean
<1>1. FatesInv => Promise!ReleasedClean
  BY DEF FatesInv
<1> QED BY <1>1, FatesInductive, PTL

\* The fate of a call never changes: what was released is not taken back, what
\* was dropped is not released later, and nothing held is forgotten.
THEOREM FatesAreFinal ==
  Promise!Spec => [][/\ sent \subseteq sent' /\ dropped \subseteq dropped'
             /\ sent' \cap dropped = {} /\ dropped' \cap sent = {}
             /\ held \subseteq held' \cup sent' \cup dropped']_Promise!guardVars
<1>1. [Promise!Next]_Promise!guardVars =>
        [/\ sent \subseteq sent' /\ dropped \subseteq dropped'
         /\ sent' \cap dropped = {} /\ dropped' \cap sent = {}
         /\ held \subseteq held' \cup sent' \cup dropped']_Promise!guardVars
  BY DEF Promise!Next, Promise!Read, Promise!End, Promise!Settle, Promise!Disjoint, Promise!Known
<1> QED BY <1>1, PTL DEF Promise!Spec

-----------------------------------------------------------------------------
(* The reader of streams: what the invariant says *)

USE CapAssumption, SizeAssumption

\* The types; the two histories are of the same lines.
ReaderTypes ==
  /\ monitor \in BOOLEAN
  /\ lines \in Seq(Line) /\ offset \in Seq(Nat) /\ Len(offset) = Len(lines)
  /\ raw \in Seq(Nat) /\ rawLen \in 0..MaxSSEFrame
  /\ skipFrame \in BOOLEAN /\ told \in 0..1
  /\ events \in Seq(Seq(Nat))
  /\ stage \in {"reading", "ended", "stopped"}

\* Lines i..j are a frame that its blank line has ended.
Closed(i, j) ==
  /\ i \in 1..Len(lines) /\ j \in i..Len(lines)
  /\ i # 1 => Separator(i - 1)
  /\ \A k \in i..(j - 1) : ~Separator(k)
  /\ Separator(j)

\* The frame still open, or about to be, starts at line i.
OpenFrom(i) ==
  /\ i \in 1..(Len(lines) + 1)
  /\ i # 1 => Separator(i - 1)
  /\ \A k \in i..Len(lines) : ~Separator(k)

\* Every frame delivered was ended before the lines held now.
Delivered ==
  \A e \in DOMAIN events :
    \E i, j \in DOMAIN lines : /\ events[e] = Range(i, j)
                               /\ Closed(i, j) /\ Fits(i, j)
                               /\ j + Len(raw) <= Len(lines)

InTurn ==
  \A d, e \in DOMAIN events :
    d < e => events[d][Len(events[d])] < events[e][1]

NoneLost ==
  \A i, j \in DOMAIN lines :
    Closed(i, j) /\ Fits(i, j) => \E e \in DOMAIN events : events[e] = Range(i, j)

\* What is held is the open frame, so far within the caps.
Holding ==
  LET i == Len(lines) - Len(raw) + 1
  IN /\ Len(raw) <= Len(lines)
     /\ raw = Range(i, Len(lines))
     /\ OpenFrom(i)
     /\ \A k \in i..Len(lines) : ~Oversized(lines[k]) /\ ~lines[k].blank
     /\ rawLen = UpTo(Len(lines)) - UpTo(i - 1)
     /\ rawLen = 0 <=> raw = <<>>

\* The lines read since line i are within the caps.
FitsOpen(i) == Fits(i, Len(lines))

\* Nothing is held, and the open frame is over a cap already.
Skipping ==
  /\ raw = <<>> /\ rawLen = 0
  /\ \A i \in 1..(Len(lines) + 1) :
       OpenFrom(i) => i <= Len(lines) /\ ~FitsOpen(i)

ReadInv ==
  /\ Delivered /\ InTurn /\ NoneLost
  /\ IF skipFrame THEN Skipping ELSE Holding

\* As long as nothing was reported, every frame that has ended was within the caps
\* and the open one is not skipped.
NothingSkipped ==
  told = 0 => ~skipFrame /\ \A i, j \in DOMAIN lines : Closed(i, j) => Fits(i, j)

ReaderInv ==
  /\ ReaderTypes
  /\ IF stage = "reading" THEN ReadInv /\ NothingSkipped
                          ELSE FramesWhole /\ NoOtherFrameLost

-----------------------------------------------------------------------------
(* Lemmas about one line more *)

LEMMA RangeFacts ==
  ASSUME NEW i \in Nat \ {0}, NEW j \in Nat, i <= j + 1
  PROVE  /\ Range(i, j) \in Seq(Nat) /\ Len(Range(i, j)) = j - i + 1
         /\ \A k \in 1..(j - i + 1) : Range(i, j)[k] = i + k - 1
<1>1. j - i + 1 \in Nat /\ j + 1 - i + 1 = (j - i + 1) + 1
  OBVIOUS
<1> QED BY <1>1 DEF Range

LEMMA RangeNext ==
  ASSUME NEW i \in Nat \ {0}, NEW j \in Nat, i <= j + 1, NEW m, m = j + 1
  PROVE  /\ Append(Range(i, j), m) = Range(i, m) /\ Range(i, m) \in Seq(Nat)
         /\ Len(Range(i, m)) = m - i + 1
         /\ \A k \in 1..(m - i + 1) : Range(i, m)[k] = i + k - 1
<1> DEFINE a == Append(Range(i, j), m)
           n == m - i + 1
<1>1. m \in Nat /\ i <= m + 1 /\ n \in Nat /\ n = (j - i + 1) + 1
  OBVIOUS
<1>2. /\ Range(i, m) \in Seq(Nat) /\ Len(Range(i, m)) = m - i + 1
      /\ \A k \in 1..(m - i + 1) : Range(i, m)[k] = i + k - 1
  BY <1>1, RangeFacts
<1>3. /\ Range(i, j) \in Seq(Nat) /\ Len(Range(i, j)) = j - i + 1
      /\ \A k \in 1..(j - i + 1) : Range(i, j)[k] = i + k - 1
  BY RangeFacts
<1>4. a \in Seq(Nat) /\ Len(a) = n /\ a = [k \in 1..n |-> a[k]]
  BY <1>1, <1>3
<1>5. \A k \in 1..n : a[k] = i + k - 1
  <2>1. \A k \in 1..(j - i + 1) : a[k] = Range(i, j)[k]
    BY <1>3
  <2>2. a[n] = m /\ m = i + n - 1
    BY <1>1, <1>3
  <2>3. \A k \in 1..n : k = n \/ k \in 1..(j - i + 1)
    BY <1>1
  <2> HIDE DEF a
  <2> QED BY <1>3, <2>1, <2>2, <2>3
<1>6. Range(i, m) = [k \in 1..n |-> i + k - 1]
  BY DEF Range
<1> HIDE DEF a
<1>7. a = [k \in 1..n |-> i + k - 1]
  BY <1>4, <1>5
<1> QED BY <1>2, <1>6, <1>7 DEF a

\* The same but for the elements, with the hypotheses as facts.
LEMMA RangeGrows ==
  ASSUME NEW i, NEW j, NEW m, i \in Nat \ {0}, j \in Nat, i <= j + 1, m = j + 1
  PROVE  /\ Append(Range(i, j), m) = Range(i, m) /\ Range(i, m) \in Seq(Nat)
         /\ Len(Range(i, m)) = m - i + 1
BY RangeNext, ZenonT(40)

LEMMA FirstOfRange ==
  ASSUME NEW i \in Nat \ {0}, NEW j \in Nat, i <= j
  PROVE  Range(i, j)[1] = i
<1>1. i <= j + 1 /\ 1 \in 1..(j - i + 1) /\ i + 1 - 1 = i
  OBVIOUS
<1>2. Range(i, j)[1] = i + 1 - 1
  BY <1>1, RangeFacts
<1> QED BY <1>1, <1>2

LEMMA LastOfRange ==
  ASSUME NEW i \in Nat \ {0}, NEW j \in Nat, i <= j
  PROVE  Range(i, j)[Len(Range(i, j))] = j
<1>1. i <= j + 1 /\ j - i + 1 \in 1..(j - i + 1) /\ i + (j - i + 1) - 1 = j
  OBVIOUS
<1>2. /\ Len(Range(i, j)) = j - i + 1
      /\ \A k \in 1..(j - i + 1) : Range(i, j)[k] = i + k - 1
  BY <1>1, RangeFacts
<1> QED BY <1>1, <1>2

\* One frame at most is open.
LEMMA OpenIsOne ==
  ASSUME lines \in Seq(Line)
  PROVE  \A i, k : OpenFrom(i) /\ OpenFrom(k) => i = k
<1>1. Len(lines) \in Nat
  OBVIOUS
<1>2. ASSUME NEW i, NEW k, OpenFrom(i), OpenFrom(k) PROVE ~(i < k)
  <2> SUFFICES ASSUME i < k PROVE FALSE
    OBVIOUS
  <2>1. i \in 1..(Len(lines) + 1) /\ k \in 1..(Len(lines) + 1) /\ k # 1
    BY <1>1, <1>2 DEF OpenFrom
  <2>2. Separator(k - 1)
    BY <1>2, <2>1 DEF OpenFrom
  <2>3. k - 1 \in i..Len(lines)
    BY <1>1, <2>1
  <2> QED BY <1>2, <2>2, <2>3 DEF OpenFrom
<1> SUFFICES ASSUME NEW i, NEW k, OpenFrom(i), OpenFrom(k) PROVE i = k
  OBVIOUS
<1>3. ~(i < k) /\ ~(k < i)
  BY <1>2
<1>4. i \in Nat /\ k \in Nat
  BY <1>1 DEF OpenFrom
<1> QED BY <1>3, <1>4

\* What is read of the stream stays as it was, and the new line is at its end.
LEMMA TakeFacts ==
  ASSUME ReaderTypes, NEW l \in Line, Take(l), NEW n, n = Len(lines)
  PROVE  /\ n \in Nat /\ DOMAIN lines = 1..n /\ stage = "reading"
         /\ lines' \in Seq(Line) /\ Len(lines') = n + 1
         /\ DOMAIN lines' = 1..(n + 1)
         /\ offset' \in Seq(Nat) /\ Len(offset') = n + 1
         /\ \A k \in 1..n : lines'[k] = lines[k] /\ (Separator(k)' <=> Separator(k))
         /\ lines'[n + 1] = l /\ (Separator(n + 1)' <=> l.blank /\ ~Oversized(l))
         /\ \A k \in 0..n : UpTo(k)' = UpTo(k) /\ UpTo(k) \in Nat
         /\ UpTo(n + 1)' = UpTo(n) + l.size /\ l.size \in Nat \ {0}
         /\ \A i, j \in 1..n : /\ Fits(i, j)' <=> Fits(i, j)
                               /\ Closed(i, j)' <=> Closed(i, j)
<1>1. /\ n \in Nat /\ DOMAIN lines = 1..n /\ stage = "reading"
      /\ lines \in Seq(Line) /\ offset \in Seq(Nat) /\ Len(offset) = n
      /\ l.size \in Nat \ {0}
  <2>1. l.size \in Nat \ {0}
    BY DEF Line
  <2>2. lines \in Seq(Line) /\ offset \in Seq(Nat) /\ Len(offset) = n
    BY DEF ReaderTypes
  <2>3. n \in Nat /\ DOMAIN lines = 1..n
    BY <2>2
  <2>4. stage = "reading"
    BY DEF Take
  <2> QED BY <2>1, <2>2, <2>3, <2>4
<1>2. /\ lines' \in Seq(Line) /\ Len(lines') = n + 1
      /\ DOMAIN lines' = 1..(n + 1) /\ lines'[n + 1] = l
      /\ \A k \in 1..n : lines'[k] = lines[k]
  BY <1>1 DEF Take
<1>3. \A k \in 0..n : UpTo(k) \in Nat
  BY <1>1 DEF UpTo
<1>4. /\ offset' \in Seq(Nat) /\ Len(offset') = n + 1
      /\ offset'[n + 1] = UpTo(n) + l.size
      /\ \A k \in 1..n : offset'[k] = offset[k]
  <2>1. UpTo(n) + l.size \in Nat
    BY <1>1, <1>3
  <2>2. offset' = Append(offset, UpTo(n) + l.size)
    BY DEF Take
  <2> QED BY <1>1, <2>1, <2>2
<1>5. (\A k \in 0..n : UpTo(k)' = UpTo(k)) /\ UpTo(n + 1)' = UpTo(n) + l.size
  BY <1>1, <1>4 DEF UpTo
<1>6. \A k \in 1..n : Separator(k)' <=> Separator(k)
  BY <1>2 DEF Separator, Oversized
<1>7. Separator(n + 1)' <=> l.blank /\ ~Oversized(l)
  BY <1>2 DEF Separator, Oversized
<1>8. ASSUME NEW i \in 1..n, NEW j \in 1..n
      PROVE  /\ Fits(i, j)' <=> Fits(i, j)
             /\ Closed(i, j)' <=> Closed(i, j)
  <2>1. UpTo(j)' = UpTo(j) /\ UpTo(i - 1)' = UpTo(i - 1)
    BY <1>1, <1>5
  <2>2. Size(i, j)' = Size(i, j)
    BY <1>1, <1>2, <1>6, <2>1 DEF Size
  <2>3. \A k \in i..j : Oversized(lines'[k]) <=> Oversized(lines[k])
    BY <1>1, <1>2
  <2>4. Fits(i, j)' <=> Fits(i, j)
    BY <2>2, <2>3 DEF Fits, Oversized
  <2>5. Closed(i, j)' <=> Closed(i, j)
    <3>1. i # 1 => (Separator(i - 1)' <=> Separator(i - 1))
      BY <1>1, <1>6
    <3>2. \A k \in i..j : Separator(k)' <=> Separator(k)
      BY <1>1, <1>6
    <3>3. i \in 1..Len(lines') <=> i \in 1..Len(lines)
      BY <1>1, <1>2
    <3>4. j \in i..Len(lines') <=> j \in i..Len(lines)
      BY <1>1, <1>2
    <3> QED BY <1>1, <3>1, <3>2, <3>3, <3>4 DEF Closed
  <2> QED BY <2>4, <2>5
<1> QED BY <1>1, <1>2, <1>3, <1>4, <1>5, <1>6, <1>7, <1>8

\* There is one open frame; a line that ends none leaves it open, and one that
\* ends it opens the next.
LEMMA OpenMoves ==
  ASSUME ReaderTypes, NEW l \in Line, Take(l), NEW n, n = Len(lines)
  PROVE  /\ \A i, k : OpenFrom(i) /\ OpenFrom(k) => i = k
         /\ ~(l.blank /\ ~Oversized(l)) => \A i : OpenFrom(i)' <=> OpenFrom(i)
         /\ l.blank /\ ~Oversized(l) => \A i : OpenFrom(i)' <=> i = n + 2
         /\ \A i : Closed(i, n + 1)' => OpenFrom(i)
<1>1. /\ n \in Nat /\ Len(lines) = n /\ Len(lines') = n + 1
      /\ \A k \in 1..n : Separator(k)' <=> Separator(k)
      /\ Separator(n + 1)' <=> l.blank /\ ~Oversized(l)
  BY TakeFacts
<1>2. \A i, k : OpenFrom(i) /\ OpenFrom(k) => i = k
  BY OpenIsOne DEF ReaderTypes
<1>3. ASSUME ~Separator(n + 1)', NEW i PROVE OpenFrom(i)' <=> OpenFrom(i)
  <2>1. CASE i \in 1..(n + 1)
    <3>1. i # 1 => (Separator(i - 1)' <=> Separator(i - 1))
      BY <1>1, <2>1
    <3>2. (\A k \in i..(n + 1) : ~Separator(k)') <=> (\A k \in i..n : ~Separator(k))
      BY <1>1, <1>3, <2>1
    <3>3. i \in 1..(n + 1 + 1)
      BY <1>1, <2>1
    <3> QED BY <1>1, <2>1, <3>1, <3>2, <3>3 DEF OpenFrom
  <2>2. CASE i = n + 2
    <3>1. i # 1 /\ i - 1 = n + 1 /\ i \notin 1..(n + 1)
      BY <1>1, <2>2
    <3> QED BY <1>1, <1>3, <3>1 DEF OpenFrom
  <2>3. CASE i \notin 1..(n + 2)
    <3>1. i \notin 1..(n + 1) /\ i \notin 1..(n + 1 + 1)
      BY <1>1, <2>3
    <3> QED BY <1>1, <3>1 DEF OpenFrom
  <2>4. i \in 1..(n + 1) \/ i = n + 2 \/ i \notin 1..(n + 2)
    BY <1>1
  <2> QED BY <2>1, <2>2, <2>3, <2>4
<1>4. ASSUME Separator(n + 1)', NEW i PROVE OpenFrom(i)' <=> i = n + 2
  <2>1. i \in 1..(n + 2) => i = n + 2 \/ n + 1 \in i..(n + 1)
    BY <1>1
  <2>2. n + 2 - 1 = n + 1 /\ (n + 2)..(n + 1) = {} /\ n + 2 \in 1..(n + 1 + 1)
        /\ n + 1 + 1 = n + 2
    BY <1>1
  <2>3. i = n + 2 => OpenFrom(i)'
    BY <1>1, <1>4, <2>2 DEF OpenFrom
  <2>4. OpenFrom(i)' => i = n + 2
    BY <1>1, <1>4, <2>1, <2>2 DEF OpenFrom
  <2> QED BY <2>3, <2>4
<1>5. ASSUME NEW i, Closed(i, n + 1)' PROVE OpenFrom(i)
  <2>1. i \in 1..(n + 1) /\ (i # 1 => Separator(i - 1)')
        /\ \A k \in i..(n + 1 - 1) : ~Separator(k)'
    BY <1>1, <1>5 DEF Closed
  <2>2. i # 1 => Separator(i - 1)
    <3>1. i # 1 => i - 1 \in 1..n
      BY <1>1, <2>1
    <3> QED BY <1>1, <2>1, <3>1
  <2>3. \A k \in i..n : ~Separator(k)
    <3>1. \A k \in i..n : k \in i..(n + 1 - 1) /\ k \in 1..n
      BY <1>1, <2>1
    <3> QED BY <1>1, <2>1, <3>1
  <2> QED BY <1>1, <2>1, <2>2, <2>3 DEF OpenFrom
<1> QED BY <1>1, <1>2, <1>3, <1>4, <1>5

\* The lines read since line i, up to the new one.
LEMMA FitsOpenNext ==
  ASSUME ReaderTypes, NEW l \in Line, Take(l), NEW n, n = Len(lines), NEW i
  PROVE  FitsOpen(i)' <=> Fits(i, n + 1)'
<1>1. Len(lines') = n + 1
  BY TakeFacts
<1> QED BY <1>1 DEF FitsOpen, Fits, Size, UpTo, Separator, Oversized

\* Whether the open frame, with the new line, is within the caps.
LEMMA FitsWith ==
  ASSUME ReaderTypes, NEW l \in Line, Take(l), NEW n, n = Len(lines),
         NEW i \in 1..(n + 1)
  PROVE  Fits(i, n + 1)' <=>
           /\ ~Oversized(l) /\ \A k \in i..n : ~Oversized(lines[k])
           /\ UpTo(n) - UpTo(i - 1) + (IF l.blank THEN 0 ELSE l.size) <= MaxSSEFrame
<1>1. /\ n \in Nat /\ lines'[n + 1] = l
      /\ \A k \in 1..n : lines'[k] = lines[k]
      /\ Separator(n + 1)' <=> l.blank /\ ~Oversized(l)
      /\ \A k \in 0..n : UpTo(k)' = UpTo(k) /\ UpTo(k) \in Nat
      /\ UpTo(n + 1)' = UpTo(n) + l.size /\ l.size \in Nat \ {0}
  BY TakeFacts
<1>2. UpTo(i - 1)' = UpTo(i - 1) /\ UpTo(i - 1) \in Nat /\ UpTo(n) \in Nat
  BY <1>1
<1>3. (\A k \in i..(n + 1) : ~Oversized(lines'[k]))
        <=> (~Oversized(l) /\ \A k \in i..n : ~Oversized(lines[k]))
  <2>1. \A k \in i..(n + 1) : k = n + 1 \/ k \in i..n
    BY <1>1
  <2>2. \A k \in i..n : k \in i..(n + 1) /\ lines'[k] = lines[k]
    BY <1>1
  <2>3. n + 1 \in i..(n + 1)
    BY <1>1
  <2> QED BY <1>1, <2>1, <2>2, <2>3
<1>4. Fits(i, n + 1)' <=>
        (\A k \in i..(n + 1) : ~Oversized(lines'[k])) /\ Size(i, n + 1)' <= MaxSSEFrame
  BY DEF Fits, Oversized
<1>5. Size(i, n + 1)' = (UpTo(n) + l.size) - UpTo(i - 1)
                          - (IF l.blank /\ ~Oversized(l) THEN l.size ELSE 0)
  BY <1>1, <1>2 DEF Size
<1>6. ~Oversized(l) =>
        Size(i, n + 1)' = UpTo(n) - UpTo(i - 1) + (IF l.blank THEN 0 ELSE l.size)
  BY <1>1, <1>2, <1>5
<1> QED BY <1>3, <1>4, <1>6

-----------------------------------------------------------------------------
(* What every line read keeps *)

\* The frames delivered before stay delivered, whole and in turn.
LEMMA DeliveredKept ==
  ASSUME ReaderTypes, ReadInv, NEW l \in Line, Take(l), UNCHANGED events,
         raw' \in Seq(Nat), Len(raw') <= Len(raw) + 1
  PROVE  Delivered' /\ InTurn'
<1>1. PICK n : n = Len(lines)
  OBVIOUS
<1>2. /\ n \in Nat /\ DOMAIN lines = 1..n
      /\ DOMAIN lines' = 1..(n + 1) /\ Len(lines') = n + 1
      /\ \A i, j \in 1..n : /\ Fits(i, j)' <=> Fits(i, j)
                            /\ Closed(i, j)' <=> Closed(i, j)
  BY <1>1, TakeFacts
<1>3. Delivered'
  <2> SUFFICES ASSUME NEW e \in DOMAIN events
               PROVE  \E i, j \in DOMAIN lines' :
                        /\ events[e] = Range(i, j)
                        /\ Closed(i, j)' /\ Fits(i, j)'
                        /\ j + Len(raw') <= Len(lines')
    BY DEF Delivered, Range
  <2>1. PICK i \in DOMAIN lines, j \in DOMAIN lines :
          /\ events[e] = Range(i, j) /\ Closed(i, j) /\ Fits(i, j)
          /\ j + Len(raw) <= Len(lines)
    BY DEF ReadInv, Delivered
  <2>2. i \in 1..(n + 1) /\ j \in 1..(n + 1) /\ Closed(i, j)' /\ Fits(i, j)'
    BY <1>2, <2>1
  <2>3. j + Len(raw') <= n + 1
    <3>1. Len(raw) \in Nat /\ Len(raw') \in Nat /\ j \in Nat
      BY <1>2, <2>1 DEF ReaderTypes
    <3> QED BY <1>1, <1>2, <2>1, <3>1
  <2> QED BY <1>2, <2>1, <2>2, <2>3
<1>4. InTurn'
  BY DEF ReadInv, InTurn
<1> QED BY <1>3, <1>4

\* No frame that fits is lost, if the one the new line ends is delivered.
LEMMA NoneLostKept ==
  ASSUME ReaderTypes, ReadInv, NEW l \in Line, Take(l), NEW n, n = Len(lines),
         \A e \in DOMAIN events : e \in DOMAIN events' /\ events'[e] = events[e],
         ASSUME NEW i \in 1..(n + 1), OpenFrom(i), Fits(i, n + 1)', Separator(n + 1)'
         PROVE  \E e \in DOMAIN events' : events'[e] = Range(i, n + 1)
  PROVE  NoneLost'
<1>1. /\ n \in Nat /\ DOMAIN lines = 1..n
      /\ DOMAIN lines' = 1..(n + 1) /\ Len(lines') = n + 1
      /\ \A i, j \in 1..n : /\ Fits(i, j)' <=> Fits(i, j)
                            /\ Closed(i, j)' <=> Closed(i, j)
  BY TakeFacts
<1> SUFFICES ASSUME NEW i \in 1..(n + 1), NEW j \in 1..(n + 1),
                    Closed(i, j)', Fits(i, j)'
             PROVE  \E e \in DOMAIN events' : events'[e] = Range(i, j)
  BY <1>1 DEF NoneLost, Range
<1>2. CASE j = n + 1
  <2>1. Closed(i, n + 1)' /\ Fits(i, n + 1)'
    BY <1>2
  <2>2. OpenFrom(i)
    BY <2>1, OpenMoves
  <2>3. Separator(n + 1)'
    BY <2>1 DEF Closed
  <2> QED BY <1>2, <2>1, <2>2, <2>3
<1>3. CASE j # n + 1
  <2>1. j \in 1..n
    BY <1>1, <1>3
  <2>2. i \in 1..n
    BY <1>1, <2>1 DEF Closed
  <2>3. Closed(i, j) /\ Fits(i, j)
    BY <1>1, <2>1, <2>2
  <2> QED BY <1>1, <2>1, <2>2, <2>3 DEF ReadInv, NoneLost
<1> QED BY <1>2, <1>3

\* A frame that is being skipped fits no better with one line more.
LEMMA SkippedStays ==
  ASSUME ReaderTypes, Skipping, NEW l \in Line, Take(l), NEW n, n = Len(lines),
         NEW i \in 1..(n + 1), OpenFrom(i)
  PROVE  ~Fits(i, n + 1)'
<1>1. /\ n \in Nat /\ \A k \in 0..n : UpTo(k) \in Nat
      /\ l.size \in Nat \ {0}
  BY TakeFacts
<1>2. i <= n /\ ~Fits(i, n)
  BY DEF Skipping, FitsOpen
<1>3. ~Separator(n) /\ UpTo(i - 1) \in Nat /\ UpTo(n) \in Nat
  BY <1>1, <1>2 DEF OpenFrom
<1>4. Size(i, n) = UpTo(n) - UpTo(i - 1)
  BY <1>3 DEF Size
<1>5. ~((\A k \in i..n : ~Oversized(lines[k])) /\ UpTo(n) - UpTo(i - 1) <= MaxSSEFrame)
  BY <1>2, <1>4 DEF Fits
<1>6. UpTo(n) - UpTo(i - 1) <= UpTo(n) - UpTo(i - 1) + (IF l.blank THEN 0 ELSE l.size)
  BY <1>1, <1>3
<1>7. UpTo(n) - UpTo(i - 1) \in Int /\ (IF l.blank THEN 0 ELSE l.size) \in Nat
  BY <1>1, <1>3
<1>8. Fits(i, n + 1)' =>
        /\ \A k \in i..n : ~Oversized(lines[k])
        /\ UpTo(n) - UpTo(i - 1) + (IF l.blank THEN 0 ELSE l.size) <= MaxSSEFrame
  BY FitsWith
<1> QED BY <1>5, <1>6, <1>7, <1>8

\* What is skipped from now on: the frame of the new line does not fit.
LEMMA StartsSkipping ==
  ASSUME ReaderTypes, NEW l \in Line, Take(l), NEW n, n = Len(lines), Discard,
         ~(l.blank /\ ~Oversized(l)),
         \A i \in 1..(n + 1) : OpenFrom(i) => ~Fits(i, n + 1)'
  PROVE  Skipping'
<1>1. /\ n \in Nat /\ Len(lines') = n + 1
      /\ \A i : OpenFrom(i)' <=> OpenFrom(i)
  BY TakeFacts, OpenMoves
<1>2. ASSUME NEW i, OpenFrom(i) PROVE i \in 1..(n + 1)
  BY <1>2 DEF OpenFrom
<1>3. \A i : OpenFrom(i)' => i <= n + 1 /\ ~Fits(i, n + 1)'
  BY <1>1, <1>2
<1>4. \A i : FitsOpen(i)' <=> Fits(i, n + 1)'
  BY FitsOpenNext
<1> QED BY <1>1, <1>3, <1>4 DEF Skipping, Discard

\* Nothing is held after a blank line that ended a frame.
LEMMA StartsAfresh ==
  ASSUME ReaderTypes, NEW l \in Line, Take(l), l.blank, ~Oversized(l),
         raw' = <<>>, rawLen' = 0
  PROVE  Holding'
<1>1. PICK n : n = Len(lines)
  OBVIOUS
<1>2. /\ n \in Nat /\ Len(lines') = n + 1 /\ OpenFrom(n + 2)'
      /\ UpTo(n + 1)' \in Nat
  <2>1. /\ n \in Nat /\ Len(lines') = n + 1 /\ OpenFrom(n + 2)'
        /\ UpTo(n) \in Nat /\ l.size \in Nat /\ UpTo(n + 1)' = UpTo(n) + l.size
    BY <1>1, TakeFacts, OpenMoves
  <2> QED BY <2>1
<1>3. /\ Len(lines') - Len(raw') + 1 = n + 2 /\ n + 2 - 1 = n + 1
      /\ (n + 2)..(n + 1) = {} /\ 1..(n + 1 - (n + 2) + 1) = {} /\ Len(raw') = 0
  BY <1>2
<1>4. raw' = Range(n + 2, n + 1)
  <2>1. Range(n + 2, n + 1) \in Seq(Nat) /\ Len(Range(n + 2, n + 1)) = 0
    <3>1. PICK i, j : i = n + 2 /\ j = n + 1
      OBVIOUS
    <3>2. i \in Nat \ {0} /\ j \in Nat /\ i <= j + 1 /\ j - i + 1 = 0
      BY <1>2, <3>1
    <3>3. Range(i, j) \in Seq(Nat) /\ Len(Range(i, j)) = j - i + 1
      BY <3>2, RangeFacts
    <3> QED BY <3>1, <3>2, <3>3
  <2> QED BY <2>1
<1>5. rawLen' = UpTo(n + 1)' - UpTo(n + 1)'
  BY <1>2
<1> QED BY <1>2, <1>3, <1>4, <1>5 DEF Holding, Range

\* What holding says, with names for the line it starts at and the last one.
LEMMA HoldingFacts ==
  ASSUME ReaderTypes, Holding, NEW n, n = Len(lines), NEW i, i = n - Len(raw) + 1
  PROVE  /\ n \in Nat /\ i \in 1..(n + 1) /\ Len(raw) = n - i + 1
         /\ raw = Range(i, n) /\ OpenFrom(i)
         /\ \A k \in i..n : ~Oversized(lines[k]) /\ ~lines[k].blank
         /\ rawLen = UpTo(n) - UpTo(i - 1) /\ (rawLen = 0 <=> raw = <<>>)
         /\ rawLen \in Nat /\ rawLen <= MaxSSEFrame
<1>1. n \in Nat /\ Len(raw) \in Nat /\ Len(raw) <= n
  BY DEF ReaderTypes, Holding
<1>2. i \in 1..(n + 1) /\ Len(raw) = n - i + 1
  BY <1>1
<1> QED BY <1>1, <1>2 DEF ReaderTypes, Holding

-----------------------------------------------------------------------------
(* The steps *)

LEMMA OverlongLineKeeps ==
  ASSUME ReaderTypes, ReadInv, NEW l \in Line, OverlongLine(l)
  PROVE  ReadInv'
<1>1. PICK n : n = Len(lines)
  OBVIOUS
<1>2. Take(l) /\ Oversized(l) /\ Discard /\ skipFrame' = TRUE /\ UNCHANGED events
  BY DEF OverlongLine
<1>3. Len(raw') <= Len(raw) + 1 /\ raw' \in Seq(Nat)
  BY <1>2 DEF Discard, ReaderTypes
<1>4. Delivered' /\ InTurn'
  BY <1>2, <1>3, DeliveredKept
<1>5. ~Separator(n + 1)'
  BY <1>1, <1>2, TakeFacts
<1>6. NoneLost'
  BY <1>1, <1>2, <1>5, NoneLostKept
<1>7. \A i \in 1..(n + 1) : ~Fits(i, n + 1)'
  BY <1>1, <1>2, FitsWith
<1>8. Skipping'
  BY <1>1, <1>2, <1>7, StartsSkipping
<1> QED BY <1>2, <1>4, <1>6, <1>8 DEF ReadInv

LEMMA SkipLineKeeps ==
  ASSUME ReaderTypes, ReadInv, NEW l \in Line, SkipLine(l)
  PROVE  ReadInv'
<1>1. PICK n : n = Len(lines)
  OBVIOUS
<1>2. /\ Take(l) /\ ~Oversized(l) /\ skipFrame /\ Skipping
      /\ skipFrame' = ~l.blank /\ UNCHANGED <<raw, rawLen, events>>
  BY DEF SkipLine, ReadInv
<1>3. Len(raw') <= Len(raw) + 1 /\ raw' \in Seq(Nat) /\ Discard
  BY <1>2 DEF Skipping, ReaderTypes, Discard
<1>4. Delivered' /\ InTurn'
  BY <1>2, <1>3, DeliveredKept
<1>5. \A i \in 1..(n + 1) : OpenFrom(i) => ~Fits(i, n + 1)'
  BY <1>1, <1>2, SkippedStays
<1>6. NoneLost'
  BY <1>1, <1>2, <1>5, NoneLostKept
<1>7. CASE l.blank
  <2>1. Holding'
    BY <1>2, <1>3, <1>7, StartsAfresh DEF Discard
  <2> QED BY <1>2, <1>4, <1>6, <1>7, <2>1 DEF ReadInv
<1>8. CASE ~l.blank
  <2>1. Skipping'
    BY <1>1, <1>2, <1>3, <1>5, <1>8, StartsSkipping
  <2> QED BY <1>2, <1>4, <1>6, <1>8, <2>1 DEF ReadInv
<1> QED BY <1>7, <1>8

\* The frame held is delivered with its blank line, and it is the open one.
LEMMA SeparateKeeps ==
  ASSUME ReaderTypes, ReadInv, NEW l \in Line, Separate(l)
  PROVE  ReadInv'
<1>1. PICK n : n = Len(lines)
  OBVIOUS
<1>2. PICK i : i = n - Len(raw) + 1
  OBVIOUS
<1>3. /\ Take(l) /\ ~Oversized(l) /\ ~skipFrame /\ l.blank /\ Holding
      /\ events' = Append(events, Append(raw, n + 1))
      /\ raw' = <<>> /\ rawLen' = 0 /\ skipFrame' = skipFrame
  BY <1>1 DEF Separate, Discard, Number, ReadInv
<1>4. /\ n \in Nat /\ i \in 1..(n + 1) /\ raw = Range(i, n) /\ OpenFrom(i)
      /\ Len(raw) = n - i + 1
      /\ \A k \in i..n : ~Oversized(lines[k]) /\ ~lines[k].blank
      /\ rawLen = UpTo(n) - UpTo(i - 1) /\ rawLen \in Nat /\ rawLen <= MaxSSEFrame
  BY <1>1, <1>2, <1>3, HoldingFacts
<1>5. PICK d : d = Len(events) + 1
  OBVIOUS
<1>6. /\ Append(raw, n + 1) = Range(i, n + 1) /\ Range(i, n + 1) \in Seq(Nat)
      /\ Len(Range(i, n + 1)) = n + 1 - i + 1
      /\ \A k \in 1..(n + 1 - i + 1) : Range(i, n + 1)[k] = i + k - 1
  <2>1. PICK m : m = n + 1
    OBVIOUS
  <2>2. i \in Nat \ {0} /\ i <= n + 1
    BY <1>4
  <2>3. n \in Nat
    BY <1>4
  <2>4. /\ Append(Range(i, n), m) = Range(i, m) /\ Range(i, m) \in Seq(Nat)
        /\ Len(Range(i, m)) = m - i + 1
        /\ \A k \in 1..(m - i + 1) : Range(i, m)[k] = i + k - 1
    <3> HIDE DEF Range
    <3>1. m = n + 1 /\ i <= n + 1 /\ i \in Nat \ {0} /\ n \in Nat
      BY <2>1, <2>2, <2>3
    <3>2. /\ Append(Range(i, n), m) = Range(i, m) /\ Range(i, m) \in Seq(Nat)
          /\ Len(Range(i, m)) = m - i + 1
      BY <3>1, RangeGrows, Zenon
    <3>4. \A k \in 1..(m - i + 1) : Range(i, m)[k] = i + k - 1
      <4>1. m \in Nat /\ i <= m + 1
        BY <3>1
      <4> QED BY <3>1, <4>1, RangeFacts
    <3> QED BY <3>2, <3>4
  <2> QED BY <1>4, <2>1, <2>4
<1>7. /\ events' \in Seq(Seq(Nat)) /\ DOMAIN events' = DOMAIN events \cup {d}
      /\ \A e \in DOMAIN events : events'[e] = events[e] /\ e < d /\ e \in Nat
      /\ events'[d] = Range(i, n + 1) /\ d \in Nat
  <2>1. events \in Seq(Seq(Nat)) /\ events' = Append(events, Range(i, n + 1))
    BY <1>3, <1>6 DEF ReaderTypes
  <2>2. Range(i, n + 1) \in Seq(Nat)
    BY <1>6
  <2> HIDE DEF Range
  <2> QED BY <1>5, <2>1, <2>2
<1>8. /\ DOMAIN lines = 1..n /\ DOMAIN lines' = 1..(n + 1) /\ Len(lines') = n + 1
      /\ \A k \in 1..n : Separator(k)' <=> Separator(k)
      /\ Separator(n + 1)'
      /\ \A p, q \in 1..n : /\ Fits(p, q)' <=> Fits(p, q)
                            /\ Closed(p, q)' <=> Closed(p, q)
  BY <1>1, <1>3, TakeFacts
<1>9. Closed(i, n + 1)' /\ Fits(i, n + 1)'
  <2>1. (i # 1 => Separator(i - 1)) /\ \A k \in i..n : ~Separator(k)
    BY <1>1, <1>4 DEF OpenFrom
  <2>2. i # 1 => Separator(i - 1)'
    <3>1. i # 1 => i - 1 \in 1..n
      BY <1>4
    <3> QED BY <1>8, <2>1, <3>1
  <2>3. \A k \in i..n : ~Separator(k)'
    <3>1. \A k \in i..n : k \in 1..n
      BY <1>4
    <3> QED BY <1>8, <2>1, <3>1
  <2>4. i \in 1..(n + 1) /\ n + 1 \in i..(n + 1)
    BY <1>4
  <2>5. Closed(i, n + 1)'
    <3>1. i \in 1..Len(lines') /\ n + 1 \in i..Len(lines')
      BY <1>8, <2>4
    <3>2. Separator(n + 1)'
      BY <1>8
    <3>3. PICK m : m = n + 1
      OBVIOUS
    <3>4. (i # 1 => Separator(i - 1)') /\ \A k \in i..(m - 1) : ~Separator(k)'
      <4>1. m - 1 = n
        BY <1>4, <3>3
      <4> QED BY <2>2, <2>3, <4>1
    <3>5. Separator(m)' /\ i \in 1..Len(lines') /\ m \in i..Len(lines')
      BY <3>1, <3>2, <3>3
    <3>6. Closed(i, m)'
      BY <3>4, <3>5 DEF Closed
    <3> QED BY <3>3, <3>6
  <2>6. Fits(i, n + 1)'
    <3>1. UpTo(n) - UpTo(i - 1) + (IF l.blank THEN 0 ELSE l.size) = rawLen
      BY <1>3, <1>4
    <3>2. ~Oversized(l) /\ \A k \in i..n : ~Oversized(lines[k])
      BY <1>3, <1>4
    <3>3. Fits(i, n + 1)' <=>
           /\ ~Oversized(l) /\ \A k \in i..n : ~Oversized(lines[k])
           /\ UpTo(n) - UpTo(i - 1) + (IF l.blank THEN 0 ELSE l.size) <= MaxSSEFrame
      BY <1>1, <1>3, <1>4, FitsWith
    <3> QED BY <1>4, <3>1, <3>2, <3>3
  <2> QED BY <2>5, <2>6
<1>10. Delivered'
  <2> SUFFICES ASSUME NEW e \in DOMAIN events'
               PROVE  \E p, q \in DOMAIN lines' :
                        /\ events'[e] = Range(p, q)
                        /\ Closed(p, q)' /\ Fits(p, q)'
                        /\ q + Len(raw') <= Len(lines')
    BY DEF Delivered, Range
  <2>1. CASE e = d
    <3>1. n + 1 \in 1..(n + 1) /\ n + 1 + Len(raw') <= n + 1
      BY <1>3, <1>4
    <3> QED BY <1>4, <1>7, <1>8, <1>9, <2>1, <3>1
  <2>2. CASE e \in DOMAIN events
    <3>1. PICK p \in DOMAIN lines, q \in DOMAIN lines :
            events[e] = Range(p, q) /\ Closed(p, q) /\ Fits(p, q)
      BY <2>2 DEF ReadInv, Delivered
    <3>2. p \in 1..(n + 1) /\ q \in 1..(n + 1) /\ q + Len(raw') <= n + 1
      BY <1>3, <1>4, <1>8, <3>1
    <3> QED BY <1>7, <1>8, <2>2, <3>1, <3>2
  <2> QED BY <1>7, <2>1, <2>2
<1>11. InTurn'
  <2> SUFFICES ASSUME NEW c \in DOMAIN events', NEW e \in DOMAIN events', c < e
               PROVE  events'[c][Len(events'[c])] < events'[e][1]
    BY DEF InTurn
  <2>1. c \in DOMAIN events
    BY <1>7
  <2>2. CASE e = d
    <3>1. PICK p \in DOMAIN lines, q \in DOMAIN lines :
            events[c] = Range(p, q) /\ Closed(p, q) /\ q + Len(raw) <= Len(lines)
      BY <2>1 DEF ReadInv, Delivered
    <3>2. p \in Nat \ {0} /\ q \in Nat /\ p <= q
      BY <1>8, <3>1 DEF Closed
    <3>3. events'[c][Len(events'[c])] = q
      <4>1. Range(p, q)[Len(Range(p, q))] = q
        BY <3>2, LastOfRange
      <4>2. events'[c] = Range(p, q)
        BY <1>7, <2>1, <3>1
      <4> QED BY <4>1, <4>2
    <3>4. events'[e][1] = i
      <4>1. 1 \in 1..(n + 1 - i + 1) /\ i + 1 - 1 = i
        BY <1>4
      <4>2. Range(i, n + 1)[1] = i + 1 - 1
        BY <1>6, <4>1
      <4> QED BY <1>7, <2>2, <4>1, <4>2
    <3>5. q < i
      BY <1>1, <1>4, <3>1, <3>2
    <3> QED BY <3>3, <3>4, <3>5
  <2>3. CASE e \in DOMAIN events
    BY <1>7, <2>1, <2>3 DEF ReadInv, InTurn
  <2> QED BY <1>7, <2>2, <2>3
<1>12. NoneLost'
  <2>1. \A e \in DOMAIN events : e \in DOMAIN events' /\ events'[e] = events[e]
    BY <1>7
  <2>2. ASSUME NEW k \in 1..(n + 1), OpenFrom(k)
        PROVE  \E e \in DOMAIN events' : events'[e] = Range(k, n + 1)
    <3>1. k = i
      BY <1>1, <1>3, <1>4, <2>2, OpenMoves
    <3> QED BY <1>7, <3>1
  <2> QED BY <1>1, <1>3, <2>1, <2>2, NoneLostKept
<1>13. Holding'
  BY <1>3, StartsAfresh
<1> QED BY <1>3, <1>10, <1>11, <1>12, <1>13 DEF ReadInv

LEMMA OverlongFrameKeeps ==
  ASSUME ReaderTypes, ReadInv, NEW l \in Line, OverlongFrame(l)
  PROVE  ReadInv'
<1>1. PICK n : n = Len(lines)
  OBVIOUS
<1>2. PICK i : i = n - Len(raw) + 1
  OBVIOUS
<1>3. /\ Take(l) /\ ~Oversized(l) /\ ~skipFrame /\ ~l.blank /\ Holding
      /\ Overflows(l) /\ Discard /\ skipFrame' = TRUE /\ UNCHANGED events
  BY DEF OverlongFrame, ReadInv
<1>4. Len(raw') <= Len(raw) + 1 /\ raw' \in Seq(Nat)
  BY <1>3 DEF Discard, ReaderTypes
<1>5. Delivered' /\ InTurn'
  BY <1>3, <1>4, DeliveredKept
<1>6. ~Separator(n + 1)'
  BY <1>1, <1>3, TakeFacts
<1>7. NoneLost'
  BY <1>1, <1>3, <1>6, NoneLostKept
<1>8. ASSUME NEW k \in 1..(n + 1), OpenFrom(k) PROVE ~Fits(k, n + 1)'
  <2>1. /\ i \in 1..(n + 1) /\ OpenFrom(i)
        /\ rawLen = UpTo(n) - UpTo(i - 1) /\ rawLen \in Nat
    BY <1>1, <1>2, <1>3, HoldingFacts
  <2>2. k = i
    BY <1>1, <1>3, <1>8, <2>1, OpenMoves
  <2>3. Fits(i, n + 1)' => UpTo(n) - UpTo(i - 1) + l.size <= MaxSSEFrame
    BY <1>1, <1>3, <2>1, FitsWith
  <2>4. rawLen + l.size > MaxSSEFrame /\ l.size \in Nat
    BY <1>1, <1>3, TakeFacts DEF Overflows
  <2> QED BY <2>1, <2>2, <2>3, <2>4
<1>9. Skipping'
  BY <1>1, <1>3, <1>8, StartsSkipping
<1> QED BY <1>3, <1>5, <1>7, <1>9 DEF ReadInv

LEMMA CollectKeeps ==
  ASSUME ReaderTypes, ReadInv, NEW l \in Line, Collect(l)
  PROVE  ReadInv'
<1>1. PICK n : n = Len(lines)
  OBVIOUS
<1>2. PICK i : i = n - Len(raw) + 1
  OBVIOUS
<1>3. /\ Take(l) /\ ~Oversized(l) /\ ~skipFrame /\ ~l.blank /\ Holding
      /\ raw' = Append(raw, n + 1) /\ rawLen' = rawLen + l.size
      /\ UNCHANGED <<skipFrame, events>>
  BY <1>1 DEF Collect, Number, ReadInv
<1>4. /\ n \in Nat /\ i \in 1..(n + 1) /\ raw = Range(i, n) /\ OpenFrom(i)
      /\ Len(raw) = n - i + 1
      /\ \A k \in i..n : ~Oversized(lines[k]) /\ ~lines[k].blank
      /\ rawLen = UpTo(n) - UpTo(i - 1) /\ rawLen \in Nat
  BY <1>1, <1>2, <1>3, HoldingFacts
<1>5. /\ raw' = Range(i, n + 1) /\ raw' \in Seq(Nat)
      /\ Len(raw') = n + 1 - i + 1 /\ Len(raw') = Len(raw) + 1
  <2>1. PICK m : m = n + 1
    OBVIOUS
  <2>2. i \in Nat \ {0} /\ i <= n + 1
    BY <1>4
  <2>3. /\ Append(Range(i, n), m) = Range(i, m) /\ Range(i, m) \in Seq(Nat)
        /\ Len(Range(i, m)) = m - i + 1
    <3>1. n \in Nat
      BY <1>4
    <3> QED BY <2>1, <2>2, <3>1, RangeGrows, Zenon
  <2>4. raw' = Range(i, m)
    BY <1>3, <1>4, <2>1, <2>3
  <2>5. m - i + 1 = Len(raw) + 1 /\ m - i + 1 = n + 1 - i + 1
    BY <1>4, <2>1
  <2> QED BY <2>1, <2>3, <2>4, <2>5
<1>6. Delivered' /\ InTurn'
  BY <1>3, <1>4, <1>5, DeliveredKept
<1>7. /\ ~Separator(n + 1)' /\ Len(lines') = n + 1 /\ lines'[n + 1] = l
      /\ \A k \in 1..n : lines'[k] = lines[k]
      /\ \A k \in 0..n : UpTo(k)' = UpTo(k) /\ UpTo(k) \in Nat
      /\ UpTo(n + 1)' = UpTo(n) + l.size /\ l.size \in Nat \ {0}
  BY <1>1, <1>3, TakeFacts
<1>8. NoneLost'
  BY <1>1, <1>3, <1>7, NoneLostKept
<1>9. OpenFrom(i)'
  BY <1>1, <1>3, <1>4, OpenMoves
<1>10. rawLen' = UpTo(n + 1)' - UpTo(i - 1)' /\ rawLen' # 0 /\ raw' # <<>>
  <2>1. i - 1 \in 0..n /\ n \in 0..n
    BY <1>4
  <2>2. UpTo(i - 1)' = UpTo(i - 1) /\ UpTo(i - 1) \in Nat /\ UpTo(n) \in Nat
    BY <1>7, <2>1
  <2>3. rawLen' # 0
    BY <1>3, <1>4, <1>7
  <2>4. Len(raw') # 0
    BY <1>4, <1>5
  <2>5. rawLen' = UpTo(n) - UpTo(i - 1) + l.size
    BY <1>3, <1>4
  <2>6. UpTo(n + 1)' - UpTo(i - 1)' = UpTo(n) + l.size - UpTo(i - 1)
    BY <1>7, <2>2
  <2>7. UpTo(n) - UpTo(i - 1) + l.size = UpTo(n) + l.size - UpTo(i - 1)
    BY <1>7, <2>2
  <2>8. raw' # <<>>
    BY <2>4
  <2> QED BY <2>3, <2>5, <2>6, <2>7, <2>8
<1>11. \A k \in i..(n + 1) : ~Oversized(lines'[k]) /\ ~lines'[k].blank
  <2>1. \A k \in i..(n + 1) : k = n + 1 \/ (k \in i..n /\ k \in 1..n)
    BY <1>4
  <2> QED BY <1>3, <1>4, <1>7, <2>1
<1>12. Len(lines') - Len(raw') + 1 = i /\ Len(raw') <= Len(lines')
  <2>1. Len(raw') = n + 1 - i + 1 /\ Len(lines') = n + 1
    BY <1>5, <1>7
  <2>2. n \in Nat /\ i \in Nat /\ 1 <= i
    BY <1>4
  <2> QED BY <2>1, <2>2
<1>13. Holding'
  BY <1>5, <1>7, <1>9, <1>10, <1>11, <1>12 DEF Holding, Range, Oversized
<1> QED BY <1>3, <1>6, <1>8, <1>13 DEF ReadInv

-----------------------------------------------------------------------------
(* The end of the stream *)

\* A frame of what was sent was ended by its blank line, or is the open one.
LEMMA FramesAre ==
  ASSUME lines \in Seq(Line), NEW n, n = Len(lines), NEW i, NEW j
  PROVE  /\ Closed(i, j) => IsFrame(i, j)
         /\ OpenFrom(i) /\ i <= n => IsFrame(i, n)
         /\ IsFrame(i, j) => Closed(i, j) \/ (j = n /\ i <= n /\ OpenFrom(i))
<1>1. n \in Nat /\ DOMAIN lines = 1..n
  OBVIOUS
<1>2. Closed(i, j) => IsFrame(i, j)
  BY <1>1 DEF Closed, IsFrame
<1>3. ASSUME OpenFrom(i), i <= n PROVE IsFrame(i, n)
  <2>1. i \in 1..n /\ n \in i..Len(lines)
    BY <1>1, <1>3 DEF OpenFrom
  <2>2. \A k \in i..(n - 1) : k \in i..Len(lines)
    BY <1>1, <2>1
  <2> QED BY <1>1, <1>3, <2>1, <2>2 DEF OpenFrom, IsFrame
<1>4. ASSUME IsFrame(i, j) PROVE Closed(i, j) \/ (j = n /\ i <= n /\ OpenFrom(i))
  <2>1. /\ i \in 1..n /\ j \in i..n /\ (i # 1 => Separator(i - 1))
        /\ \A k \in i..(j - 1) : ~Separator(k)
        /\ j # n => Separator(j)
    BY <1>1, <1>4 DEF IsFrame
  <2>2. CASE Separator(j)
    BY <1>1, <2>1, <2>2 DEF Closed
  <2>3. CASE ~Separator(j)
    <3>1. j = n
      BY <2>1, <2>3
    <3>2. \A k \in i..Len(lines) : k \in i..(j - 1) \/ k = j
      BY <1>1, <2>1, <3>1
    <3>3. i \in 1..(Len(lines) + 1) /\ i <= n
      BY <1>1, <2>1
    <3> QED BY <2>1, <2>3, <3>1, <3>2, <3>3 DEF OpenFrom
  <2> QED BY <2>2, <2>3
<1> QED BY <1>2, <1>3, <1>4

\* The open frame fits when it is not skipped.
LEMMA HeldFits ==
  ASSUME ReaderTypes, Holding, NEW n, n = Len(lines), NEW i \in 1..n, OpenFrom(i)
  PROVE  Fits(i, n)
<1>1. PICK h : h = n - Len(raw) + 1
  OBVIOUS
<1>2. /\ n \in Nat /\ OpenFrom(h)
      /\ \A k \in h..n : ~Oversized(lines[k]) /\ ~lines[k].blank
      /\ rawLen = UpTo(n) - UpTo(h - 1) /\ rawLen <= MaxSSEFrame
  BY <1>1, HoldingFacts
<1>3. i = h
  BY <1>2, OpenIsOne DEF ReaderTypes
<1>4. ~Separator(n)
  BY <1>2, <1>3 DEF Separator
<1>5. UpTo(n) \in Nat /\ UpTo(h - 1) \in Nat
  BY <1>2, <1>3 DEF ReaderTypes, UpTo
<1>6. Size(h, n) = rawLen
  BY <1>2, <1>4, <1>5 DEF Size
<1> QED BY <1>2, <1>3, <1>6 DEF Fits

\* A line over a cap is reported before anything else is passed over.
LEMMA NothingSkippedKept ==
  ASSUME ReaderTypes, ReadInv, NothingSkipped, NEW l \in Line,
         \/ OverlongLine(l) \/ SkipLine(l) \/ Separate(l)
         \/ OverlongFrame(l) \/ Collect(l)
  PROVE  NothingSkipped'
<1>1. CASE OverlongLine(l) \/ OverlongFrame(l)
  <2>1. ReportOnce
    BY <1>1 DEF OverlongLine, OverlongFrame
  <2>2. told' # 0
    BY <2>1 DEF ReportOnce
  <2> QED BY <2>2 DEF NothingSkipped
<1>2. CASE SkipLine(l)
  BY <1>2 DEF SkipLine, NothingSkipped
<1>3. CASE Separate(l) \/ Collect(l)
  <2>1. Take(l) /\ ~Oversized(l) /\ ~skipFrame /\ skipFrame' = FALSE /\ told' = told
    BY <1>3 DEF Separate, Collect, ReaderTypes
  <2> SUFFICES ASSUME told = 0, NEW i \in DOMAIN lines', NEW j \in DOMAIN lines',
                      Closed(i, j)'
               PROVE  Fits(i, j)'
    BY <2>1 DEF NothingSkipped
  <2>2. PICK n : n = Len(lines)
    OBVIOUS
  <2>3. /\ n \in Nat /\ DOMAIN lines = 1..n /\ DOMAIN lines' = 1..(n + 1)
        /\ Separator(n + 1)' <=> l.blank
        /\ \A p, q \in 1..n : /\ Fits(p, q)' <=> Fits(p, q)
                              /\ Closed(p, q)' <=> Closed(p, q)
    BY <2>1, <2>2, TakeFacts
  <2>4. CASE j = n + 1
    <3>1. Closed(i, n + 1)' /\ OpenFrom(i) /\ i \in 1..(n + 1)
      BY <2>1, <2>2, <2>3, <2>4, OpenMoves
    <3>2. l.blank
      BY <2>3, <3>1 DEF Closed
    <3>3. PICK h : h = n - Len(raw) + 1
      OBVIOUS
    <3>4. /\ OpenFrom(h) /\ rawLen = UpTo(n) - UpTo(h - 1)
          /\ \A k \in h..n : ~Oversized(lines[k])
          /\ rawLen \in Nat /\ rawLen <= MaxSSEFrame
      BY <2>1, <2>2, <3>3, HoldingFacts DEF ReadInv
    <3>5. i = h
      BY <3>1, <3>4, OpenIsOne DEF ReaderTypes
    <3>6. UpTo(n) - UpTo(i - 1) + (IF l.blank THEN 0 ELSE l.size) <= MaxSSEFrame
      BY <3>2, <3>4, <3>5
    <3>7. Fits(i, n + 1)'
      BY <2>1, <2>2, <3>1, <3>4, <3>5, <3>6, FitsWith
    <3> QED BY <2>4, <3>7
  <2>5. CASE j # n + 1
    <3>1. j \in 1..n
      BY <2>3, <2>5
    <3>2. i \in 1..n
      BY <2>3, <3>1 DEF Closed
    <3> QED BY <2>1, <2>3, <3>1, <3>2 DEF NothingSkipped
  <2> QED BY <2>4, <2>5
<1> QED BY <1>1, <1>2, <1>3

\* What flushing the buffer delivers: the open frame, if it is within the caps
\* and has a line, and nothing else.
LEMMA Flushed ==
  ASSUME ReaderTypes, ReadInv, Flush, NEW n, n = Len(lines)
  PROVE  /\ events' \in Seq(Seq(Nat))
         /\ \A e \in DOMAIN events' :
              \E i, j \in 1..n : /\ events'[e] = Range(i, j) /\ Fits(i, j)
                                 /\ Closed(i, j) \/ (OpenFrom(i) /\ j = n)
         /\ InTurn'
         /\ \A e \in DOMAIN events : e \in DOMAIN events' /\ events'[e] = events[e]
         /\ \A i \in 1..n : OpenFrom(i) /\ Fits(i, n) =>
              \E e \in DOMAIN events' : events'[e] = Range(i, n)
<1>1. n \in Nat /\ DOMAIN lines = 1..n /\ events \in Seq(Seq(Nat))
  BY DEF ReaderTypes
<1>2. \A e \in DOMAIN events :
        \E i, j \in 1..n : /\ events[e] = Range(i, j) /\ Fits(i, j) /\ Closed(i, j)
                           /\ j + Len(raw) <= n
  BY <1>1 DEF ReadInv, Delivered
<1>3. \A i, k : OpenFrom(i) /\ OpenFrom(k) => i = k
  BY OpenIsOne DEF ReaderTypes
<1>4. CASE rawLen = 0
  <2>1. events' = events
    BY <1>4 DEF Flush
  <2>2. InTurn'
    BY <2>1 DEF ReadInv, InTurn
  <2>3. ASSUME NEW i \in 1..n, OpenFrom(i), Fits(i, n) PROVE FALSE
    <3>1. CASE skipFrame
      BY <2>3, <3>1 DEF ReadInv, Skipping, FitsOpen
    <3>2. CASE ~skipFrame
      <4>1. OpenFrom(n + 1)
        BY <1>1, <1>4, <3>2 DEF ReadInv, Holding
      <4>2. i = n + 1
        BY <1>3, <2>3, <4>1
      <4> QED BY <1>1, <4>2
    <3> QED BY <3>1, <3>2
  <2> QED BY <1>1, <1>2, <2>1, <2>2, <2>3
<1>5. CASE rawLen # 0
  <2>1. events' = Append(events, raw) /\ Holding /\ raw \in Seq(Nat)
    BY <1>5 DEF Flush, ReadInv, Skipping, ReaderTypes
  <2>2. PICK h : h = n - Len(raw) + 1
    OBVIOUS
  <2>3. /\ h \in 1..(n + 1) /\ Len(raw) = n - h + 1 /\ raw = Range(h, n) /\ OpenFrom(h)
        /\ \A k \in h..n : ~Oversized(lines[k]) /\ ~lines[k].blank
        /\ rawLen = UpTo(n) - UpTo(h - 1) /\ (rawLen = 0 <=> raw = <<>>)
        /\ rawLen <= MaxSSEFrame
    BY <2>1, <2>2, HoldingFacts
  <2>4. Len(raw) # 0
    BY <1>5, <2>1, <2>3
  <2>5. h \in 1..n
    BY <1>1, <2>3, <2>4
  <2>6. Fits(h, n)
    <3>1. ~Separator(n)
      BY <1>1, <2>3, <2>5 DEF Separator
    <3>2. Size(h, n) = rawLen
      <4>1. UpTo(n) \in Nat /\ UpTo(h - 1) \in Nat
        BY <1>1, <2>5 DEF ReaderTypes, UpTo
      <4> QED BY <2>3, <3>1, <4>1 DEF Size
    <3> QED BY <2>3, <3>2 DEF Fits
  <2>7. PICK d : d = Len(events) + 1
    OBVIOUS
  <2>8. /\ events' \in Seq(Seq(Nat)) /\ DOMAIN events' = DOMAIN events \cup {d}
        /\ \A e \in DOMAIN events : events'[e] = events[e] /\ e < d /\ e \in Nat
        /\ events'[d] = raw /\ d \in Nat
    BY <1>1, <2>1, <2>7
  <2>9. ASSUME NEW e \in DOMAIN events'
        PROVE  \E i, j \in 1..n : /\ events'[e] = Range(i, j) /\ Fits(i, j)
                                  /\ Closed(i, j) \/ (OpenFrom(i) /\ j = n)
    <3>1. CASE e = d
      <4>1. n \in 1..n /\ events'[e] = Range(h, n)
        BY <1>1, <2>3, <2>5, <2>8, <3>1
      <4> QED BY <2>3, <2>5, <2>6, <4>1
    <3>2. CASE e \in DOMAIN events
      BY <1>2, <2>8, <3>2
    <3> QED BY <2>8, <3>1, <3>2
  <2>10. InTurn'
    <3> SUFFICES ASSUME NEW c \in DOMAIN events', NEW e \in DOMAIN events', c < e
                 PROVE  events'[c][Len(events'[c])] < events'[e][1]
      BY DEF InTurn
    <3>1. c \in DOMAIN events
      BY <2>8
    <3>2. CASE e = d
      <4>1. PICK p \in 1..n, q \in 1..n :
              events[c] = Range(p, q) /\ Closed(p, q) /\ q + Len(raw) <= n
        BY <1>2, <3>1
      <4>2. p \in Nat \ {0} /\ q \in Nat /\ p <= q
        BY <1>1, <4>1 DEF Closed
      <4>3. events'[c][Len(events'[c])] = q
        <5>1. Range(p, q)[Len(Range(p, q))] = q
          BY <4>2, LastOfRange
        <5>2. events'[c] = Range(p, q)
          BY <2>8, <3>1, <4>1
        <5> QED BY <5>1, <5>2
      <4>4. events'[e][1] = h
        <5>1. Range(h, n)[1] = h
          BY <1>1, <2>5, FirstOfRange
        <5>2. events'[e] = Range(h, n)
          BY <2>3, <2>8, <3>2
        <5> QED BY <5>1, <5>2
      <4>5. q < h
        BY <1>1, <2>3, <2>5, <4>1, <4>2
      <4> QED BY <4>3, <4>4, <4>5
    <3>3. CASE e \in DOMAIN events
      BY <2>8, <3>1, <3>3 DEF ReadInv, InTurn
    <3> QED BY <2>8, <3>2, <3>3
  <2>11. ASSUME NEW i \in 1..n, OpenFrom(i)
         PROVE  \E e \in DOMAIN events' : events'[e] = Range(i, n)
    <3>1. i = h
      BY <1>3, <2>3, <2>11
    <3> QED BY <2>3, <2>8, <3>1
  <2> QED BY <2>8, <2>9, <2>10, <2>11
<1> QED BY <1>4, <1>5

\* At the end of the stream the open frame is delivered, and nothing was lost that
\* was not reported.
LEMMA EndOfStreamKeeps ==
  ASSUME ReaderTypes, ReadInv, NothingSkipped, EndOfStream
  PROVE  FramesWhole' /\ NoOtherFrameLost'
<1>1. PICK n : n = Len(lines)
  OBVIOUS
<1>2. Flush /\ stage' = "ended" /\ UNCHANGED <<lines, offset, told>>
  BY DEF EndOfStream
<1>3. n \in Nat /\ DOMAIN lines = 1..n /\ lines \in Seq(Line)
  BY <1>1 DEF ReaderTypes
<1>4. /\ \A e \in DOMAIN events' :
           \E i, j \in 1..n : /\ events'[e] = Range(i, j) /\ Fits(i, j)
                              /\ Closed(i, j) \/ (OpenFrom(i) /\ j = n)
      /\ InTurn'
      /\ \A e \in DOMAIN events : e \in DOMAIN events' /\ events'[e] = events[e]
      /\ \A i \in 1..n : OpenFrom(i) /\ Fits(i, n) =>
           \E e \in DOMAIN events' : events'[e] = Range(i, n)
  BY <1>1, <1>2, Flushed
<1>5. ASSUME NEW i \in 1..n, NEW j \in 1..n
      PROVE  (IsFrame(i, j)' <=> IsFrame(i, j)) /\ (Fits(i, j)' <=> Fits(i, j))
  BY <1>2 DEF IsFrame, Fits, Size, UpTo, Separator, Oversized
<1>6. FramesWhole'
  <2> SUFFICES ASSUME NEW e \in DOMAIN events'
               PROVE  \E i, j \in 1..n : /\ events'[e] = Range(i, j)
                                         /\ IsFrame(i, j)' /\ Fits(i, j)'
    BY <1>2, <1>3, <1>4 DEF FramesWhole, InTurn, Range
  <2>1. PICK i \in 1..n, j \in 1..n :
          /\ events'[e] = Range(i, j) /\ Fits(i, j)
          /\ Closed(i, j) \/ (OpenFrom(i) /\ j = n)
    BY <1>4
  <2>2. i <= n /\ IsFrame(i, j)
    BY <1>1, <1>3, <2>1, FramesAre
  <2> QED BY <1>5, <2>1, <2>2
<1>7. ASSUME NEW i \in 1..n, NEW j \in 1..n, IsFrame(i, j)
      PROVE  IF Fits(i, j) THEN \E e \in DOMAIN events' : events'[e] = Range(i, j)
                           ELSE told = 1
  <2>1. Closed(i, j) \/ (j = n /\ i <= n /\ OpenFrom(i))
    BY <1>1, <1>3, <1>7, FramesAre
  <2>2. ASSUME Fits(i, j) PROVE \E e \in DOMAIN events' : events'[e] = Range(i, j)
    <3>1. CASE Closed(i, j)
      <4>1. \E e \in DOMAIN events : events[e] = Range(i, j)
        BY <1>3, <2>2, <3>1 DEF ReadInv, NoneLost
      <4> QED BY <1>4, <4>1
    <3>2. CASE j = n /\ OpenFrom(i)
      BY <1>4, <2>2, <3>2
    <3> QED BY <2>1, <3>1, <3>2
  <2>3. ASSUME told # 1 PROVE Fits(i, j)
    <3>1. told = 0
      BY <2>3 DEF ReaderTypes
    <3>2. CASE Closed(i, j)
      BY <1>3, <3>1, <3>2 DEF NothingSkipped
    <3>3. CASE j = n /\ OpenFrom(i)
      <4>1. Holding
        BY <3>1 DEF NothingSkipped, ReadInv
      <4> QED BY <1>1, <3>3, <4>1, HeldFits
    <3> QED BY <2>1, <3>2, <3>3
  <2> QED BY <2>2, <2>3
<1>8. NoOtherFrameLost'
  BY <1>2, <1>3, <1>5, <1>7 DEF NoOtherFrameLost, Range
<1> QED BY <1>6, <1>8

\* A frame ended by its blank line is a frame of the stream, in the next state.
LEMMA ClosedIsFrame ==
  ASSUME lines' \in Seq(Line), NEW i, NEW j, Closed(i, j)'
  PROVE  IsFrame(i, j)'
<1>1. DOMAIN lines' = 1..Len(lines')
  OBVIOUS
<1> QED BY <1>1 DEF Closed, IsFrame

LEMMA DeliveredIsWhole ==
  ASSUME lines' \in Seq(Line), Delivered', InTurn'
  PROVE  FramesWhole'
<1>1. ASSUME NEW e \in DOMAIN events'
      PROVE  \E i, j \in DOMAIN lines' : /\ events'[e] = Range(i, j)
                                         /\ IsFrame(i, j)' /\ Fits(i, j)'
  <2>1. PICK i \in DOMAIN lines', j \in DOMAIN lines' :
          events'[e] = Range(i, j) /\ Closed(i, j)' /\ Fits(i, j)'
    BY DEF Delivered, Range
  <2>2. IsFrame(i, j)'
    BY <2>1, ClosedIsFrame
  <2> QED BY <2>1, <2>2
<1> QED BY <1>1 DEF FramesWhole, InTurn, Range

\* A client that leaves cuts the frame held just before the line it refused.
LEMMA ClientGoneKeeps ==
  ASSUME ReaderTypes, ReadInv, NEW l \in Line, ClientGone(l)
  PROVE  FramesWhole'
<1>1. PICK n : n = Len(lines)
  OBVIOUS
<1>2. Take(l) /\ stage' = "stopped" /\ monitor' /\ Discard
  BY DEF ClientGone, Take
<1>3. /\ n \in Nat /\ DOMAIN lines = 1..n
      /\ lines' \in Seq(Line) /\ DOMAIN lines' = 1..(n + 1) /\ Len(lines') = n + 1
      /\ \A i, j \in 1..n : /\ Fits(i, j)' <=> Fits(i, j)
                            /\ Closed(i, j)' <=> Closed(i, j)
  BY <1>1, <1>2, TakeFacts
<1>4. CASE Flush
  <2>1. /\ \A e \in DOMAIN events' :
             \E i, j \in 1..n : /\ events'[e] = Range(i, j) /\ Fits(i, j)
                                /\ Closed(i, j) \/ (OpenFrom(i) /\ j = n)
        /\ InTurn'
    BY <1>1, <1>4, Flushed
  <2>2. ASSUME NEW e \in DOMAIN events'
        PROVE  \E i, j \in DOMAIN lines' :
                 /\ events'[e] = Range(i, j) /\ Fits(i, j)'
                 /\ IsFrame(i, j)' \/ j + 1 = Len(lines')
    <3>1. PICK i \in 1..n, j \in 1..n :
            /\ events'[e] = Range(i, j) /\ Fits(i, j)
            /\ Closed(i, j) \/ (OpenFrom(i) /\ j = n)
      BY <2>1
    <3>2. i \in DOMAIN lines' /\ j \in DOMAIN lines' /\ Fits(i, j)'
      BY <1>3, <3>1
    <3>3. Closed(i, j) => IsFrame(i, j)'
      BY <1>3, ClosedIsFrame
    <3>4. j = n => j + 1 = Len(lines')
      BY <1>3
    <3> QED BY <3>1, <3>2, <3>3, <3>4
  <2> QED BY <1>2, <2>1, <2>2 DEF FramesWhole, InTurn, Range
<1>5. CASE UNCHANGED events
  <2>1. Len(raw') <= Len(raw) + 1 /\ raw' \in Seq(Nat)
    BY <1>2 DEF Discard, ReaderTypes
  <2>2. Delivered' /\ InTurn'
    BY <1>2, <1>5, <2>1, DeliveredKept
  <2> QED BY <1>3, <2>2, DeliveredIsWhole
<1> QED BY <1>4, <1>5 DEF ClientGone

-----------------------------------------------------------------------------
(* The theorems *)

\* The types after a line.
LEMMA TypesKeep ==
  ASSUME ReaderTypes, ReadInv, NEW l \in Line,
         \/ OverlongLine(l) \/ SkipLine(l) \/ Separate(l)
         \/ OverlongFrame(l) \/ Collect(l) \/ ClientGone(l)
  PROVE  ReaderTypes'
<1>1. Take(l)
  BY DEF OverlongLine, SkipLine, Separate, OverlongFrame, Collect, ClientGone
<1>2. PICK n : n = Len(lines)
  OBVIOUS
<1>3. /\ lines' \in Seq(Line) /\ Len(lines') = n + 1
      /\ offset' \in Seq(Nat) /\ Len(offset') = n + 1
      /\ n \in Nat /\ l.size \in Nat
  BY <1>1, <1>2, TakeFacts
<1>4. monitor' \in BOOLEAN
  BY <1>1 DEF Take, ReaderTypes
<1>5. Discard => raw' \in Seq(Nat) /\ rawLen' \in 0..MaxSSEFrame
  BY DEF Discard
<1>6. /\ raw \in Seq(Nat) /\ rawLen \in 0..MaxSSEFrame /\ skipFrame \in BOOLEAN
      /\ told \in 0..1 /\ events \in Seq(Seq(Nat)) /\ stage = "reading"
      /\ n + 1 \in Nat
  BY <1>1, <1>3 DEF ReaderTypes, Take
<1>7. /\ raw' \in Seq(Nat) /\ rawLen' \in 0..MaxSSEFrame /\ skipFrame' \in BOOLEAN
      /\ told' \in 0..1 /\ events' \in Seq(Seq(Nat))
      /\ stage' \in {"reading", "ended", "stopped"}
  <2>1. CASE OverlongLine(l) \/ OverlongFrame(l)
    <3>1. Discard /\ skipFrame' = TRUE /\ UNCHANGED events /\ ReportOnce
      BY <2>1 DEF OverlongLine, OverlongFrame
    <3>2. told' \in 0..1 /\ stage' \in {"reading", "ended", "stopped"}
      BY <1>6, <3>1 DEF ReportOnce
    <3> QED BY <1>5, <1>6, <3>1, <3>2
  <2>2. CASE SkipLine(l)
    BY <1>6, <2>2 DEF SkipLine
  <2>3. CASE Separate(l)
    <3>1. Append(events, Append(raw, n + 1)) \in Seq(Seq(Nat))
      BY <1>6
    <3> QED BY <1>2, <1>5, <1>6, <2>3, <3>1 DEF Separate, Callback, Number
  <2>4. CASE Collect(l)
    <3>1. raw' \in Seq(Nat)
      BY <1>2, <1>6, <2>4 DEF Collect, Number
    <3>2. rawLen' \in 0..MaxSSEFrame
      BY <1>3, <1>6, <2>4 DEF Collect, Overflows
    <3> QED BY <1>6, <2>4, <3>1, <3>2 DEF Collect
  <2>5. CASE ClientGone(l)
    <3>1. /\ Discard
          /\ stage' = "stopped"
          /\ Flush \/ UNCHANGED events
          /\ skipFrame' = skipFrame \/ skipFrame' = TRUE
          /\ told' = told \/ told' = 1
      BY <2>5 DEF ClientGone
    <3>2. Append(events, raw) \in Seq(Seq(Nat))
      BY <1>6
    <3>3. events' \in Seq(Seq(Nat))
      BY <1>6, <3>1, <3>2 DEF Flush
    <3>4. told' \in 0..1
      BY <1>6, <3>1
    <3>5. skipFrame' \in BOOLEAN
      BY <1>6, <3>1, Zenon
    <3> QED BY <1>5, <3>1, <3>3, <3>4, <3>5
  <2> QED BY <2>1, <2>2, <2>3, <2>4, <2>5
<1> QED BY <1>3, <1>4, <1>7 DEF ReaderTypes

LEMMA LineKeeps ==
  ASSUME ReaderInv, NEW l \in Line,
         \/ OverlongLine(l) \/ SkipLine(l) \/ Separate(l)
         \/ OverlongFrame(l) \/ Collect(l) \/ ClientGone(l)
  PROVE  ReaderInv'
<1>1. stage = "reading"
  BY DEF OverlongLine, SkipLine, Separate, OverlongFrame, Collect, ClientGone, Take
<1>2. ReaderTypes /\ ReadInv /\ NothingSkipped
  BY <1>1 DEF ReaderInv
<1>3. ReaderTypes'
  BY <1>2, TypesKeep
<1>4. CASE ClientGone(l)
  <2>1. stage' = "stopped" /\ FramesWhole'
    BY <1>2, <1>4, ClientGoneKeeps DEF ClientGone
  <2> QED BY <1>3, <2>1 DEF ReaderInv, NoOtherFrameLost
<1>5. CASE ~ClientGone(l)
  <2>1. ReadInv' /\ NothingSkipped'
    BY <1>2, <1>5, OverlongLineKeeps, SkipLineKeeps, SeparateKeeps,
       OverlongFrameKeeps, CollectKeeps, NothingSkippedKept
  <2>2. stage' # "ended"
    BY <1>1, <1>5 DEF OverlongLine, SkipLine, Separate, OverlongFrame, Collect,
                      ReportOnce, Callback
  <2>3. FramesWhole'
    BY <1>3, <2>1, DeliveredIsWhole DEF ReaderTypes, ReadInv
  <2> QED BY <1>3, <2>1, <2>2, <2>3 DEF ReaderInv, NoOtherFrameLost
<1> QED BY <1>4, <1>5

LEMMA ReaderInductive == ReaderSpec => []ReaderInv
<1>1. ReaderInit => ReaderInv
  <2> SUFFICES ASSUME ReaderInit PROVE ReaderInv
    OBVIOUS
  <2>1. lines = <<>> /\ offset = <<>> /\ raw = <<>> /\ events = <<>>
        /\ rawLen = 0 /\ skipFrame = FALSE /\ told = 0 /\ stage = "reading"
        /\ monitor \in BOOLEAN
    BY DEF ReaderInit
  <2>2. ReaderTypes
    <3>1. /\ <<>> \in Seq(Line) /\ <<>> \in Seq(Nat) /\ <<>> \in Seq(Seq(Nat))
          /\ Len(<<>>) = 0
      OBVIOUS
    <3>2. 0 \in 0..MaxSSEFrame /\ 0 \in 0..1
      OBVIOUS
    <3> QED BY <2>1, <3>1, <3>2 DEF ReaderTypes
  <2>3. Len(lines) = 0 /\ Len(raw) = 0 /\ DOMAIN lines = {} /\ DOMAIN events = {}
        /\ 0 - 0 + 1 = 1 /\ 1 - 1 = 0 /\ 1..0 = {} /\ 0 - 0 = 0
    BY <2>1
  <2>4. Delivered /\ InTurn /\ NoneLost
    BY <2>3 DEF Delivered, InTurn, NoneLost
  <2>5. OpenFrom(1)
    BY <2>3 DEF OpenFrom
  <2>6. raw = Range(1, 0)
    <3>1. Range(1, 0) \in Seq(Nat) /\ Len(Range(1, 0)) = 0
      BY RangeFacts
    <3> QED BY <2>1, <3>1
  <2>7. UpTo(0) = 0
    BY DEF UpTo
  <2>8. Holding
    <3> HIDE DEF Range, UpTo
    <3> QED BY <2>1, <2>3, <2>5, <2>6, <2>7 DEF Holding
  <2>9. NothingSkipped
    BY <2>1, <2>3 DEF NothingSkipped
  <2> QED BY <2>1, <2>2, <2>4, <2>8, <2>9 DEF ReaderInv, ReadInv
<1>2. ReaderInv /\ [ReaderNext]_readerVars => ReaderInv'
  <2> SUFFICES ASSUME ReaderInv, [ReaderNext]_readerVars PROVE ReaderInv'
    OBVIOUS
  <2>1. CASE \E l \in Line : \/ OverlongLine(l) \/ SkipLine(l) \/ Separate(l)
                             \/ OverlongFrame(l) \/ Collect(l) \/ ClientGone(l)
    BY <2>1, LineKeeps
  <2>2. CASE EndOfStream
    <3>1. ReaderTypes /\ ReadInv /\ NothingSkipped /\ stage' = "ended"
      BY <2>2 DEF EndOfStream, ReaderInv
    <3>2. ReaderTypes'
      BY <2>2, <3>1 DEF ReaderTypes, EndOfStream, Flush, Discard
    <3> QED BY <2>2, <3>1, <3>2, EndOfStreamKeeps DEF ReaderInv
  <2>3. CASE UNCHANGED readerVars
    BY <2>3 DEF readerVars, ReaderInv, ReaderTypes, ReadInv, NothingSkipped, Delivered,
                InTurn, NoneLost, Skipping,
                Holding, FitsOpen, OpenFrom, Closed, FramesWhole, NoOtherFrameLost,
                IsFrame, Fits, Size, UpTo, Separator, Oversized, Range
  <2> QED BY <2>1, <2>2, <2>3 DEF ReaderNext
<1> QED BY <1>1, <1>2, PTL DEF ReaderSpec

\* Never more than one frame is held, and that within its cap, whatever the
\* upstream sends (readSSE, sse.go:64-169).
THEOREM ReaderTypesHold == ReaderSpec => []ReaderTypeOK
<1>1. ReaderInv => ReaderTypeOK
  BY DEF ReaderInv, ReaderTypes, ReaderTypeOK
<1> QED BY <1>1, ReaderInductive, PTL

LEMMA Whole == ReaderInv => FramesWhole
<1> SUFFICES ASSUME ReaderInv PROVE FramesWhole
  OBVIOUS
<1>1. CASE stage # "reading"
  BY <1>1 DEF ReaderInv
<1>2. CASE stage = "reading"
  <2>1. lines \in Seq(Line) /\ Delivered /\ InTurn
    BY <1>2 DEF ReaderInv, ReaderTypes, ReadInv
  <2>2. ASSUME NEW e \in DOMAIN events
        PROVE  \E i, j \in DOMAIN lines : /\ events[e] = Range(i, j)
                                          /\ IsFrame(i, j) /\ Fits(i, j)
    <3>1. PICK i \in DOMAIN lines, j \in DOMAIN lines :
            events[e] = Range(i, j) /\ Closed(i, j) /\ Fits(i, j)
      BY <2>1 DEF Delivered
    <3>2. IsFrame(i, j)
      BY <2>1, <3>1, FramesAre
    <3> QED BY <3>1, <3>2
  <2> QED BY <2>1, <2>2 DEF FramesWhole, InTurn
<1> QED BY <1>1, <1>2

\* Every frame given to onEvent is one frame of the stream, whole, within both
\* caps and in its turn, for streams of any length (sse.go:123-167).
THEOREM DeliveredWhole == ReaderSpec => []FramesWhole
  BY ReaderInductive, Whole, PTL

\* An overflow costs the frame it is in and no other, and it is reported, for streams
\* of any length and any caps (sse.go:101-143).
THEOREM OthersDelivered == ReaderSpec => []NoOtherFrameLost
<1>1. ReaderInv => NoOtherFrameLost
  BY DEF ReaderInv, NoOtherFrameLost
<1> QED BY <1>1, ReaderInductive, PTL

=============================================================================
