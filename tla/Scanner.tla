------------------------------ MODULE Scanner ------------------------------
(***************************************************************************)
(* One scan of an endpoint: Scan in internal/scanner/scanner.go.  Address  *)
(* lookup and certificate check run concurrently, then one probe without   *)
(* tools per candidate protocol, then one with tools per protocol found to *)
(* be supported; each phase waits for all its goroutines.  The verdict is  *)
(* formed from the probes that were answered, also from answers that broke *)
(* off half way.                                                           *)
(***************************************************************************)
EXTENDS Engine

CONSTANTS
  Answers,   \* what an endpoint may do with a probe (see Answer below)
  Official,  \* the host is one of officialHosts
  Recent,    \* its certificate is less than 14 days old
  Pending    \* what a goroutine has yet to deliver

ProtocolOrder == <<"chat-completions", "responses", "anthropic">>
Protocol      == Range(ProtocolOrder)
Job           == Protocol \X {"no-tool", "with-tools"}

\* Status 0 stands for no answer, which shows nothing; others have three digits.  A
\* body is read whole, or longer than the 4 MiB that are read of it, or it breaks
\* off before that; text and tool tell what was read.
ASSUME AnswerAssumption ==
  \A a \in Answers :
    /\ a.status \in {0} \cup 100..999
    /\ a.body \in {"whole", "long", "broken"}
    /\ a.tool \in BOOLEAN /\ a.large \in BOOLEAN
    /\ a.status = 0 => ~a.tool /\ a.text.occurs = {}

VARIABLES
  mode,     \* "auto", or the protocol to speak
  pc,       \* "structural", "discovering", "probing", "done"
  listed,   \* hits of the blocklist; Pending first
  young,    \* the certificate was seen to be recent; Pending first
  work,     \* per probe: "off", "sent", "inspecting", "finished"
  answer,   \* per probe: what the endpoint did
  results,  \* per probe: what the groups of rules have reported so far
  slot,     \* noTool and withTools: the result of each probe
  report    \* the probes listed, the score and the verdict

vars == <<mode, pc, listed, young, work, answer, results, slot, report>>

None == [status |-> 0]

Init ==
  /\ mode \in Protocol \cup {"auto"}
  /\ pc = "structural"
  /\ listed = Pending /\ young = Pending
  /\ work = [j \in Job |-> "off"]
  /\ answer = [j \in Job |-> None]
  /\ results = [j \in Job |-> <<>>]
  /\ slot = [j \in Job |-> None]
  /\ report = None

-----------------------------------------------------------------------------
(* Selection *)

Candidates == IF mode = "auto" THEN ProtocolOrder ELSE <<mode>>

Jobs(protocols, name) == {<<p, name>> : p \in Range(protocols)}

\* Mutant: a route that is rejected counts as supported.
SupportedAny(r) == r.status # 0

\* discoverySupported: any answer but a rejection of the route.
Supported(r) == r.status \notin {0, 404, 405, 501}

\* selectProtocols, from the slots of the probes without tools.
Selected ==
  LET supports(p) == Supported(slot[<<p, "no-tool">>])
      found == (IF supports("chat-completions") THEN <<"chat-completions">>
                ELSE IF supports("responses") THEN <<"responses">> ELSE <<>>)
               \o (IF supports("anthropic") THEN <<"anthropic">> ELSE <<>>)
  IN IF mode # "auto" THEN <<mode>>
     ELSE IF found = <<>> THEN <<"chat-completions", "anthropic">> ELSE found

-----------------------------------------------------------------------------
(* Scoring: scoreResult *)

\* What the engine finds in an answer when the rules are tried one after another.
Shows == [a \in Answers |-> Sorted(Sequential(a.text))]

\* The result of a probe.  A rejected or truncated answer counts as an error; that
\* a body broke off does not, the error of io.ReadAll is dropped.
Result(a, found) ==
  [status |-> a.status, err |-> a.status = 0 \/ a.status >= 400 \/ a.body = "long",
   tool |-> a.tool, found |-> found]

\* What one probe adds to the behavioral score.
Points(j, r) ==
  (IF j[2] = "no-tool" /\ r.tool THEN 60 ELSE 0)
    + (IF MaxSeverityHigh(r.found) THEN 40 ELSE IF r.found # <<>> THEN 15 ELSE 0)

\* Mutant: the thresholds are exclusive.
VerdictStrict(reachable, behavioral) ==
  IF reachable = {}        THEN "could-not-probe"
  ELSE IF behavioral > 100 THEN "malicious"
  ELSE IF behavioral > 50  THEN "high-risk"
  ELSE IF behavioral > 15  THEN "suspicious"
  ELSE "no-active-injection-detected"

Verdict(reachable, behavioral) ==
  IF reachable = {}         THEN "could-not-probe"
  ELSE IF behavioral >= 100 THEN "malicious"
  ELSE IF behavioral >= 50  THEN "high-risk"
  ELSE IF behavioral >= 15  THEN "suspicious"
  ELSE "no-active-injection-detected"

Reachable(probes) == {k \in DOMAIN probes : ~slot[probes[k]].err}

\* The behavioral score: every hit of the blocklist, then the probes answered.
Behavioral(probes) ==
  LET sum[k \in Nat] ==
        IF k = 0 THEN 100 * listed
        ELSE sum[k - 1] + (IF k \in Reachable(probes)
                           THEN Points(probes[k], slot[probes[k]]) ELSE 0)
  IN sum[Len(probes)]

Report(probes) ==
  [probes  |-> [k \in DOMAIN probes |-> [job |-> probes[k], result |-> slot[probes[k]]]],
   score   |-> Behavioral(probes) + (IF Official THEN 0 ELSE 10) + (IF young THEN 5 ELSE 0),
   verdict |-> Verdict(Reachable(probes), Behavioral(probes))]

-----------------------------------------------------------------------------
(* Phase 1: structural checks *)

\* resolveIPs; the hits are looked up when both goroutines are done.
Resolve ==
  /\ pc = "structural" /\ listed = Pending
  /\ listed' \in {0, 1}
  /\ UNCHANGED <<mode, pc, young, work, answer, results, slot, report>>

\* probeTLS; without a certificate there is none to be young.
CheckCertificate ==
  /\ pc = "structural" /\ young = Pending
  /\ young' = Recent
  /\ UNCHANGED <<mode, pc, listed, work, answer, results, slot, report>>

Launch(jobs) == work' = [j \in Job |-> IF j \in jobs THEN "sent" ELSE work[j]]

Discover ==
  /\ pc = "structural" /\ listed # Pending /\ young # Pending
  /\ pc' = "discovering"
  /\ Launch(Jobs(Candidates, "no-tool"))
  /\ UNCHANGED <<mode, listed, young, answer, results, slot, report>>

-----------------------------------------------------------------------------
(* A probe: its request, the inspection of the answer, its own slot.  With the
   slot written the caller is told (opt.Progress) and the goroutine is done. *)

\* The endpoint answers, refuses or times out, also in the middle of its answer.
Answer(j) ==
  /\ work[j] = "sent"
  /\ \E a \in Answers :
       /\ answer' = [answer EXCEPT ![j] = a]
       /\ IF a.status # 0 /\ a.large
          THEN /\ work' = [work EXCEPT ![j] = "inspecting"]
               /\ results' = [results EXCEPT ![j] = [g \in 1..Groups |-> Pending]]
               /\ UNCHANGED slot
          ELSE /\ work' = [work EXCEPT ![j] = "finished"]
               /\ slot' = [slot EXCEPT ![j] = Result(a, Shows[a])]
               /\ UNCHANGED results
  /\ UNCHANGED <<mode, pc, listed, young, report>>

InspectGroup(j, g) ==
  /\ work[j] = "inspecting" /\ results[j][g] = Pending
  /\ results' = [results EXCEPT ![j][g] = GroupMatches(answer[j].text, g)]
  /\ UNCHANGED <<mode, pc, listed, young, work, answer, slot, report>>

Inspected(j) == \A g \in DOMAIN results[j] : results[j][g] # Pending

Store(j) ==
  /\ work[j] = "inspecting" /\ Inspected(j)
  /\ work' = [work EXCEPT ![j] = "finished"]
  /\ \E merged \in {Merged(answer[j].text, results[j])} :
       slot' = [slot EXCEPT ![j] = Result(answer[j], Sorted(merged))]
  /\ results' = [results EXCEPT ![j] = <<>>]
  /\ UNCHANGED <<mode, pc, listed, young, answer, report>>

-----------------------------------------------------------------------------
(* Phase 3, and the report *)

\* Mutant: a probe without an answer is waited for.
FinishedAnswered(jobs) ==
  \A j \in jobs : work[j] = "finished" /\ answer[j].status # 0

Finished(jobs) == \A j \in jobs : work[j] = "finished"

Probe ==
  /\ pc = "discovering" /\ Finished(Jobs(Candidates, "no-tool"))
  /\ pc' = "probing"
  /\ Launch(Jobs(Selected, "with-tools"))
  /\ UNCHANGED <<mode, listed, young, answer, results, slot, report>>

\* The probes without tools first.
Probes(protocols) ==
  LET n == Len(protocols)
  IN [k \in 1..(2 * n) |-> IF k <= n THEN <<protocols[k], "no-tool">>
                           ELSE <<protocols[k - n], "with-tools">>]

Conclude ==
  /\ pc = "probing" /\ Finished(Jobs(Selected, "with-tools"))
  /\ pc' = "done"
  /\ report' = Report(Probes(Selected))
  /\ UNCHANGED <<mode, listed, young, work, answer, results, slot>>

ProbeStep(j) ==
  Answer(j) \/ (\E g \in 1..Groups : InspectGroup(j, g)) \/ Store(j)

Next ==
  \/ Resolve \/ CheckCertificate \/ Discover \/ Probe \/ Conclude
  \/ \E j \in Job : ProbeStep(j)

\* While some goroutine can run, one does; and the client and dialer give up on
\* an endpoint that does not answer: 45 seconds for a probe, 10 for a certificate.
Spec == Init /\ [][Next]_vars /\ WF_vars(Next)
-----------------------------------------------------------------------------
(* Properties *)

\* An answer is scored when it was not rejected and was not too long.  One that a
\* reset or the time limit broke off is scored for what was read of it.
Scored(a) == a.status \in 100..399 /\ a.body # "long"

\* The findings of every probe are those of the rules tried one after another,
\* in the same order, however the groups of rules were scheduled.
FindingsAsSequential ==
  \A j \in Job :
    work[j] = "finished" => slot[j].found = Shows[answer[j]]

Position(p)    == CHOOSE k \in DOMAIN ProtocolOrder : ProtocolOrder[k] = p
Precedes(i, j) == IF i[2] = j[2] THEN Position(i[1]) < Position(j[1]) ELSE i[2] = "no-tool"

\* The report lists the probes of the chosen layouts, those without tools first,
\* in protocol order, each with its own answer;
\* responses is left out when chat-completions answered, and when no layout
\* answered the two classic ones are listed.
ReportMatchesAnswers ==
  pc = "done" =>
    LET Speaks(p) == answer[<<p, "no-tool">>].status \notin {0, 404, 405, 501}
        chosen(p) == IF mode # "auto" THEN p = mode
                     ELSE \/ Speaks(p) /\ (p = "responses" => ~Speaks("chat-completions"))
                          \/ p # "responses" /\ \A q \in Protocol : ~Speaks(q)
    IN /\ {e.job : e \in Range(report.probes)}
            = {p \in Protocol : chosen(p)} \X {"no-tool", "with-tools"}
       /\ \A k, m \in DOMAIN report.probes :
            k < m => Precedes(report.probes[k].job, report.probes[m].job)
       /\ \A e \in Range(report.probes) :
            /\ e.result.status = answer[e.job].status
            /\ e.result.err = ~Scored(answer[e.job])
            /\ e.result.tool = answer[e.job].tool

\* The verdict is "could not probe" only if no answer of a listed probe is scored,
\* and "no active injection" only if one is and none showed anything in what was
\* read of it, which for a body that broke off may be a part only (scanner.go:449);
\* a call nobody asked for is at least high risk, and an indicator is malicious.
VerdictJustified ==
  pc = "done" =>
    LET judged   == {j \in {e.job : e \in Range(report.probes)} : Scored(answer[j])}
        unasked  == {j \in judged : j[2] = "no-tool" /\ answer[j].tool}
        showing  == {j \in judged : Shows[answer[j]] # <<>>}
    IN /\ report.verdict = "could-not-probe" <=> judged = {}
       /\ judged # {} =>
            /\ report.verdict = "no-active-injection-detected"
                 <=> listed = 0 /\ unasked \cup showing = {}
            /\ unasked # {} => report.verdict \in {"high-risk", "malicious"}
            /\ listed > 0 => report.verdict = "malicious"

\* A scan ends, whatever the endpoint does.
ScanEnds == <>(pc = "done")
=============================================================================
