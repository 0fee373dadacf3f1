---------------------------- MODULE ProxyManager ----------------------------
(***************************************************************************)
(* The proxy the dashboard manages: type ProxyManager in                   *)
(* internal/dashboard/dashboard.go, with the API handlers that call it     *)
(* (server.go), the goroutine that serves each proxy and the requests in   *)
(* flight.  Start and Stop hold the mutex while they wait for requests,    *)
(* and a call that succeeded asks for the status before it answers.        *)
(*                                                                         *)
(* net/http is modelled from how it is used here: Shutdown closes the      *)
(* listener if Serve has taken it over already, then waits for the         *)
(* requests; Serve on a server that was shut down closes its listener and  *)
(* returns at once.                                                        *)
(***************************************************************************)
EXTENDS Naturals, Sequences, FiniteSets

CONSTANTS
  Caller,       \* concurrent API requests to the dashboard
  Provider,     \* provider profiles
  Addr,         \* listen addresses
  AnyPort,      \* the address that leaves the port to the system (":0")
  NoOne,        \* no caller, no server
  MaxServers,   \* bound on the proxies started
  MaxRequests   \* bound on the requests of clients

ASSUME BoundAssumption == MaxServers \in Nat /\ MaxRequests \in Nat
ASSUME NoOneAssumption == NoOne \notin Caller \cup Nat /\ Caller \cap Nat = {}

Server  == 1..MaxServers
Request == 1..MaxRequests

VARIABLES
  mu,         \* the caller that holds pm.mu
  op,         \* per caller: the API call it is in
  current,    \* pm.server
  servers,    \* the servers started so far, in order
  requests,   \* the requests so far: their server and verdict
  events,     \* activity entries of type proxy, in order
  decisions   \* activity entries of requests and their decisions

vars == <<mu, op, current, servers, requests, events, decisions>>

-----------------------------------------------------------------------------

Idle == [kind |-> "none", step |-> "idle", provider |-> NoOne, addr |-> NoOne,
         victim |-> NoOne]

At(c, k, s) == op[c].kind \in k /\ op[c].step = s

Enter(c, s) == op' = [op EXCEPT ![c].step = s]
Return(c)   == op' = [op EXCEPT ![c] = Idle] /\ mu' = NoOne

\* A start or stop that succeeded: its handler answers with the status, for which
\* it takes the mutex again.
StatusCall == [Idle EXCEPT !.kind = "status", !.step = "waiting"]
Succeed(c) == op' = [op EXCEPT ![c] = StatusCall] /\ mu' = NoOne

Event(kind, p)  == [kind |-> kind, provider |-> p]

InFlight(s) == {r \in DOMAIN requests :
                  requests[r].server = s /\ requests[r].verdict = "pending"}

Open(s)      == servers[s].listener = "open"
Accepting(s) == servers[s].serve = "serving" /\ Open(s)

\* Whose listener is in the way of a new one.
Taken(a) == \E s \in DOMAIN servers : Open(s) /\ servers[s].addr = a /\ a # AnyPort

-----------------------------------------------------------------------------
(* API calls *)

Call(c, kind, p, a) ==
  /\ op[c] = Idle
  /\ op' = [op EXCEPT ![c] = [kind |-> kind, step |-> "waiting", provider |-> p,
                              addr |-> a, victim |-> NoOne]]
  /\ UNCHANGED <<mu, current, servers, requests, events, decisions>>

Lock(c) ==
  /\ At(c, {"start", "stop"}, "waiting")
  /\ mu = NoOne
  /\ mu' = c
  /\ Enter(c, "stopping")
  /\ UNCHANGED <<current, servers, requests, events, decisions>>

\* Status reads the state under the mutex.
ReadStatus(c) ==
  /\ At(c, {"status"}, "waiting")
  /\ mu = NoOne
  /\ Return(c)
  /\ UNCHANGED <<current, servers, requests, events, decisions>>

\* stopLocked: forget the server, then Shutdown.
NothingToStop(c) ==
  /\ At(c, {"start", "stop"}, "stopping")
  /\ current = NoOne
  /\ IF op[c].kind = "start" THEN Enter(c, "listening") /\ UNCHANGED mu
                             ELSE Succeed(c)
  /\ UNCHANGED <<current, servers, requests, events, decisions>>

\* Mutant: the listener of a serving proxy is left alone.
ShutWithoutListener(s) == [servers EXCEPT ![s].shut = TRUE]

ShutDown(s) ==
  [servers EXCEPT ![s].shut = TRUE,
                  ![s].listener = IF servers[s].serve = "serving" THEN "closed" ELSE @]

BeginStop(c) ==
  /\ At(c, {"start", "stop"}, "stopping")
  /\ current # NoOne
  /\ current' = NoOne
  /\ servers' = ShutDown(current)
  /\ op' = [op EXCEPT ![c].step = "draining", ![c].victim = current]
  /\ UNCHANGED <<mu, requests, events, decisions>>

\* Shutdown returns when no request is in flight; a Stop gives up after its five
\* seconds, a Start never does.
Drained(c) ==
  /\ op[c].step = "draining"
  /\ InFlight(op[c].victim) = {}
  /\ events' = Append(events, Event("stopped", servers[op[c].victim].provider))
  /\ IF op[c].kind = "start" THEN Enter(c, "listening") /\ UNCHANGED mu
                             ELSE Succeed(c)
  /\ UNCHANGED <<current, servers, requests, decisions>>

\* Mutants: a stop has no time limit; nothing is logged when the time is up.
GiveUpNever(c) == At(c, {"stop"}, "draining") /\ FALSE /\ UNCHANGED vars

GiveUpSilently(c) ==
  /\ At(c, {"stop"}, "draining")
  /\ InFlight(op[c].victim) # {}
  /\ Return(c)
  /\ UNCHANGED <<current, servers, requests, events, decisions>>

GiveUp(c) ==
  /\ At(c, {"stop"}, "draining")
  /\ InFlight(op[c].victim) # {}
  /\ events' = Append(events, Event("stopped", servers[op[c].victim].provider))
  /\ Return(c)
  /\ UNCHANGED <<current, servers, requests, decisions>>

\* net.Listen; another program may hold the port.
Listen(c) ==
  /\ At(c, {"start"}, "listening")
  /\ Len(servers) < MaxServers
  /\ ~Taken(op[c].addr)
  /\ servers' = Append(servers, [ provider |-> op[c].provider,
                                  addr |-> op[c].addr, listener |-> "open",
                                  serve |-> "pending", shut |-> FALSE ])
  /\ current' = Len(servers) + 1
  /\ events' = Append(events, Event("started", op[c].provider))
  /\ Succeed(c)
  /\ UNCHANGED <<requests, decisions>>

ListenFails(c) ==
  /\ At(c, {"start"}, "listening")
  /\ Return(c)
  /\ UNCHANGED <<current, servers, requests, events, decisions>>

-----------------------------------------------------------------------------
(* The serving goroutines *)

\* Mutant: a server that was shut down before it served leaves its listener open.
ServeLeavesOpen(s) ==
  /\ servers[s].serve = "pending"
  /\ servers' = [servers EXCEPT ![s].serve =
                   IF servers[s].shut THEN "returned" ELSE "serving"]
  /\ UNCHANGED <<mu, op, current, requests, events, decisions>>

Serve(s) ==
  /\ servers[s].serve = "pending"
  /\ servers' = IF servers[s].shut
                THEN [servers EXCEPT ![s].serve = "returned", ![s].listener = "closed"]
                ELSE [servers EXCEPT ![s].serve = "serving"]
  /\ UNCHANGED <<mu, op, current, requests, events, decisions>>

\* Accepting fails for good: the error is logged, nothing else learns of it.
AcceptFails(s) ==
  /\ Accepting(s)
  /\ servers' = [servers EXCEPT ![s].serve = "returned", ![s].listener = "closed"]
  /\ events' = Append(events, Event("error", servers[s].provider))
  /\ UNCHANGED <<mu, op, current, requests, decisions>>

-----------------------------------------------------------------------------
(* Requests *)

\* proxyActivityRecorder, then the proxy's handler.
Arrive(s) ==
  /\ Accepting(s)
  /\ Len(requests) < MaxRequests
  /\ requests' = Append(requests, [server |-> s, verdict |-> "pending"])
  /\ decisions' = decisions \cup
       {[request |-> Len(requests) + 1, kind |-> "request",
         provider |-> servers[s].provider]}
  /\ UNCHANGED <<mu, op, current, servers, events>>

Verdict == {"clean", "alert", "blocked"}

\* Mutant: the decision is credited to the provider now active.
CreditCurrent(s) == IF current = NoOne THEN NoOne ELSE servers[current].provider

\* The provider recordDecision names: the one the handler was made for.
Credit(s) == servers[s].provider

\* report calls OnDecision for every verdict but clean.
Decide(r, v) ==
  /\ requests[r].verdict = "pending"
  /\ requests' = [requests EXCEPT ![r].verdict = v]
  /\ decisions' = IF v = "clean" THEN decisions
                  ELSE decisions \cup {[request |-> r, kind |-> v,
                                        provider |-> Credit(requests[r].server)]}
  /\ UNCHANGED <<mu, op, current, servers, events>>

-----------------------------------------------------------------------------

Init ==
  /\ mu = NoOne
  /\ op = [c \in Caller |-> Idle]
  /\ current = NoOne
  /\ servers = <<>> /\ requests = <<>>
  /\ events = <<>> /\ decisions = {}

Api(c) ==
  \/ Lock(c) \/ ReadStatus(c) \/ NothingToStop(c) \/ BeginStop(c)
  \/ Drained(c) \/ GiveUp(c) \/ Listen(c) \/ ListenFails(c)

Next ==
  \/ \E c \in Caller :
       \/ \E p \in Provider, a \in Addr : Call(c, "start", p, a)
       \/ Call(c, "stop", NoOne, NoOne) \/ Call(c, "status", NoOne, NoOne)
       \/ Api(c)
  \/ \E s \in DOMAIN servers : Serve(s) \/ AcceptFails(s) \/ Arrive(s)
  \/ \E r \in DOMAIN requests, v \in Verdict : Decide(r, v)

Spec == Init /\ [][Next]_vars

Holds(c) == NothingToStop(c) \/ BeginStop(c) \/ Drained(c) \/ GiveUp(c)
              \/ Listen(c) \/ ListenFails(c)

\* The scheduler runs every goroutine that can run, sync.Mutex hands itself over
\* to whoever has waited too long, and a timer goes off.  Nothing makes a request
\* end: that takes the upstream and the client, and a stream has no time limit.
FairSpec ==
  /\ Spec
  /\ \A c \in Caller : WF_vars(Holds(c)) /\ SF_vars(Lock(c)) /\ SF_vars(ReadStatus(c))
  /\ \A s \in Server : WF_vars(s \in DOMAIN servers /\ Serve(s))

-----------------------------------------------------------------------------
(* Properties *)

OpType == [kind : {"none", "start", "stop", "status"},
           step : {"idle", "waiting", "stopping", "draining", "listening"},
           provider : Provider \cup {NoOne}, addr : Addr \cup {NoOne},
           victim : Server \cup {NoOne}]

TypeOK ==
  /\ mu \in Caller \cup {NoOne} /\ op \in [Caller -> OpType]
  /\ current \in DOMAIN servers \cup {NoOne}
  /\ servers \in Seq([provider : Provider, addr : Addr,
                      listener : {"open", "closed"},
                      serve : {"pending", "serving", "returned"}, shut : BOOLEAN])
  /\ requests \in Seq([server : Server, verdict : Verdict \cup {"pending"}])
  /\ events \in Seq([kind : {"started", "stopped", "error"}, provider : Provider])
  /\ decisions \subseteq [request : Request, provider : Provider,
                          kind : {"request", "alert", "blocked"}]

\* However starts, stops and the serving goroutines interleave, only the server
\* the manager knows takes new requests.
OnlyCurrentAccepts ==
  \A s \in DOMAIN servers : Accepting(s) => s = current

\* An alert or block is shown under the provider whose answer it is about, even
\* when the proxy was switched meanwhile (dashboard.go:453-455).
CreditedToItsProvider ==
  \A d \in decisions : d.provider = servers[requests[d.request].server].provider

\* The feed shows starts and stops in turn, each stop for the provider started
\* before it, also when a stop runs out of time or a start cannot listen; while no
\* call is under way, the feed and the manager agree on whether a proxy runs
\* (dashboard.go:437-479).
Switch == {i \in DOMAIN events : events[i].kind # "error"}
LastBefore(j, i) == j \in Switch /\ j < i /\ \A k \in Switch : k < i => k <= j
LastSwitch(i) == i \in Switch /\ \A k \in Switch : k <= i
StartsAndStopsAlternate ==
  /\ \A i \in Switch :
       IF events[i].kind = "started"
       THEN \A j \in Switch : LastBefore(j, i) => events[j].kind = "stopped"
       ELSE \E j \in Switch : LastBefore(j, i)
                                /\ events[j] = Event("started", events[i].provider)
  /\ mu = NoOne => (current # NoOne <=>
                      \E i \in Switch : LastSwitch(i) /\ events[i].kind = "started")

\* The port of a stopped proxy is given back, also when it is stopped before its
\* goroutine began to serve.
ListenersReleased ==
  \A s \in Server : (s \in DOMAIN servers /\ servers[s].shut)
                      ~> (s \in DOMAIN servers /\ ~Open(s))

\* A start waits, with the mutex, for a request of the proxy it replaces: Shutdown
\* is given context.Background() (dashboard.go:445).
StartWaits == \E d \in Caller : At(d, {"start"}, "draining") /\ InFlight(op[d].victim) # {}

\* Every API call is answered, however calls contend for the mutex, proxies fail and
\* requests outlast the proxy that took them.  Only a start that waits for a request
\* without an end keeps a call, its own or another, from its answer.
CallsAnswered == \A c \in Caller : <>[](op[c] # Idle) => <>[]StartWaits
=============================================================================
