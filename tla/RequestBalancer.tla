-------------------------- MODULE RequestBalancer --------------------------
(***************************************************************************)
(* The GlobalRequestLoadBalancer actor of the agent loop                   *)
(* (experimental/agent_loop/agent_loop.py) and the calls every             *)
(* AsyncLLMServerManager makes to it: a new conversation goes to the least *)
(* loaded server, later calls of it to the same server while the LRU cache *)
(* remembers it.  Ray runs the calls of one agent loop worker in the order *)
(* they were sent; a worker waits for the answer to an acquire and sends a *)
(* release without waiting.                                                *)
(***************************************************************************)
EXTENDS Naturals, Sequences, FiniteSets

CONSTANTS
  Requests,     \* request_ids, one per conversation
  Workers,      \* agent loop workers
  WorkerOf,     \* the worker that runs a conversation
  NumServers,   \* len(server_actor_ids)
  CacheSize     \* max_cache_size (10000 in the code)

ASSUME BalancerAssumption ==
  /\ WorkerOf \in [Requests -> Workers]
  /\ NumServers \in Nat \ {0} /\ CacheSize \in Nat \ {0}

\* In the order of the dictionary _inflight_requests.
Servers == 1 .. NumServers

VARIABLES
  inflight,   \* _inflight_requests
  routes,     \* _request_id_to_server: <<request, server>>, least recently used first
  calls       \* calls a worker has sent to the actor, in order

balancerVars == <<inflight, routes, calls>>

AcquireCall(r) == [op |-> "acquire", request |-> r]
ReleaseCall(s) == [op |-> "release", server |-> s]
Calls == {AcquireCall(r) : r \in Requests} \cup {ReleaseCall(s) : s \in Servers}

BalancerInit ==
  /\ inflight = [s \in Servers |-> 0]
  /\ routes = <<>>
  /\ calls = [w \in Workers |-> <<>>]

BalancerTypeOK ==
  /\ inflight \in [Servers -> Nat]
  /\ routes \in Seq(Requests \X Servers) /\ Len(routes) <= CacheSize
  /\ calls \in [Workers -> Seq(Calls)]

\* min() returns the first of the least loaded servers.
LeastLoaded ==
  CHOOSE s \in Servers :
    /\ \A t \in Servers : inflight[s] <= inflight[t]
    /\ \A t \in 1 .. s - 1 : inflight[t] > inflight[s]

Cached(r) == \E i \in DOMAIN routes : routes[i][1] = r
RouteOf(r) == routes[CHOOSE i \in DOMAIN routes : routes[i][1] = r][2]

\* cachetools.LRUCache: a read and a write move the key to the end, and a write of a
\* new key to a full cache evicts the first.
Forget(r) == SelectSeq(routes, LAMBDA e : e[1] # r)
Remember(r, s) ==
  IF ~Cached(r) /\ Len(routes) = CacheSize
  THEN Append(Tail(routes), <<r, s>>)
  ELSE Append(Forget(r), <<r, s>>)

ServerFor(r) == IF Cached(r) THEN RouteOf(r) ELSE LeastLoaded

\* A bug: a cached conversation is not counted.
AcquireUncounted(r, s) ==
  /\ s = ServerFor(r)
  /\ routes' = Remember(r, s)
  /\ inflight' = IF Cached(r) THEN inflight ELSE [inflight EXCEPT ![s] = @ + 1]

\* acquire_server answers s.
AcquireServer(r, s) ==
  /\ s = ServerFor(r)
  /\ routes' = Remember(r, s)
  /\ inflight' = [inflight EXCEPT ![s] = @ + 1]

\* release_server; with nothing in flight it raises and changes nothing.
ReleaseServer(s) ==
  /\ inflight' = [inflight EXCEPT ![s] = IF @ > 0 THEN @ - 1 ELSE @]
  /\ UNCHANGED routes

Sent(w, c) == calls' = [calls EXCEPT ![w] = Append(@, c)]
Received(w, c) ==
  /\ calls[w] # <<>> /\ Head(calls[w]) = c
  /\ calls' = [calls EXCEPT ![w] = Tail(@)]
=============================================================================
