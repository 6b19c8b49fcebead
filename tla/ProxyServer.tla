----------------------------- MODULE ProxyServer -----------------------------
(***************************************************************************)
(* The gRPC proxy (proxysrv): sendMetrics goroutines hash metrics onto the  *)
(* ring of destinations and forward them over the connections of the        *)
(* clientConnMap, while SetDestinations replaces the ring and prunes and    *)
(* adds connections, and Stop closes them all.                              *)
(*                                                                         *)
(* sendMetrics reads s.destinations and the connection map without          *)
(* updateMtx, so a batch may reach its connection long after the ring it    *)
(* was hashed with has gone.  A ring is the set of its members.             *)
(***************************************************************************)
EXTENDS Integers, FiniteSets

CONSTANTS Hosts,
          BadHosts,    \* addresses grpc.Dial rejects
          Metrics,
          Hash,        \* consistent.Get: the member of a nonempty ring for a metric
          Calls,       \* SendMetrics calls, at most one each
          List,        \* the metrics of a call
          MaxUpdates,  \* bound on the calls of SetDestinations, and of Set on a shared ring
          SharedRing   \* the caller changes one ring in place and passes it again

Rings == SUBSET Hosts

ASSUME ProxyServerAssumption ==
  /\ BadHosts \subseteq Hosts
  /\ Hash \in [Rings \ {{}} -> [Metrics -> Hosts]]
  /\ \A r \in Rings \ {{}}, m \in Metrics : Hash[r][m] \in r
  /\ List \in [Calls -> SUBSET Metrics]
  /\ \A c \in Calls : IsFiniteSet(List[c])
  /\ MaxUpdates \in Nat
  /\ SharedRing \in BOOLEAN

VARIABLES ring,      \* s.destinations
          conns,     \* the hosts with a connection in s.conns
          updating,  \* a SetDestinations holds updateMtx
          target,    \* its dests
          stale,     \* the connections it has yet to delete
          toAdd,     \* the destinations it has yet to connect to
          server,    \* "running", "stopping" (gRPC server stopped), "stopped"
          serve,     \* where Serve is
          stats,     \* the goroutine of Serve that reports statistics
          active,    \* activeProxyHandlers
          pc,        \* where each sendMetrics goroutine is
          rest,      \* metrics it has yet to hash
          batch,     \* dests: the metrics for each host
          fwd,       \* the goroutine forwarding to each host; "dead": its connection was closed
          sent,      \* metrics whose forward succeeded
          failed,    \* sum of numMetrics over the errors collected
          served,    \* history: the members at the last completed SetDestinations
          assigned,  \* history: how often the members of s.destinations changed
          begun,     \* history: SetDestinations calls begun
          quiet,     \* history: none has begun since the last change
          stamp      \* history: value of assigned when a call last hashed to a host

connVars == <<ring, conns, updating, target, stale, toAdd, served, assigned, begun, quiet>>
serveVars == <<server, serve, stats>>
callVars == <<active, pc, rest, batch, fwd, sent, failed, stamp>>
vars == <<connVars, serveVars, callVars>>

\* New has set the first destinations.
Init ==
  /\ ring \in SUBSET (Hosts \ BadHosts)
  /\ conns = ring /\ served = ring /\ target = ring
  /\ updating = FALSE /\ stale = {} /\ toAdd = {}
  /\ assigned = 0 /\ begun = 0 /\ quiet = TRUE
  /\ server = "running" /\ serve = "unstarted" /\ stats = "off"
  /\ active = 0
  /\ pc = [c \in Calls |-> "idle"]
  /\ rest = List
  /\ batch = [c \in Calls |-> [h \in Hosts |-> {}]]
  /\ fwd = [c \in Calls |-> [h \in Hosts |-> "none"]]
  /\ sent = [c \in Calls |-> {}]
  /\ failed = [c \in Calls |-> 0]
  /\ stamp = [c \in Calls |-> [h \in Hosts |-> 0]]

-----------------------------------------------------------------------------
(* SetDestinations. *)

\* The caller calls Set on the ring the server already holds.
RingSet(r) ==
  /\ SharedRing /\ ~updating /\ server = "running" /\ r # ring
  /\ assigned < MaxUpdates
  /\ ring' = r
  /\ assigned' = assigned + 1 /\ quiet' = TRUE
  /\ UNCHANGED <<conns, updating, target, stale, toAdd, served, begun>>
  /\ UNCHANGED serveVars /\ UNCHANGED callVars

\* Mutant of SetDestinations: the ring being replaced is not consulted.
SetDestinationsForget(r) ==
  /\ ~updating /\ server = "running" /\ begun < MaxUpdates
  /\ SharedRing => r = ring
  /\ updating' = TRUE
  /\ target' = r
  /\ stale' = conns \ r
  /\ toAdd' = r
  /\ begun' = begun + 1 /\ quiet' = FALSE
  /\ UNCHANGED <<ring, conns, served, assigned>>
  /\ UNCHANGED serveVars /\ UNCHANGED callVars

\* SetDestinations gets the lock and compares the connections with both rings.  No caller
\* begins an update once Stop was called.
SetDestinations(r) ==
  /\ ~updating /\ server = "running" /\ begun < MaxUpdates
  /\ SharedRing => r = ring
  /\ updating' = TRUE
  /\ target' = r
  /\ stale' = conns \ (ring \cup r)
  /\ toAdd' = r
  /\ begun' = begun + 1 /\ quiet' = FALSE
  /\ UNCHANGED <<ring, conns, served, assigned>>
  /\ UNCHANGED serveVars /\ UNCHANGED callVars

\* Closing the connections to hs fails the calls that are using them.
Close(hs) ==
  fwd' = [c \in Calls |-> [h \in Hosts |->
            IF h \in hs /\ fwd[c][h] = "rpc" THEN "dead" ELSE fwd[c][h]]]

Delete(h) ==
  /\ updating /\ h \in stale
  /\ stale' = stale \ {h}
  /\ conns' = conns \ {h}
  /\ Close({h})
  /\ UNCHANGED <<ring, updating, target, toAdd, served, assigned, begun, quiet>>
  /\ UNCHANGED serveVars
  /\ UNCHANGED <<active, pc, rest, batch, sent, failed, stamp>>

\* A connection that exists is kept; only Clear could interfere between the look-up and
\* the insertion, and that order is the same as Clear before both.
Add(h) ==
  /\ updating /\ stale = {} /\ h \in toAdd
  /\ h \notin BadHosts
  /\ toAdd' = toAdd \ {h}
  /\ conns' = conns \cup {h}
  /\ UNCHANGED <<ring, updating, target, stale, served, assigned, begun, quiet>>
  /\ UNCHANGED serveVars /\ UNCHANGED callVars

\* grpc.Dial fails: SetDestinations returns the error and keeps the old ring.
AddFails(h) ==
  /\ updating /\ stale = {} /\ h \in toAdd
  /\ h \in BadHosts
  /\ updating' = FALSE /\ toAdd' = {}
  /\ UNCHANGED <<ring, conns, target, stale, served, assigned, begun, quiet>>
  /\ UNCHANGED serveVars /\ UNCHANGED callVars

\* Mutant of Assign: the ring is replaced before the new connections exist.
AssignEarly ==
  /\ updating /\ stale = {} /\ ring # target
  /\ ring' = target /\ served' = target
  /\ assigned' = assigned + 1 /\ quiet' = TRUE
  /\ UNCHANGED <<conns, updating, target, stale, toAdd, begun>>
  /\ UNCHANGED serveVars /\ UNCHANGED callVars

\* All destinations are connected: the new ring is put in place.
Assign ==
  /\ updating /\ stale = {} /\ toAdd = {}
  /\ updating' = FALSE
  /\ ring' = target /\ served' = target
  /\ IF SharedRing THEN UNCHANGED <<assigned, quiet>>
                   ELSE assigned' = assigned + 1 /\ quiet' = TRUE
  /\ UNCHANGED <<conns, target, stale, toAdd, begun>>
  /\ UNCHANGED serveVars /\ UNCHANGED callVars

Update == \/ \E r \in Rings : RingSet(r) \/ SetDestinations(r)
          \/ \E h \in Hosts : Delete(h) \/ Add(h) \/ AddFails(h)
          \/ Assign

-----------------------------------------------------------------------------
(* SendMetrics and its goroutines. *)

\* SendMetrics starts the goroutine and returns.  A stopped gRPC server calls no handler.
SendMetrics(c) ==
  /\ server = "running" /\ pc[c] = "idle"
  /\ pc' = [pc EXCEPT ![c] = "spawned"]
  /\ UNCHANGED connVars /\ UNCHANGED serveVars
  /\ UNCHANGED <<active, rest, batch, fwd, sent, failed, stamp>>

HandlerStart(c) ==
  /\ pc[c] = "spawned"
  /\ pc' = [pc EXCEPT ![c] = "hash"]
  /\ active' = active + 1
  /\ UNCHANGED connVars /\ UNCHANGED serveVars
  /\ UNCHANGED <<rest, batch, fwd, sent, failed, stamp>>

\* destForMetric on the next metric; on an empty ring the metric is an error.
HashMetric(c) ==
  /\ pc[c] = "hash"
  /\ \E m \in rest[c] :
       /\ rest' = [rest EXCEPT ![c] = @ \ {m}]
       /\ \/ /\ ring = {}
             /\ failed' = [failed EXCEPT ![c] = @ + 1]
             /\ UNCHANGED <<batch, stamp>>
          \/ /\ ring # {}
             /\ batch' = [batch EXCEPT ![c][Hash[ring][m]] = @ \cup {m}]
             /\ stamp' = [stamp EXCEPT ![c][Hash[ring][m]] = assigned]
             /\ UNCHANGED failed
  /\ UNCHANGED connVars /\ UNCHANGED serveVars
  /\ UNCHANGED <<active, pc, fwd, sent>>

\* One goroutine for each destination.
StartForwards(c) ==
  /\ pc[c] = "hash" /\ rest[c] = {}
  /\ pc' = [pc EXCEPT ![c] = "forward"]
  /\ fwd' = [fwd EXCEPT ![c] = [h \in Hosts |-> IF batch[c][h] = {} THEN "none" ELSE "start"]]
  /\ UNCHANGED connVars /\ UNCHANGED serveVars
  /\ UNCHANGED <<active, rest, batch, sent, failed, stamp>>

\* forward looks the connection up, and without one returns an error.
GetConn(c, h) ==
  /\ fwd[c][h] = "start"
  /\ fwd' = [fwd EXCEPT ![c][h] = IF h \in conns THEN "rpc" ELSE "report"]
  /\ UNCHANGED connVars /\ UNCHANGED serveVars
  /\ UNCHANGED <<active, pc, rest, batch, sent, failed, stamp>>

RpcSucceeds(c, h) ==
  /\ fwd[c][h] = "rpc"
  /\ fwd' = [fwd EXCEPT ![c][h] = "done"]
  /\ sent' = [sent EXCEPT ![c] = @ \cup batch[c][h]]
  /\ UNCHANGED connVars /\ UNCHANGED serveVars
  /\ UNCHANGED <<active, pc, rest, batch, failed, stamp>>

\* The RPC fails, its context times out, or its connection is closed.
RpcFails(c, h) ==
  /\ fwd[c][h] \in {"rpc", "dead"}
  /\ fwd' = [fwd EXCEPT ![c][h] = "report"]
  /\ UNCHANGED connVars /\ UNCHANGED serveVars
  /\ UNCHANGED <<active, pc, rest, batch, sent, failed, stamp>>

\* Mutant of Collect: an error counts as one metric.
CollectOne(c, h) ==
  /\ fwd[c][h] = "report"
  /\ fwd' = [fwd EXCEPT ![c][h] = "done"]
  /\ failed' = [failed EXCEPT ![c] = @ + 1]
  /\ UNCHANGED connVars /\ UNCHANGED serveVars
  /\ UNCHANGED <<active, pc, rest, batch, sent, stamp>>

\* The collecting loop receives an error from errCh; only then is wg.Done called.
Collect(c, h) ==
  /\ fwd[c][h] = "report"
  /\ fwd' = [fwd EXCEPT ![c][h] = "done"]
  /\ failed' = [failed EXCEPT ![c] = @ + Cardinality(batch[c][h])]
  /\ UNCHANGED connVars /\ UNCHANGED serveVars
  /\ UNCHANGED <<active, pc, rest, batch, sent, stamp>>

\* Mutant of HandlerDone: wg waits for every member of the ring as well.
HandlerDoneAll(c) ==
  /\ pc[c] = "forward"
  /\ \A h \in Hosts : fwd[c][h] \in (IF h \in ring THEN {"done"} ELSE {"none", "done"})
  /\ pc' = [pc EXCEPT ![c] = "done"]
  /\ active' = active - 1
  /\ UNCHANGED connVars /\ UNCHANGED serveVars
  /\ UNCHANGED <<rest, batch, fwd, sent, failed, stamp>>

\* wg.Wait returns, errCh is closed and the loop over it ends.
HandlerDone(c) ==
  /\ pc[c] = "forward"
  /\ \A h \in Hosts : fwd[c][h] \in {"none", "done"}
  /\ pc' = [pc EXCEPT ![c] = "done"]
  /\ active' = active - 1
  /\ UNCHANGED connVars /\ UNCHANGED serveVars
  /\ UNCHANGED <<rest, batch, fwd, sent, failed, stamp>>

Handler(c) == HandlerStart(c) \/ HashMetric(c) \/ StartForwards(c) \/ HandlerDone(c)
Forward(c, h) == GetConn(c, h) \/ RpcSucceeds(c, h) \/ RpcFails(c, h) \/ Collect(c, h)

-----------------------------------------------------------------------------
(* Serve and Stop. *)

\* Serve starts the statistics goroutine and blocks in grpc's Serve.
Serve ==
  /\ serve = "unstarted"
  /\ serve' = "serving" /\ stats' = "running"
  /\ UNCHANGED server /\ UNCHANGED connVars /\ UNCHANGED callVars

\* grpc's Serve returns; the deferred send on done waits for the goroutine.
ServeEnds ==
  /\ serve = "serving" /\ server # "running"
  /\ serve' = "signalling"
  /\ UNCHANGED <<server, stats>> /\ UNCHANGED connVars /\ UNCHANGED callVars

StatsDone ==
  /\ serve = "signalling" /\ stats = "running"
  /\ serve' = "returned" /\ stats' = "exited"
  /\ UNCHANGED server /\ UNCHANGED connVars /\ UNCHANGED callVars

StopServer ==
  /\ server = "running"
  /\ server' = "stopping"
  /\ UNCHANGED <<serve, stats>> /\ UNCHANGED connVars /\ UNCHANGED callVars

Clear ==
  /\ server = "stopping"
  /\ server' = "stopped"
  /\ conns' = {}
  /\ Close(conns)
  /\ UNCHANGED <<serve, stats>>
  /\ UNCHANGED <<ring, updating, target, stale, toAdd, served, assigned, begun, quiet>>
  /\ UNCHANGED <<active, pc, rest, batch, sent, failed, stamp>>

Stop == StopServer \/ Clear

Next ==
  \/ Update
  \/ \E c \in Calls : \/ SendMetrics(c) \/ Handler(c)
                      \/ \E h \in Hosts : Forward(c, h)
  \/ Serve \/ ServeEnds \/ StatsDone
  \/ Stop

Spec == Init /\ [][Next]_vars

\* Goroutines that can run do; RPCs end by forwardTimeout.  Nobody need call
\* SetDestinations, SendMetrics, Serve or Stop.
Fairness ==
  /\ \A c \in Calls : WF_vars(Handler(c)) /\ \A h \in Hosts : WF_vars(Forward(c, h))
  /\ WF_vars(ServeEnds) /\ WF_vars(StatsDone)

FairSpec == Spec /\ Fairness

-----------------------------------------------------------------------------
\* Every variable of proxysrv.Server and of its goroutines has its type.
ConnTypeOK ==
  /\ ring \in Rings /\ conns \in Rings /\ target \in Rings /\ served \in Rings
  /\ stale \in Rings /\ toAdd \in Rings
  /\ updating \in BOOLEAN /\ quiet \in BOOLEAN
  /\ assigned \in Nat /\ begun \in Nat

CallTypeOK ==
  /\ pc \in [Calls -> {"idle", "spawned", "hash", "forward", "done"}]
  /\ rest \in [Calls -> SUBSET Metrics]
  /\ batch \in [Calls -> [Hosts -> SUBSET Metrics]]
  /\ fwd \in [Calls -> [Hosts -> {"none", "start", "rpc", "dead", "report", "done"}]]
  /\ sent \in [Calls -> SUBSET Metrics]
  /\ failed \in [Calls -> Nat]
  /\ stamp \in [Calls -> [Hosts -> Nat]]

TypeOK ==
  /\ ConnTypeOK /\ CallTypeOK
  /\ server \in {"running", "stopping", "stopped"}
  /\ serve \in {"unstarted", "serving", "signalling", "returned"}
  /\ stats \in {"off", "running", "exited"}
  /\ active \in Nat

\* A batch for h that has not been answered.
Waiting(c, h) == batch[c][h] # {} /\ fwd[c][h] \in {"none", "start", "rpc", "dead"}

\* SetDestinations keeps the connections of the ring it replaces: until Stop, a batch
\* finds no connection, or loses it under its RPC, only if the ring it was hashed with
\* was replaced twice, or was replaced and yet another SetDestinations has begun.
GracePeriod ==
  \A c \in Calls, h \in Hosts :
    Waiting(c, h) /\ (h \notin conns \/ fwd[c][h] = "dead") =>
      \/ server # "running"
      \/ assigned > stamp[c][h] + 1
      \/ assigned = stamp[c][h] + 1 /\ ~quiet

\* SetDestinations: a connection is closed only to a host "that wasn't in either the
\* current list or the last one".
PrunesOnlyStale ==
  [][\A h \in conns \ conns' : server' = "stopped" \/ h \notin target \cup served]_vars

\* sendMetrics: when it returns, each metric of the list was either forwarded or counted
\* once in numMetrics of an error, and the gauge of active handlers ends at zero.
Accounted ==
  /\ \A c \in Calls : pc[c] = "done" =>
       failed[c] + Cardinality(sent[c]) = Cardinality(List[c])
  /\ (\A c \in Calls : pc[c] \in {"idle", "spawned", "done"}) => active = 0

\* Hold again and again: a sendMetrics goroutine that was started has returned, and Serve has
\* returned after Stop.
CallEnded(c) == pc[c] \in {"idle", "done"}
ServeEnded == server = "running" \/ serve \in {"unstarted", "returned"}

\* Stop "closes all gRPC client connections".
StopClosesAll == server = "stopped" => conns = {}
=============================================================================
