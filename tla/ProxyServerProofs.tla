------------------------- MODULE ProxyServerProofs --------------------------
(***************************************************************************)
(* proxysrv, for any hosts, rings, hash function, lists and number of calls *)
(* and updates.  SetDestinations keeps the connections its ring names,      *)
(* provided each call gets a ring of its own; sendMetrics loses no metric   *)
(* and counts none twice, whether or not the caller shares its ring.        *)
(***************************************************************************)
EXTENDS ProxyServer, FiniteSetTheorems, TLAPS

(* SetDestinations. *)

Shape ==
  /\ ring \in SUBSET Hosts /\ conns \in SUBSET Hosts /\ target \in SUBSET Hosts
  /\ assigned \in Nat
  /\ pc \in [Calls -> {"idle", "spawned", "hash", "forward", "done"}]
  /\ rest \in [Calls -> SUBSET Metrics]
  /\ batch \in [Calls -> [Hosts -> SUBSET Metrics]]
  /\ fwd \in [Calls -> [Hosts -> {"none", "start", "rpc", "dead", "report", "done"}]]
  /\ stamp \in [Calls -> [Hosts -> Nat]]

\* What updateMtx protects: the ring in place stays connected throughout an update, and
\* so does what was connected for the ring to come.
Lists ==
  /\ served = ring
  /\ ~updating => stale = {}
  /\ quiet => ~updating
  /\ stale \cap (ring \cup target) = {}
  /\ server = "running" => ring \subseteq conns
  /\ server = "running" /\ updating => target \subseteq conns \cup toAdd

\* The batches of call c and how many rings ago they were hashed.
Batches(c) ==
  \A h \in Hosts :
    /\ fwd[c][h] # "none" => pc[c] \in {"forward", "done"}
    /\ batch[c][h] # {} => stamp[c][h] <= assigned
    /\ server = "running" /\ Waiting(c, h) /\ stamp[c][h] = assigned =>
         h \in ring /\ fwd[c][h] # "dead"
    /\ server = "running" /\ Waiting(c, h) /\ stamp[c][h] + 1 = assigned /\ quiet =>
         h \in conns /\ fwd[c][h] # "dead"

IInv == Shape /\ Lists /\ \A c \in Calls : Batches(c)

LEMMA InitInv == Init => IInv
<1>1. ASSUME Init PROVE Shape
  BY <1>1, ProxyServerAssumption DEF Init, Shape
<1>2. ASSUME Init PROVE Lists
  BY <1>2 DEF Init, Lists
<1>3. ASSUME Init, NEW c \in Calls PROVE Batches(c)
  BY <1>3 DEF Init, Batches, Waiting
<1> QED BY <1>1, <1>2, <1>3 DEF IInv

\* Closing connections only turns running RPCs into dead ones.
LEMMA CloseType ==
  ASSUME NEW hs, Close(hs), Shape
  PROVE  /\ fwd' \in [Calls -> [Hosts -> {"none", "start", "rpc", "dead", "report", "done"}]]
         /\ \A c \in Calls, h \in Hosts :
              /\ (h \notin hs => fwd'[c][h] = fwd[c][h])
              /\ (fwd'[c][h] # fwd[c][h] => fwd[c][h] = "rpc" /\ fwd'[c][h] = "dead")
BY DEF Close, Shape

\* A step that leaves rings, connections and the server alone.
LEMMA ListsQuiet == Lists /\ UNCHANGED connVars /\ UNCHANGED server => Lists'
BY DEF Lists, connVars

\* A step that leaves the calls alone and changes neither ring nor stamps.
LEMMA BatchesFrame ==
  ASSUME NEW c \in Calls, Batches(c), UNCHANGED callVars, UNCHANGED <<ring, assigned>>,
         server' = "running" => server = "running" /\ conns \subseteq conns',
         quiet' => quiet
  PROVE  Batches(c)'
BY DEF Batches, callVars, Waiting

LEMMA UpdateInv ==
  ASSUME ~SharedRing, IInv, Update
  PROVE  IInv'
<1> USE DEF IInv
<1>1. ASSUME NEW r \in Rings, RingSet(r) PROVE IInv'
  BY <1>1 DEF RingSet
<1>2. ASSUME NEW r \in Rings, SetDestinations(r) PROVE IInv'
  <2>1. Shape'
    BY <1>2 DEF SetDestinations, Rings, Shape, callVars
  <2>2. Lists'
    BY <1>2 DEF SetDestinations, Lists, serveVars
  <2>3. ASSUME NEW c \in Calls PROVE Batches(c)'
    BY <1>2, <2>3, BatchesFrame DEF SetDestinations, serveVars
  <2> QED BY <2>1, <2>2, <2>3
<1>3. ASSUME NEW h \in Hosts, Delete(h) PROVE IInv'
  <2>1. Close({h})
    BY <1>3 DEF Delete
  <2>2. Shape'
    BY <1>3, <2>1, CloseType DEF Delete, Shape
  <2>3. Lists'
    BY <1>3 DEF Delete, Lists, serveVars
  <2>4. ASSUME NEW c \in Calls PROVE Batches(c)'
    <3>1. h \notin ring /\ ~quiet' /\ UNCHANGED <<ring, assigned, pc, batch, stamp, server>>
      BY <1>3 DEF Delete, Lists, serveVars
    <3>2. ASSUME NEW g \in Hosts
          PROVE  /\ (g \in ring => fwd'[c][g] = fwd[c][g])
                 /\ (fwd'[c][g] # fwd[c][g] => fwd[c][g] = "rpc" /\ fwd'[c][g] = "dead")
      BY <2>1, <3>1, CloseType
    <3> QED BY <3>1, <3>2 DEF Batches, Waiting
  <2> QED BY <2>2, <2>3, <2>4
<1>4. ASSUME NEW h \in Hosts, Add(h) PROVE IInv'
  <2>1. Shape'
    BY <1>4 DEF Add, Shape, callVars
  <2>2. Lists'
    BY <1>4 DEF Add, Lists, serveVars
  <2>3. ASSUME NEW c \in Calls PROVE Batches(c)'
    BY <1>4, <2>3, BatchesFrame DEF Add, serveVars
  <2> QED BY <2>1, <2>2, <2>3
<1>5. ASSUME NEW h \in Hosts, AddFails(h) PROVE IInv'
  <2>1. Shape'
    BY <1>5 DEF AddFails, Shape, callVars
  <2>2. Lists'
    BY <1>5 DEF AddFails, Lists, serveVars
  <2>3. ASSUME NEW c \in Calls PROVE Batches(c)'
    BY <1>5, <2>3, BatchesFrame DEF AddFails, serveVars
  <2> QED BY <2>1, <2>2, <2>3
<1>6. ASSUME Assign PROVE IInv'
  <2>1. server = "running" => target \subseteq conns
    BY <1>6 DEF Assign, Lists
  <2>2. Lists'
    BY <1>6, <2>1 DEF Assign, Lists, serveVars
  <2>3. ASSUME NEW c \in Calls PROVE Batches(c)'
    <3>1. assigned' = assigned + 1 /\ UNCHANGED <<server, conns, pc, batch, fwd, stamp>>
      BY <1>6 DEF Assign, serveVars, callVars
    <3>2. assigned \in Nat /\ \A g \in Hosts : stamp[c][g] \in Nat
      BY DEF Shape
    <3> QED BY <3>1, <3>2 DEF Batches, Waiting, Lists
  <2>4. Shape'
    BY <1>6 DEF Assign, Shape, callVars
  <2> QED BY <2>2, <2>3, <2>4
<1> QED BY <1>1, <1>2, <1>3, <1>4, <1>5, <1>6 DEF Update
\* A step of a forwarding goroutine: it gets its connection, or answers its batch.
LEMMA ForwardFrame ==
  ASSUME NEW d \in Calls, NEW h \in Hosts, NEW v, Shape, NEW c \in Calls, Batches(c),
         pc[d] \in {"forward", "done"},
         v \in {"rpc", "report", "done"}, v = "rpc" => fwd[d][h] = "start",
         fwd' = [fwd EXCEPT ![d][h] = v],
         UNCHANGED connVars, UNCHANGED server, UNCHANGED <<pc, batch, stamp>>
  PROVE  Batches(c)'
<1>1. UNCHANGED <<ring, conns, assigned, quiet>>
  BY DEF connVars
<1>2. ASSUME NEW g \in Hosts
      PROVE  fwd'[c][g] = IF c = d /\ g = h THEN v ELSE fwd[c][g]
  BY DEF Shape
<1> QED BY <1>1, <1>2 DEF Batches, Waiting

LEMMA ForwardInv ==
  ASSUME IInv, NEW d \in Calls, NEW h \in Hosts, Forward(d, h)
  PROVE  IInv'
<1> USE DEF IInv
<1>1. UNCHANGED connVars /\ UNCHANGED server /\ UNCHANGED <<pc, rest, batch, stamp>>
  BY DEF Forward, GetConn, RpcSucceeds, RpcFails, Collect, serveVars
<1>2. PICK v \in {"rpc", "report", "done"} :
        /\ fwd' = [fwd EXCEPT ![d][h] = v]
        /\ v = "rpc" => fwd[d][h] = "start"
  BY DEF Forward, GetConn, RpcSucceeds, RpcFails, Collect
<1>3. fwd[d][h] # "none"
  BY DEF Forward, GetConn, RpcSucceeds, RpcFails, Collect
<1>4. pc[d] \in {"forward", "done"}
  BY <1>3 DEF Batches
<1>5. Shape'
  BY <1>1, <1>2 DEF Shape, connVars
<1>6. Lists'
  BY <1>1, ListsQuiet
<1>7. ASSUME NEW c \in Calls PROVE Batches(c)'
  BY Zenon, <1>1, <1>2, <1>4, <1>7, ForwardFrame
<1> QED BY <1>5, <1>6, <1>7

LEMMA HashInv ==
  ASSUME IInv, NEW d \in Calls, HashMetric(d)
  PROVE  IInv'
<1> USE DEF IInv
<1>1. UNCHANGED connVars /\ UNCHANGED server /\ UNCHANGED <<pc, fwd>>
  BY DEF HashMetric, serveVars
<1>2. UNCHANGED <<ring, conns, target, assigned, quiet>>
  BY <1>1 DEF connVars
<1>3. Lists'
  BY <1>1, ListsQuiet
<1>4. PICK m \in rest[d] :
        /\ rest' = [rest EXCEPT ![d] = @ \ {m}]
        /\ \/ UNCHANGED <<batch, stamp>>
           \/ /\ ring # {}
              /\ batch' = [batch EXCEPT ![d][Hash[ring][m]] = @ \cup {m}]
              /\ stamp' = [stamp EXCEPT ![d][Hash[ring][m]] = assigned]
  BY Zenon DEF HashMetric
<1>5. CASE UNCHANGED <<batch, stamp>>
  <2>1. Shape'
    BY <1>1, <1>2, <1>4, <1>5 DEF Shape
  <2>2. ASSUME NEW c \in Calls PROVE Batches(c)'
    BY <1>1, <1>2, <1>5 DEF Batches, Waiting
  <2> QED BY <1>3, <2>1, <2>2
<1>6. ASSUME NEW g, g = Hash[ring][m], ring # {},
             batch' = [batch EXCEPT ![d][g] = @ \cup {m}],
             stamp' = [stamp EXCEPT ![d][g] = assigned]
      PROVE  IInv'
  <2>1. m \in Metrics /\ g \in ring /\ g \in Hosts
    BY Zenon, <1>6, ProxyServerAssumption DEF Shape, Rings
  <2>2. Shape'
    BY <1>1, <1>2, <1>4, <1>6, <2>1 DEF Shape
  <2>3. ASSUME NEW c \in Calls PROVE Batches(c)'
    <3>1. ASSUME NEW h \in Hosts, ~(c = d /\ h = g)
          PROVE  stamp'[c][h] = stamp[c][h] /\ batch'[c][h] = batch[c][h]
      BY <1>6, <3>1 DEF Shape
    <3>2. stamp'[d][g] = assigned /\ assigned \in Nat
      BY <1>6, <2>1 DEF Shape
    <3>3. fwd[d][g] = "none"
      BY <2>1 DEF HashMetric, Batches
    <3> QED BY <1>1, <1>2, <2>1, <3>1, <3>2, <3>3 DEF Batches, Waiting
  <2> QED BY <1>3, <2>2, <2>3
<1> QED BY <1>4, <1>5, <1>6

LEMMA HandlerInv ==
  ASSUME IInv, NEW d \in Calls, SendMetrics(d) \/ Handler(d)
  PROVE  IInv'
<1> USE DEF IInv
<1>1. ASSUME SendMetrics(d) \/ HandlerStart(d) \/ HandlerDone(d) PROVE IInv'
  <2>1. /\ UNCHANGED connVars /\ UNCHANGED server /\ UNCHANGED <<rest, batch, fwd, stamp>>
        /\ \E v \in {"spawned", "hash", "done"} :
             /\ pc' = [pc EXCEPT ![d] = v]
             /\ v = "done" \/ pc[d] \in {"idle", "spawned"}
    BY <1>1 DEF SendMetrics, HandlerStart, HandlerDone, serveVars
  <2>2. Shape'
    BY <2>1 DEF Shape, connVars
  <2>3. Lists'
    BY <2>1, ListsQuiet
  <2>4. ASSUME NEW c \in Calls PROVE Batches(c)'
    BY <2>1 DEF Batches, Waiting, Shape, connVars
  <2> QED BY <2>2, <2>3, <2>4
<1>2. ASSUME HashMetric(d) PROVE IInv'
  BY <1>2, HashInv
<1>3. ASSUME StartForwards(d) PROVE IInv'
  <2>1. UNCHANGED connVars /\ UNCHANGED server /\ UNCHANGED <<rest, batch, stamp>>
    BY <1>3 DEF StartForwards, serveVars
  <2>2. Shape'
    BY <1>3, <2>1 DEF StartForwards, Shape, connVars
  <2>3. Lists'
    BY <2>1, ListsQuiet
  <2>4. ASSUME NEW c \in Calls PROVE Batches(c)'
    <3>1. UNCHANGED <<ring, conns, assigned, quiet>>
      BY <2>1 DEF connVars
    <3>2. CASE c # d
      <4>1. pc'[c] = pc[c] /\ fwd'[c] = fwd[c]
        BY <1>3, <3>2 DEF StartForwards, Shape
      <4> QED BY <2>1, <3>1, <4>1 DEF Batches, Waiting
    <3>3. CASE c = d
      <4>1. pc'[d] = "forward" /\ \A h \in Hosts : fwd[d][h] = "none" /\ fwd'[d][h] \in {"none", "start"}
        BY Zenon, <1>3 DEF StartForwards, Shape, Batches
      <4> QED BY <2>1, <3>1, <3>3, <4>1 DEF Batches, Waiting
    <3> QED BY <3>2, <3>3
  <2> QED BY <2>2, <2>3, <2>4
<1> QED BY <1>1, <1>2, <1>3 DEF Handler

LEMMA ServeInv ==
  ASSUME IInv, Serve \/ ServeEnds \/ StatsDone \/ Stop
  PROVE  IInv'
<1> USE DEF IInv
<1>1. ASSUME Serve \/ ServeEnds \/ StatsDone \/ StopServer PROVE IInv'
  <2>1. /\ UNCHANGED connVars /\ UNCHANGED callVars
        /\ server' = server \/ server' = "stopping"
    BY <1>1 DEF Serve, ServeEnds, StatsDone, StopServer
  <2>2. Shape'
    BY <2>1 DEF Shape, connVars, callVars
  <2>3. Lists'
    BY <2>1 DEF Lists, connVars
  <2>4. ASSUME NEW c \in Calls PROVE Batches(c)'
    BY <2>1, <2>4, BatchesFrame DEF connVars
  <2> QED BY <2>2, <2>3, <2>4
<1>2. ASSUME Clear PROVE IInv'
  <2>1. Close(conns) /\ server' = "stopped" /\ UNCHANGED <<assigned, pc, batch, stamp>>
    BY <1>2 DEF Clear
  <2>2. Shape'
    BY <1>2, <2>1, CloseType DEF Clear, Shape
  <2>3. Lists'
    BY <1>2 DEF Clear, Lists
  <2>4. ASSUME NEW c \in Calls PROVE Batches(c)'
    <3>1. ASSUME NEW h \in Hosts PROVE fwd'[c][h] # "none" => fwd[c][h] # "none"
      BY <2>1, CloseType
    <3> QED BY <2>1, <3>1 DEF Batches
  <2> QED BY <2>2, <2>3, <2>4
<1> QED BY <1>1, <1>2 DEF Stop

LEMMA InvStep ==
  ASSUME ~SharedRing, IInv, [Next]_vars
  PROVE  IInv'
<1>1. CASE UNCHANGED vars
  <2>1. UNCHANGED connVars /\ UNCHANGED serveVars /\ UNCHANGED callVars
    BY <1>1 DEF vars
  <2>2. Shape'
    BY <2>1 DEF IInv, Shape, connVars, callVars
  <2>3. Lists'
    BY <2>1, ListsQuiet DEF IInv, serveVars
  <2>4. ASSUME NEW c \in Calls PROVE Batches(c)'
    BY <2>1, <2>4, BatchesFrame DEF IInv, connVars, serveVars
  <2> QED BY <2>2, <2>3, <2>4 DEF IInv
<1>2. CASE Update
  BY <1>2, UpdateInv
<1>3. ASSUME NEW c \in Calls, SendMetrics(c) \/ Handler(c) PROVE IInv'
  BY <1>3, HandlerInv
<1>4. ASSUME NEW c \in Calls, NEW h \in Hosts, Forward(c, h) PROVE IInv'
  BY <1>4, ForwardInv
<1>5. CASE Serve \/ ServeEnds \/ StatsDone \/ Stop
  BY <1>5, ServeInv
<1> QED BY <1>1, <1>2, <1>3, <1>4, <1>5 DEF Next

-----------------------------------------------------------------------------
\* A batch of sendMetrics is safe from SetDestinations for one replacement of the ring it
\* was hashed with, whatever the hosts, the hash function and the number of calls, as long
\* as no caller changes in place a ring the server holds.
THEOREM GraceHolds ==
  ASSUME ~SharedRing
  PROVE  Spec => []GracePeriod
<1>1. IInv => GracePeriod
  <2> SUFFICES ASSUME IInv, NEW c \in Calls, NEW h \in Hosts, Waiting(c, h),
                      h \notin conns \/ fwd[c][h] = "dead", server = "running"
               PROVE  \/ assigned > stamp[c][h] + 1
                      \/ assigned = stamp[c][h] + 1 /\ ~quiet
    BY DEF GracePeriod
  <2>1. stamp[c][h] \in Nat /\ assigned \in Nat /\ stamp[c][h] <= assigned
    BY DEF IInv, Shape, Batches, Waiting
  <2>2. stamp[c][h] # assigned
    BY DEF IInv, Lists, Batches
  <2>3. ~(stamp[c][h] + 1 = assigned /\ quiet)
    BY DEF IInv, Batches
  <2> QED BY <2>1, <2>2, <2>3
<1> QED BY <1>1, InitInv, InvStep, PTL DEF Spec

\* SetDestinations closes a connection only to a host that is in neither list, again for
\* callers that pass a ring of its own each time.
THEOREM PrunesStale ==
  ASSUME ~SharedRing
  PROVE  Spec => PrunesOnlyStale
<1> DEFINE Pruned == \A h \in conns \ conns' : server' = "stopped" \/ h \notin target \cup served
<1>1. IInv /\ [Next]_vars => [Pruned]_vars
  <2> SUFFICES ASSUME IInv, Next PROVE Pruned
    OBVIOUS
  <2>1. ASSUME NEW h \in Hosts, Delete(h) PROVE Pruned
    BY <2>1 DEF Delete, IInv, Lists
  <2>2. CASE Clear
    BY <2>2 DEF Clear
  <2>3. ASSUME conns \subseteq conns' PROVE Pruned
    BY <2>3
  <2>4. ASSUME Update, \A h \in Hosts : ~Delete(h) PROVE conns \subseteq conns'
    BY <2>4 DEF Update, RingSet, SetDestinations, Add, AddFails, Assign
  <2>5. ASSUME NEW c \in Calls, SendMetrics(c) \/ Handler(c) PROVE conns \subseteq conns'
    BY <2>5 DEF SendMetrics, Handler, HandlerStart, HashMetric, StartForwards, HandlerDone, connVars
  <2>6. ASSUME NEW c \in Calls, NEW h \in Hosts, Forward(c, h) PROVE conns \subseteq conns'
    BY <2>6 DEF Forward, GetConn, RpcSucceeds, RpcFails, Collect, connVars
  <2>7. ASSUME Serve \/ ServeEnds \/ StatsDone \/ StopServer PROVE conns \subseteq conns'
    BY <2>7 DEF Serve, ServeEnds, StatsDone, StopServer, connVars
  <2> QED BY <2>1, <2>2, <2>3, <2>4, <2>5, <2>6, <2>7 DEF Next, Stop
<1> QED BY <1>1, InitInv, InvStep, PTL DEF Spec, PrunesOnlyStale

-----------------------------------------------------------------------------
(* sendMetrics. *)

\* What call c has hashed and got no answer for yet.
Pending(c) == UNION {batch[c][h] : h \in {g \in Hosts : fwd[c][g] # "done"}}

\* A metric of call c is in one place: yet to be hashed, in the batch of one host, or sent.
Places(c) ==
  /\ rest[c] \subseteq List[c] /\ sent[c] \subseteq List[c] /\ rest[c] \cap sent[c] = {}
  /\ \A h \in Hosts :
       /\ batch[c][h] \subseteq List[c] /\ batch[c][h] \cap rest[c] = {}
       /\ fwd[c][h] # "done" => batch[c][h] \cap sent[c] = {}
       /\ \A g \in Hosts : g # h => batch[c][g] \cap batch[c][h] = {}

\* How far its goroutines can be.
Phases(c) ==
  \A h \in Hosts :
    /\ pc[c] \in {"idle", "spawned", "hash"} => fwd[c][h] = "none"
    /\ pc[c] \in {"forward", "done"} => rest[c] = {} /\ (fwd[c][h] = "none" => batch[c][h] = {})
    /\ pc[c] = "done" => fwd[c][h] \in {"none", "done"}

Tally(c) ==
  failed[c] + Cardinality(sent[c]) + Cardinality(rest[c]) + Cardinality(Pending(c)) = Cardinality(List[c])

Call(c) == Places(c) /\ Phases(c) /\ (pc[c] \in {"forward", "done"} => rest[c] = {}) /\ Tally(c)

Busy == {c \in Calls : pc[c] \in {"hash", "forward"}}

TInv ==
  /\ ConnTypeOK /\ CallTypeOK
  /\ server \in {"running", "stopping", "stopped"}
  /\ serve \in {"unstarted", "serving", "signalling", "returned"}
  /\ stats \in {"off", "running", "exited"}
  /\ IsFiniteSet(Busy) /\ active = Cardinality(Busy)
  /\ \A c \in Calls : Call(c)

\* The finite sets that Tally counts.
LEMMA TallyFinite ==
  ASSUME NEW c \in Calls, CallTypeOK, Places(c)
  PROVE  /\ IsFiniteSet(List[c]) /\ IsFiniteSet(rest[c]) /\ IsFiniteSet(sent[c]) /\ IsFiniteSet(Pending(c))
         /\ Pending(c) \subseteq List[c]
         /\ Cardinality(rest[c]) \in Nat /\ Cardinality(sent[c]) \in Nat /\ Cardinality(Pending(c)) \in Nat
         /\ Cardinality(List[c]) \in Nat /\ failed[c] \in Nat
<1>1. IsFiniteSet(List[c])
  BY ProxyServerAssumption
<1>2. Pending(c) \subseteq List[c] /\ rest[c] \subseteq List[c] /\ sent[c] \subseteq List[c]
  BY DEF Places, Pending
<1>3. IsFiniteSet(rest[c]) /\ IsFiniteSet(sent[c]) /\ IsFiniteSet(Pending(c))
  BY <1>1, <1>2, FS_Subset
<1> QED BY <1>1, <1>2, <1>3, FS_CardinalityType DEF CallTypeOK

\* A step that leaves call c alone but for forwards that are under way.
LEMMA CallKept ==
  ASSUME NEW c \in Calls, Call(c),
         pc'[c] = pc[c], rest'[c] = rest[c], batch'[c] = batch[c], sent'[c] = sent[c], failed'[c] = failed[c],
         \A h \in Hosts : (fwd'[c][h] = "done" <=> fwd[c][h] = "done") /\ (fwd'[c][h] = "none" <=> fwd[c][h] = "none")
  PROVE  Call(c)'
<1>1. Pending(c)' = Pending(c)
  BY Zenon DEF Pending
<1> QED BY Zenon, <1>1 DEF Call, Places, Phases, Tally

LEMMA InitTally == Init => TInv
<1> SUFFICES ASSUME Init PROVE TInv
  OBVIOUS
<1>1. ConnTypeOK /\ CallTypeOK
  BY Zenon, ProxyServerAssumption DEF Init, ConnTypeOK, CallTypeOK, Rings
<1>2. Busy = {}
  BY DEF Init, Busy
<1>3. IsFiniteSet(Busy) /\ active = Cardinality(Busy)
  BY <1>2, FS_EmptySet DEF Init
<1>4. ASSUME NEW c \in Calls PROVE Call(c)
  <2>1. Places(c) /\ Phases(c) /\ (pc[c] \in {"forward", "done"} => rest[c] = {})
    BY ProxyServerAssumption DEF Init, Places, Phases
  <2>2. Pending(c) = {} /\ sent[c] = {} /\ rest[c] = List[c] /\ failed[c] = 0
    BY DEF Init, Pending
  <2>3. Cardinality(List[c]) \in Nat
    BY ProxyServerAssumption, FS_CardinalityType
  <2>4. Tally(c)
    BY <2>2, <2>3, FS_EmptySet DEF Tally
  <2> QED BY <2>1, <2>4 DEF Call
<1> QED BY <1>1, <1>3, <1>4 DEF TInv, Init

\* The metric m of call c moves from the list to an error or to the batch of its host.
LEMMA HashTally ==
  ASSUME TInv, NEW c \in Calls, HashMetric(c)
  PROVE  Call(c)'
<1>0. ConnTypeOK /\ CallTypeOK /\ Call(c)
  BY Zenon DEF TInv
<1>1. PICK m \in rest[c] :
        /\ rest' = [rest EXCEPT ![c] = @ \ {m}]
        /\ \/ /\ ring = {}
              /\ failed' = [failed EXCEPT ![c] = @ + 1]
              /\ UNCHANGED <<batch, stamp>>
           \/ /\ ring # {}
              /\ batch' = [batch EXCEPT ![c][Hash[ring][m]] = @ \cup {m}]
              /\ stamp' = [stamp EXCEPT ![c][Hash[ring][m]] = assigned]
              /\ UNCHANGED failed
  BY Zenon DEF HashMetric
<1>2. UNCHANGED <<pc, fwd, sent>> /\ pc[c] = "hash" /\ rest'[c] = rest[c] \ {m} /\ m \in Metrics
  BY Zenon, <1>0, <1>1 DEF HashMetric, CallTypeOK
<1>3. Places(c) /\ Phases(c) /\ Tally(c)
  BY <1>0 DEF Call
<1>4. \A h \in Hosts : fwd[c][h] = "none" /\ fwd'[c][h] = "none"
  BY <1>2, <1>3 DEF Phases
<1>5. Cardinality(rest'[c]) = Cardinality(rest[c]) - 1
  BY Zenon, <1>0, <1>1, <1>2, <1>3, TallyFinite, FS_RemoveElement
<1>6. Phases(c)' /\ (pc[c] \in {"forward", "done"} => rest[c] = {})'
  BY <1>2, <1>4 DEF Phases
<1>7. CASE ring = {}
  <2>1. UNCHANGED batch /\ failed'[c] = failed[c] + 1
    BY <1>0, <1>1, <1>7 DEF CallTypeOK
  <2>2. Places(c)'
    BY Zenon, <1>2, <1>3, <2>1 DEF Places
  <2>3. Pending(c)' = Pending(c)
    BY Zenon, <1>2, <2>1 DEF Pending
  <2>4. Tally(c)'
    BY <1>0, <1>2, <1>3, <1>5, <2>1, <2>3, TallyFinite DEF Tally
  <2> QED BY <1>6, <2>2, <2>4 DEF Call
<1>8. CASE ring # {}
  <2> DEFINE k == Hash[ring][m]
  <2>1. k \in Hosts
    BY Zenon, <1>0, <1>2, <1>8, ProxyServerAssumption DEF ConnTypeOK, Rings
  <2>2. /\ batch'[c][k] = batch[c][k] \cup {m}
        /\ \A h \in Hosts : h # k => batch'[c][h] = batch[c][h]
        /\ failed'[c] = failed[c]
    <3>1. batch' = [batch EXCEPT ![c][k] = @ \cup {m}] /\ failed' = failed
      BY Zenon, <1>1, <1>8
    <3>2. batch \in [Calls -> [Hosts -> SUBSET Metrics]]
      BY Zenon, <1>0 DEF CallTypeOK
    <3> HIDE DEF k
    <3> QED BY Zenon, <2>1, <3>1, <3>2
  <2> HIDE DEF k
  <2>3. m \in rest[c] /\ m \in List[c] /\ m \notin sent[c] /\ \A h \in Hosts : m \notin batch[c][h]
    BY <1>1, <1>3 DEF Places
  <2>4. Places(c)'
    <3>1. /\ rest[c] \subseteq List[c] /\ sent[c] \subseteq List[c] /\ rest[c] \cap sent[c] = {}
          /\ \A h \in Hosts : /\ batch[c][h] \subseteq List[c] /\ batch[c][h] \cap rest[c] = {}
                              /\ fwd[c][h] # "done" => batch[c][h] \cap sent[c] = {}
                              /\ \A g \in Hosts : g # h => batch[c][g] \cap batch[c][h] = {}
      BY Zenon, <1>3 DEF Places
    <3>2. rest'[c] = rest[c] \ {m} /\ sent' = sent /\ fwd' = fwd
      BY Zenon, <1>2
    <3>3. \A h \in Hosts : /\ batch'[c][h] \subseteq batch[c][h] \cup {m}
                           /\ m \in batch'[c][h] => h = k
      BY Zenon, <2>2, <2>3
    <3>4. \A h \in Hosts : /\ batch'[c][h] \subseteq List[c] /\ batch'[c][h] \cap rest'[c] = {}
                           /\ fwd'[c][h] # "done" => batch'[c][h] \cap sent'[c] = {}
      BY <2>3, <3>1, <3>2, <3>3
    <3>5. ASSUME NEW g \in Hosts, NEW h \in Hosts, g # h
          PROVE  batch'[c][g] \cap batch'[c][h] = {}
      <4>1. batch[c][g] \cap batch[c][h] = {} /\ m \notin batch[c][g] /\ m \notin batch[c][h]
        BY Zenon, <2>3, <3>1, <3>5
      <4>2. /\ batch'[c][g] \subseteq batch[c][g] \cup {m} /\ batch'[c][h] \subseteq batch[c][h] \cup {m}
            /\ ~(m \in batch'[c][g] /\ m \in batch'[c][h])
        BY Zenon, <3>3, <3>5
      <4> QED BY Zenon, <4>1, <4>2
    <3> QED BY Zenon, <3>1, <3>2, <3>4, <3>5 DEF Places
  <2>5. Pending(c)' = Pending(c) \cup {m}
    <3>1. \A x : x \in Pending(c) <=> \E h \in Hosts : x \in batch[c][h]
      BY Zenon, <1>4 DEF Pending
    <3>2. \A x : x \in Pending(c)' <=> \E h \in Hosts : x \in batch'[c][h]
      BY Zenon, <1>4 DEF Pending
    <3> QED BY Zenon, <2>1, <2>2, <3>1, <3>2
  <2>6. m \notin Pending(c)
    BY Zenon, <2>3 DEF Pending
  <2>7. Cardinality(Pending(c)') = Cardinality(Pending(c)) + 1
    BY Zenon, <1>0, <1>3, <2>5, <2>6, TallyFinite, FS_AddElement
  <2>8. Tally(c)'
    <3>1. /\ failed'[c] = failed[c] /\ sent' = sent
          /\ Cardinality(rest'[c]) = Cardinality(rest[c]) - 1
          /\ Cardinality(Pending(c)') = Cardinality(Pending(c)) + 1
      BY Zenon, <1>2, <1>5, <2>2, <2>7
    <3>2. /\ failed[c] \in Nat /\ Cardinality(sent[c]) \in Nat
          /\ Cardinality(rest[c]) \in Nat /\ Cardinality(Pending(c)) \in Nat
      BY Zenon, <1>0, <1>3, TallyFinite
    <3> QED BY <1>3, <3>1, <3>2 DEF Tally
  <2> QED BY <1>6, <2>4, <2>8 DEF Call
<1> QED BY <1>7, <1>8

\* The batch of h is answered: it leaves Pending as a whole, and no other batch does.
LEMMA Answered ==
  ASSUME NEW c \in Calls, NEW h \in Hosts, CallTypeOK, Places(c), fwd[c][h] # "done",
         fwd' = [fwd EXCEPT ![c][h] = "done"], UNCHANGED batch
  PROVE  /\ Pending(c)' = Pending(c) \ batch[c][h]
         /\ batch[c][h] \subseteq Pending(c) /\ IsFiniteSet(batch[c][h])
         /\ Cardinality(batch[c][h]) \in Nat
         /\ Cardinality(Pending(c)') = Cardinality(Pending(c)) - Cardinality(batch[c][h])
<1>1. fwd'[c][h] = "done" /\ \A g \in Hosts : g # h => fwd'[c][g] = fwd[c][g]
  BY DEF CallTypeOK
<1>2. \A g \in Hosts : g # h => batch[c][g] \cap batch[c][h] = {}
  BY DEF Places
<1>3. Pending(c)' = Pending(c) \ batch[c][h]
  BY <1>1, <1>2 DEF Pending
<1>4. batch[c][h] \subseteq Pending(c)
  BY DEF Pending
<1>5. IsFiniteSet(Pending(c)) /\ IsFiniteSet(batch[c][h])
  BY <1>4, TallyFinite, FS_Subset
<1>6. Pending(c) \cap batch[c][h] = batch[c][h]
  BY <1>4
<1>7. Cardinality(Pending(c) \ batch[c][h]) = Cardinality(Pending(c)) - Cardinality(Pending(c) \cap batch[c][h])
  BY <1>5, FS_Difference
<1> QED BY Zenon, <1>3, <1>4, <1>5, <1>6, <1>7, FS_CardinalityType

\* A forward of call c ends, with its batch sent or counted in an error.
LEMMA AnswerTally ==
  ASSUME TInv, NEW c \in Calls, NEW h \in Hosts, RpcSucceeds(c, h) \/ Collect(c, h)
  PROVE  Call(c)'
<1>0. ConnTypeOK /\ CallTypeOK /\ Call(c)
  BY Zenon DEF TInv
<1>1. /\ fwd[c][h] \in {"rpc", "report"} /\ fwd' = [fwd EXCEPT ![c][h] = "done"]
      /\ UNCHANGED <<pc, rest, batch>>
  BY DEF RpcSucceeds, Collect
<1>2. Places(c) /\ Phases(c) /\ Tally(c) /\ (pc[c] \in {"forward", "done"} => rest[c] = {})
  BY <1>0 DEF Call
<1>3. fwd'[c][h] = "done" /\ \A g \in Hosts : g # h => fwd'[c][g] = fwd[c][g]
  BY <1>0, <1>1 DEF CallTypeOK
<1>4. Phases(c)'
  BY <1>1, <1>2, <1>3 DEF Phases
<1>5. /\ batch[c][h] \subseteq Pending(c) /\ IsFiniteSet(batch[c][h]) /\ Cardinality(batch[c][h]) \in Nat
      /\ Cardinality(Pending(c)') = Cardinality(Pending(c)) - Cardinality(batch[c][h])
  BY Zenon, <1>0, <1>1, <1>2, Answered
<1>6. batch[c][h] \cap sent[c] = {} /\ batch[c][h] \cap rest[c] = {}
  BY <1>1, <1>2 DEF Places
<1>7. CASE RpcSucceeds(c, h)
  <2>1. sent'[c] = sent[c] \cup batch[c][h] /\ failed' = failed
    BY <1>0, <1>7 DEF RpcSucceeds, CallTypeOK
  <2>2. Places(c)'
    BY <1>1, <1>2, <1>3, <1>6, <2>1 DEF Places
  <2>3. IsFiniteSet(sent[c])
    BY Zenon, <1>0, <1>2, TallyFinite
  <2>4. /\ Cardinality(sent[c] \cap batch[c][h]) = 0
        /\ Cardinality(sent[c] \cup batch[c][h]) =
             Cardinality(sent[c]) + Cardinality(batch[c][h]) - Cardinality(sent[c] \cap batch[c][h])
    BY Zenon, <1>5, <1>6, <2>3, FS_Union, FS_EmptySet
  <2>5. Cardinality(sent'[c]) = Cardinality(sent[c]) + Cardinality(batch[c][h])
    <3>1. Cardinality(sent[c]) \in Nat
      BY Zenon, <1>0, <1>2, TallyFinite
    <3>2. Cardinality(sent'[c]) = Cardinality(sent[c] \cup batch[c][h])
      BY Zenon, <2>1
    <3> QED BY <1>5, <2>4, <3>1, <3>2
  <2>6. Tally(c)'
    BY <1>0, <1>1, <1>2, <1>5, <2>1, <2>5, TallyFinite DEF Tally
  <2> QED BY <1>1, <1>2, <1>4, <2>2, <2>6 DEF Call
<1>8. CASE Collect(c, h)
  <2>1. failed'[c] = failed[c] + Cardinality(batch[c][h]) /\ sent' = sent
    BY <1>0, <1>8 DEF Collect, CallTypeOK
  <2>2. Places(c)'
    BY <1>1, <1>2, <1>3, <2>1 DEF Places
  <2>3. Tally(c)'
    BY <1>0, <1>1, <1>2, <1>5, <2>1, TallyFinite DEF Tally
  <2> QED BY <1>1, <1>2, <1>4, <2>2, <2>3 DEF Call
<1> QED BY <1>7, <1>8

\* A step of call c's own program counter that touches neither its metrics nor its errors.
LEMMA PcTally ==
  ASSUME TInv, NEW c \in Calls,
         SendMetrics(c) \/ HandlerStart(c) \/ StartForwards(c) \/ HandlerDone(c)
  PROVE  Call(c)'
<1> USE DEF TInv
<1>1. UNCHANGED <<rest, batch, sent, failed>>
  BY Zenon DEF SendMetrics, HandlerStart, StartForwards, HandlerDone
<1>2. Places(c) /\ Phases(c) /\ Tally(c) /\ (pc[c] \in {"forward", "done"} => rest[c] = {})
  BY DEF Call
<1> DEFINE Rest == pc[c] \in {"forward", "done"} => rest[c] = {}
           Same == \A h \in Hosts : fwd'[c][h] = "done" <=> fwd[c][h] = "done"
<1>3. ASSUME SendMetrics(c) \/ HandlerStart(c) PROVE Phases(c)' /\ Rest' /\ Same
  <2>1. pc'[c] \in {"spawned", "hash"} /\ pc[c] \in {"idle", "spawned"} /\ fwd' = fwd
    BY <1>3 DEF SendMetrics, HandlerStart, CallTypeOK
  <2> QED BY Zenon, <1>2, <2>1 DEF Phases
<1>4. ASSUME StartForwards(c) PROVE Phases(c)' /\ Rest' /\ Same
  <2>1. /\ pc[c] = "hash" /\ pc'[c] = "forward" /\ rest[c] = {}
        /\ \A h \in Hosts : fwd'[c][h] = IF batch[c][h] = {} THEN "none" ELSE "start"
    BY <1>4 DEF StartForwards, CallTypeOK
  <2>2. \A h \in Hosts : fwd[c][h] = "none"
    BY <1>2, <2>1 DEF Phases
  <2> QED BY Zenon, <1>1, <2>1, <2>2 DEF Phases
<1>5. ASSUME HandlerDone(c) PROVE Phases(c)' /\ Rest' /\ Same
  <2>1. /\ pc[c] = "forward" /\ pc'[c] = "done" /\ fwd' = fwd
        /\ \A h \in Hosts : fwd[c][h] \in {"none", "done"}
    BY <1>5 DEF HandlerDone, CallTypeOK
  <2> QED BY Zenon, <1>1, <1>2, <2>1 DEF Phases
<1>6. Phases(c)' /\ Rest' /\ Same
  BY Zenon, <1>3, <1>4, <1>5
<1>7. Pending(c)' = Pending(c)
  BY Zenon, <1>1, <1>6 DEF Pending
<1> QED BY Zenon, <1>1, <1>2, <1>6, <1>7 DEF Call, Places, Tally

\* activeProxyHandlers counts the goroutines between its two updates.
LEMMA BusyStep ==
  ASSUME TInv, Next
  PROVE  IsFiniteSet(Busy)' /\ active' = Cardinality(Busy')
<1> USE DEF TInv
<1>1. ASSUME NEW c \in Calls, HandlerStart(c) PROVE IsFiniteSet(Busy)' /\ active' = Cardinality(Busy')
  <2>1. Busy' = Busy \cup {c} /\ c \notin Busy /\ active' = active + 1
    BY <1>1 DEF HandlerStart, Busy, CallTypeOK
  <2> QED BY <2>1, FS_AddElement
<1>2. ASSUME NEW c \in Calls, HandlerDone(c) PROVE IsFiniteSet(Busy)' /\ active' = Cardinality(Busy')
  <2>1. Busy' = Busy \ {c} /\ c \in Busy /\ active' = active - 1
    BY <1>2 DEF HandlerDone, Busy, CallTypeOK
  <2> QED BY <2>1, FS_RemoveElement
<1>3. ASSUME NEW c \in Calls, SendMetrics(c) \/ StartForwards(c)
      PROVE  IsFiniteSet(Busy)' /\ active' = Cardinality(Busy')
  <2>1. Busy' = Busy /\ active' = active
    BY <1>3 DEF SendMetrics, StartForwards, Busy, CallTypeOK
  <2> QED BY <2>1
<1>4. ASSUME UNCHANGED <<pc, active>> PROVE IsFiniteSet(Busy)' /\ active' = Cardinality(Busy')
  BY <1>4 DEF Busy
<1>5. CASE Update
  BY Zenon, <1>4, <1>5 DEF Update, RingSet, SetDestinations, Delete, Add, AddFails, Assign, callVars
<1>6. CASE Serve \/ ServeEnds \/ StatsDone \/ Stop
  BY <1>4, <1>6 DEF Serve, ServeEnds, StatsDone, Stop, StopServer, Clear, callVars
<1>7. ASSUME NEW c \in Calls, HashMetric(c) \/ \E h \in Hosts : Forward(c, h)
      PROVE  IsFiniteSet(Busy)' /\ active' = Cardinality(Busy')
  BY Zenon, <1>4, <1>7 DEF HashMetric, Forward, GetConn, RpcSucceeds, RpcFails, Collect
<1> QED BY <1>1, <1>2, <1>3, <1>5, <1>6, <1>7 DEF Next, Handler

LEMMA ConnTypes ==
  ASSUME ConnTypeOK, Next
  PROVE  ConnTypeOK'
<1>1. ASSUME UNCHANGED connVars PROVE ConnTypeOK'
  BY <1>1 DEF ConnTypeOK, connVars
<1>2. CASE Update
  <2>1. ASSUME NEW r \in Rings, RingSet(r) PROVE ConnTypeOK'
    BY <2>1 DEF RingSet, ConnTypeOK
  <2>2. ASSUME NEW r \in Rings, SetDestinations(r) PROVE ConnTypeOK'
    <3>1. /\ ring' \in Rings /\ conns' \in Rings /\ target' \in Rings /\ served' \in Rings
          /\ stale' \in Rings /\ toAdd' \in Rings /\ assigned' \in Nat /\ begun' \in Nat
      BY <2>2 DEF SetDestinations, ConnTypeOK, Rings
    <3>2. updating' \in BOOLEAN /\ quiet' \in BOOLEAN
      BY Zenon, <2>2 DEF SetDestinations
    <3> QED BY <3>1, <3>2 DEF ConnTypeOK
  <2>3. ASSUME NEW h \in Hosts, Delete(h) PROVE ConnTypeOK'
    BY <2>3 DEF Delete, ConnTypeOK, Rings
  <2>4. ASSUME NEW h \in Hosts, Add(h) \/ AddFails(h) PROVE ConnTypeOK'
    BY Zenon, <2>4 DEF Add, AddFails, ConnTypeOK, Rings
  <2>5. CASE Assign
    <3>1. /\ ring' \in Rings /\ conns' \in Rings /\ target' \in Rings /\ served' \in Rings
          /\ stale' \in Rings /\ toAdd' \in Rings /\ begun' \in Nat
      BY <2>5 DEF Assign, ConnTypeOK
    <3>2. assigned' \in Nat
      BY <2>5 DEF Assign, ConnTypeOK
    <3>3. updating' \in BOOLEAN /\ quiet' \in BOOLEAN
      BY <2>5, Zenon DEF Assign, ConnTypeOK
    <3> QED BY <3>1, <3>2, <3>3 DEF ConnTypeOK
  <2> QED BY <1>2, <2>1, <2>2, <2>3, <2>4, <2>5 DEF Update
<1>3. CASE Serve \/ ServeEnds \/ StatsDone \/ StopServer
  BY <1>1, <1>3 DEF Serve, ServeEnds, StatsDone, StopServer
<1>4. CASE Clear
  BY <1>4 DEF Clear, ConnTypeOK, Rings
<1>5. ASSUME NEW c \in Calls, SendMetrics(c) \/ Handler(c) PROVE ConnTypeOK'
  BY <1>1, <1>5 DEF SendMetrics, Handler, HandlerStart, HashMetric, StartForwards, HandlerDone
<1>6. ASSUME NEW c \in Calls, NEW h \in Hosts, Forward(c, h) PROVE ConnTypeOK'
  BY <1>1, <1>6 DEF Forward, GetConn, RpcSucceeds, RpcFails, Collect
<1> QED BY <1>2, <1>3, <1>4, <1>5, <1>6 DEF Next, Stop

LEMMA ServeTypes ==
  ASSUME TInv, Next
  PROVE  /\ server' \in {"running", "stopping", "stopped"}
         /\ serve' \in {"unstarted", "serving", "signalling", "returned"}
         /\ stats' \in {"off", "running", "exited"}
<1> USE DEF TInv, serveVars
<1>1. CASE Update
  BY Zenon, <1>1 DEF Update, RingSet, SetDestinations, Delete, Add, AddFails, Assign
<1>2. CASE Serve \/ ServeEnds \/ StatsDone \/ Stop
  BY <1>2 DEF Serve, ServeEnds, StatsDone, Stop, StopServer, Clear
<1>3. ASSUME NEW c \in Calls, SendMetrics(c) \/ Handler(c) PROVE UNCHANGED serveVars
  BY Zenon, <1>3 DEF SendMetrics, Handler, HandlerStart, HashMetric, StartForwards, HandlerDone
<1>4. ASSUME NEW c \in Calls, NEW h \in Hosts, Forward(c, h) PROVE UNCHANGED serveVars
  BY <1>4 DEF Forward, GetConn, RpcSucceeds, RpcFails, Collect
<1> QED BY <1>1, <1>2, <1>3, <1>4 DEF Next

\* What an assignment to one cell of a table of tables keeps.
LEMMA CellType ==
  ASSUME NEW S, NEW D, NEW T, NEW f \in [S -> [D -> T]], NEW a \in S, NEW b \in D, NEW v \in T
  PROVE  [f EXCEPT ![a][b] = v] \in [S -> [D -> T]]
OBVIOUS

\* The steps of call c and of its forwards: types, and the other calls.
LEMMA CallSteps ==
  ASSUME TInv, NEW c \in Calls, SendMetrics(c) \/ Handler(c)
  PROVE  CallTypeOK' /\ \A d \in Calls : Call(d)'
<1> USE DEF TInv
<1>1. ASSUME SendMetrics(c) \/ HandlerStart(c) PROVE CallTypeOK' /\ \A d \in Calls \ {c} : Call(d)'
  <2>1. CallTypeOK' /\ UNCHANGED <<rest, batch, fwd, sent, failed>> /\ \A d \in Calls \ {c} : pc'[d] = pc[d]
    BY Zenon, <1>1 DEF SendMetrics, HandlerStart, CallTypeOK
  <2> QED BY Zenon, <2>1, CallKept
<1>2. ASSUME HashMetric(c) PROVE CallTypeOK' /\ \A d \in Calls \ {c} : Call(d)'
  <2>1. PICK m \in rest[c] :
          /\ rest' = [rest EXCEPT ![c] = @ \ {m}]
          /\ \/ /\ ring = {}
                /\ failed' = [failed EXCEPT ![c] = @ + 1]
                /\ UNCHANGED <<batch, stamp>>
             \/ /\ ring # {}
                /\ batch' = [batch EXCEPT ![c][Hash[ring][m]] = @ \cup {m}]
                /\ stamp' = [stamp EXCEPT ![c][Hash[ring][m]] = assigned]
                /\ UNCHANGED failed
    BY Zenon, <1>2 DEF HashMetric
  <2>2. UNCHANGED <<pc, fwd, sent>> /\ m \in Metrics
    BY Zenon, <1>2, <2>1 DEF HashMetric, CallTypeOK
  <2>3. ring # {} => Hash[ring][m] \in Hosts
    BY Zenon, <2>2, ProxyServerAssumption DEF ConnTypeOK, Rings
  <2>4. CallTypeOK'
    <3> DEFINE k == Hash[ring][m]
    <3>1. rest' \in [Calls -> SUBSET Metrics]
      BY Zenon, <2>1 DEF CallTypeOK
    <3>2. failed' \in [Calls -> Nat]
      <4>1. failed[c] + 1 \in Nat /\ failed \in [Calls -> Nat]
        BY DEF CallTypeOK
      <4>2. failed' = failed \/ failed' = [failed EXCEPT ![c] = failed[c] + 1]
        BY <2>1
      <4> QED BY Zenon, <4>1, <4>2
    <3>3. batch' \in [Calls -> [Hosts -> SUBSET Metrics]] /\ stamp' \in [Calls -> [Hosts -> Nat]]
      <4>1. CASE ring = {}
        BY Zenon, <2>1, <4>1 DEF CallTypeOK
      <4>2. CASE ring # {}
        <5>1. k \in Hosts /\ batch[c][k] \cup {m} \in SUBSET Metrics /\ assigned \in Nat
          <6>1. k \in Hosts /\ assigned \in Nat
            BY Zenon, <2>3, <4>2 DEF ConnTypeOK
          <6> HIDE DEF k
          <6>2. batch[c][k] \in SUBSET Metrics
            BY <6>1 DEF CallTypeOK
          <6> QED BY Zenon, <2>2, <6>1, <6>2
        <5>2. /\ batch' = [batch EXCEPT ![c][k] = batch[c][k] \cup {m}]
              /\ stamp' = [stamp EXCEPT ![c][k] = assigned]
          BY <2>1, <4>2
        <5>3. batch \in [Calls -> [Hosts -> SUBSET Metrics]] /\ stamp \in [Calls -> [Hosts -> Nat]]
          BY DEF CallTypeOK
        <5> HIDE DEF k
        <5>4. batch' \in [Calls -> [Hosts -> SUBSET Metrics]]
          BY Zenon, <5>1, <5>2, <5>3, CellType
        <5>5. stamp' \in [Calls -> [Hosts -> Nat]]
          BY Zenon, <5>1, <5>2, <5>3, CellType
        <5> QED BY Zenon, <5>4, <5>5
      <4> QED BY Zenon, <4>1, <4>2
    <3> QED BY <2>2, <3>1, <3>2, <3>3 DEF CallTypeOK
  <2>5. \A d \in Calls \ {c} : rest'[d] = rest[d] /\ batch'[d] = batch[d] /\ failed'[d] = failed[d]
    BY Zenon, <2>1 DEF CallTypeOK
  <2> QED BY Zenon, <2>2, <2>4, <2>5, CallKept
<1>3. ASSUME StartForwards(c) PROVE CallTypeOK' /\ \A d \in Calls \ {c} : Call(d)'
  <2>1. CallTypeOK'
    BY <1>3 DEF StartForwards, CallTypeOK
  <2>2. UNCHANGED <<rest, batch, sent, failed>> /\ \A d \in Calls \ {c} : pc'[d] = pc[d] /\ fwd'[d] = fwd[d]
    BY <1>3 DEF StartForwards, CallTypeOK
  <2> QED BY Zenon, <2>1, <2>2, CallKept
<1>4. ASSUME HandlerDone(c) PROVE CallTypeOK' /\ \A d \in Calls \ {c} : Call(d)'
  <2>1. CallTypeOK' /\ UNCHANGED <<rest, batch, fwd, sent, failed>> /\ \A d \in Calls \ {c} : pc'[d] = pc[d]
    BY <1>4 DEF HandlerDone, CallTypeOK
  <2> QED BY <2>1, CallKept
<1>5. Call(c)'
  BY HashTally, PcTally DEF Handler
<1> QED BY <1>1, <1>2, <1>3, <1>4, <1>5 DEF Handler

LEMMA ForwardSteps ==
  ASSUME TInv, NEW c \in Calls, NEW h \in Hosts, Forward(c, h)
  PROVE  CallTypeOK' /\ \A d \in Calls : Call(d)'
<1> USE DEF TInv
<1>1. ASSUME GetConn(c, h) \/ RpcFails(c, h) PROVE CallTypeOK' /\ \A d \in Calls : Call(d)'
  <2>1. CallTypeOK'
    <3> DEFINE States == {"none", "start", "rpc", "dead", "report", "done"}
    <3>1. PICK v \in States : fwd' = [fwd EXCEPT ![c][h] = v]
      BY <1>1 DEF GetConn, RpcFails
    <3>2. UNCHANGED <<pc, rest, batch, sent, failed, stamp>>
      BY <1>1 DEF GetConn, RpcFails
    <3>3. fwd \in [Calls -> [Hosts -> States]]
      BY DEF CallTypeOK
    <3> HIDE DEF States
    <3>4. fwd' \in [Calls -> [Hosts -> States]]
      BY <3>1, <3>3, CellType
    <3> QED BY <3>2, <3>4 DEF CallTypeOK, States
  <2>2. UNCHANGED <<pc, rest, batch, sent, failed>>
    BY <1>1 DEF GetConn, RpcFails
  <2>3. \A d \in Calls, g \in Hosts : /\ (fwd'[d][g] = "done" <=> fwd[d][g] = "done")
                                      /\ (fwd'[d][g] = "none" <=> fwd[d][g] = "none")
    BY <1>1 DEF GetConn, RpcFails, CallTypeOK
  <2> QED BY <2>1, <2>2, <2>3, CallKept
<1>2. ASSUME RpcSucceeds(c, h) PROVE CallTypeOK' /\ \A d \in Calls : Call(d)'
  <2>1. CallTypeOK'
    BY <1>2 DEF RpcSucceeds, CallTypeOK
  <2>2. UNCHANGED <<pc, rest, batch, failed>> /\ \A d \in Calls \ {c} : fwd'[d] = fwd[d] /\ sent'[d] = sent[d]
    BY <1>2 DEF RpcSucceeds, CallTypeOK
  <2> QED BY Zenon, <1>2, <2>1, <2>2, CallKept, AnswerTally
<1>3. ASSUME Collect(c, h) PROVE CallTypeOK' /\ \A d \in Calls : Call(d)'
  <2>1. Places(c)
    BY DEF Call
  <2>2. Cardinality(batch[c][h]) \in Nat
    BY Zenon, <1>3, <2>1, Answered DEF Collect
  <2>3. CallTypeOK'
    BY <1>3, <2>2 DEF Collect, CallTypeOK
  <2>4. UNCHANGED <<pc, rest, batch, sent>> /\ \A d \in Calls \ {c} : fwd'[d] = fwd[d] /\ failed'[d] = failed[d]
    BY <1>3 DEF Collect, CallTypeOK
  <2> QED BY Zenon, <1>3, <2>3, <2>4, CallKept, AnswerTally
<1> QED BY <1>1, <1>2, <1>3 DEF Forward

\* SetDestinations, Serve and Stop touch no call but to close connections under it.
LEMMA OtherSteps ==
  ASSUME TInv, Update \/ Serve \/ ServeEnds \/ StatsDone \/ Stop
  PROVE  CallTypeOK' /\ \A d \in Calls : Call(d)'
<1> USE DEF TInv
<1>1. ASSUME NEW hs, Close(hs), UNCHANGED <<active, pc, rest, batch, sent, failed, stamp>>
      PROVE  CallTypeOK' /\ \A d \in Calls : Call(d)'
  <2>1. CallTypeOK'
    BY <1>1 DEF Close, CallTypeOK
  <2>2. \A d \in Calls, g \in Hosts : /\ (fwd'[d][g] = "done" <=> fwd[d][g] = "done")
                                      /\ (fwd'[d][g] = "none" <=> fwd[d][g] = "none")
    BY <1>1 DEF Close
  <2> QED BY Zenon, <1>1, <2>1, <2>2, CallKept
<1>2. ASSUME UNCHANGED callVars PROVE CallTypeOK' /\ \A d \in Calls : Call(d)'
  BY <1>2, CallKept DEF callVars, CallTypeOK
<1>3. ASSUME NEW h \in Hosts, Delete(h) PROVE CallTypeOK' /\ \A d \in Calls : Call(d)'
  BY <1>1, <1>3 DEF Delete
<1>4. CASE Clear
  BY <1>1, <1>4 DEF Clear
<1>5. CASE Serve \/ ServeEnds \/ StatsDone \/ StopServer \/ Assign
  BY <1>2, <1>5 DEF Serve, ServeEnds, StatsDone, StopServer, Assign
<1>6. ASSUME NEW r \in Rings, RingSet(r) \/ SetDestinations(r) PROVE UNCHANGED callVars
  BY <1>6 DEF RingSet, SetDestinations
<1>7. ASSUME NEW h \in Hosts, Add(h) \/ AddFails(h) PROVE UNCHANGED callVars
  BY <1>7 DEF Add, AddFails
<1> QED BY <1>2, <1>3, <1>4, <1>5, <1>6, <1>7 DEF Update, Stop

LEMMA TallyStep == TInv /\ [Next]_vars => TInv'
<1>1. ASSUME TInv, Next PROVE TInv'
  <2>1. CallTypeOK' /\ \A d \in Calls : Call(d)'
    BY <1>1, CallSteps, ForwardSteps, OtherSteps DEF Next
  <2> QED BY <1>1, <2>1, ConnTypes, ServeTypes, BusyStep DEF TInv
<1>2. ASSUME TInv, UNCHANGED vars PROVE TInv'
  <2>1. \A c \in Calls : Call(c)'
    BY Zenon, <1>2, CallKept DEF TInv, vars, callVars
  <2> QED BY Zenon, <1>2, <2>1 DEF TInv, vars, connVars, serveVars, callVars, ConnTypeOK, CallTypeOK, Busy
<1> QED BY <1>1, <1>2

\* Every variable of the server and of its goroutines keeps its type.
THEOREM ProxyTypes == Spec => []TypeOK
<1>1. TInv => TypeOK
  BY FS_CardinalityType DEF TInv, TypeOK
<1> QED BY <1>1, InitTally, TallyStep, PTL DEF Spec

\* When sendMetrics returns, each metric of its list was forwarded or counted in one error,
\* and the gauge of active handlers is zero when none runs, shared ring or not.
THEOREM EveryMetricAccounted == Spec => []Accounted
<1>1. TInv => Accounted
  <2> SUFFICES ASSUME TInv PROVE Accounted
    OBVIOUS
  <2>1. ASSUME NEW c \in Calls, pc[c] = "done"
        PROVE  failed[c] + Cardinality(sent[c]) = Cardinality(List[c])
    <3>1. CallTypeOK /\ Places(c) /\ Phases(c) /\ rest[c] = {} /\ Tally(c)
      BY Zenon, <2>1 DEF TInv, Call
    <3>2. Pending(c) = {}
      BY Zenon, <2>1, <3>1 DEF Phases, Pending
    <3>3. Cardinality(rest[c]) = 0 /\ Cardinality(Pending(c)) = 0
      BY Zenon, <3>1, <3>2, FS_EmptySet
    <3>4. failed[c] \in Nat /\ Cardinality(sent[c]) \in Nat
      BY Zenon, <3>1, TallyFinite
    <3> QED BY <3>1, <3>3, <3>4 DEF Tally
  <2>2. ASSUME \A c \in Calls : pc[c] \in {"idle", "spawned", "done"} PROVE active = 0
    <3>1. Busy = {}
      BY <2>2 DEF Busy
    <3> QED BY Zenon, <3>1, FS_EmptySet DEF TInv
  <2> QED BY Zenon, <2>1, <2>2 DEF Accounted
<1> QED BY <1>1, InitTally, TallyStep, PTL DEF Spec
=============================================================================
